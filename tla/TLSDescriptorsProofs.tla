------------------------ MODULE TLSDescriptorsProofs ------------------------
(***************************************************************************)
(* Proofs about module TLSDescriptors: reactors read and write through     *)
(* numbers of their own (OwnDescriptors), and what NSS writes elsewhere,   *)
(* it writes to numbers that the connection does not own any more          *)
(* (StraysHaveNoOwner), for every number of connections and descriptors.   *)
(*                                                                         *)
(* A number that a reactor of c keeps is c's in the kernel's table (Held)  *)
(* and no other reactor's of c (Apart); and in every stage the TLS object  *)
(* has the numbers of certain reactors (Shape).  What a step on one        *)
(* connection does to the table leaves the numbers of the others alone.    *)
(***************************************************************************)
EXTENDS TLSDescriptors, WellFoundedInduction, TLAPS

Stages == {"none", "reading", "auth", "payload", "connecting", "simple",
           "handshaking", "stream", "gone"}

Types ==
    /\ role \in Roles
    /\ file \in [Number -> Conn \cup {Closed, Other}]
    /\ stage \in [Conn -> Stages]
    /\ running \in [Conn -> SUBSET Reactor]
    /\ fd \in [Conn -> [Reactor -> 0..MaxFD]]
    /\ readFD \in [Conn -> 0..MaxFD] /\ writeFD \in [Conn -> 0..MaxFD]

\* A number a reactor of c keeps is open, and c's.
Held(c) == \A r \in Reactor : fd[c][r] # 0 => file[fd[c][r]] = c

\* Two reactors of c never keep the same number.
Apart(c) == \A r, s \in Reactor : fd[c][r] = fd[c][s] /\ fd[c][r] # 0 => r = s

\* Which reactors run in a stage of c, and whose numbers the TLS object has.
Shape(c) ==
    /\ stage[c] \in {"none", "gone"} => running[c] = {} /\ \A r \in Reactor : fd[c][r] = 0
    /\ stage[c] \in {"reading", "auth", "payload", "connecting", "simple"} => role = "proxy"
    /\ stage[c] = "handshaking" => role = "proxifier"
    /\ stage[c] \in {"reading", "handshaking", "payload", "connecting"} =>
          /\ running[c] = {"up"}
          /\ fd[c]["up"] # 0 /\ fd[c]["auth"] = 0 /\ fd[c]["down"] = 0
          /\ readFD[c] = fd[c]["up"]
    /\ stage[c] \in {"reading", "handshaking"} => writeFD[c] = fd[c]["up"]
    /\ stage[c] = "auth" =>
          /\ running[c] = {"auth"}
          /\ fd[c]["up"] # 0 /\ fd[c]["auth"] # 0 /\ fd[c]["down"] = 0
          /\ readFD[c] = fd[c]["up"] /\ writeFD[c] = fd[c]["auth"]
    /\ stage[c] = "simple" =>
          /\ running[c] = {"down"}
          /\ fd[c]["down"] # 0 /\ writeFD[c] = fd[c]["down"]
    /\ stage[c] = "stream" =>
          /\ running[c] # {} /\ running[c] \subseteq {"up", "down"}
          /\ fd[c][Reader] # 0 => readFD[c] = fd[c][Reader]
          /\ fd[c][Writer] # 0 => writeFD[c] = fd[c][Writer]
          /\ Writer \in running[c] => fd[c][Writer] # 0

Inv == Types /\ \A c \in Conn : Held(c) /\ Apart(c) /\ Shape(c)

-----------------------------------------------------------------------------
(* The lowest free number. *)

\* A set of natural numbers that is not empty has a least element.
LEMMA LeastElement ==
  ASSUME NEW S, S \subseteq Nat, S # {}
  PROVE  \E n \in S : \A m \in S : n <= m
<1>1. IsWellFoundedOn(OpToRel(<, Nat), Nat)
  BY NatLessThanWellFounded
<1>2. PICK x \in S : \A y \in S : ~(<<y, x>> \in OpToRel(<, Nat))
  BY <1>1, WFMin
<1>3. ASSUME NEW m \in S PROVE x <= m
  <2>1. ~(<<m, x>> \in OpToRel(<, Nat))
    BY <1>2
  <2>2. m \in Nat /\ x \in Nat
    OBVIOUS
  <2>3. ~(m < x)
    BY <2>1, <2>2 DEF OpToRel
  <2> QED
    BY <2>2, <2>3
<1> QED
  BY <1>3

\* What the kernel hands out for a new descriptor is a number that was closed.
LEMMA LowestIsFree ==
  ASSUME Free # {}
  PROVE  Lowest \in Number /\ file[Lowest] = Closed
<1>1. Free \subseteq Nat
  BY DEF Free, Number
<1>2. \E n \in Free : \A m \in Free : n <= m
  BY <1>1, LeastElement
<1>3. Lowest \in Free
  BY <1>2 DEF Lowest
<1> QED
  BY <1>3 DEF Free

\* Numbers that are kept are numbers of the table.
LEMMA KeptIsNumber ==
  ASSUME Types, NEW c \in Conn, NEW r \in Reactor, fd[c][r] # 0
  PROVE  fd[c][r] \in Number
BY TLSDescriptorsAssumption DEF Types, Number

-----------------------------------------------------------------------------
(* Steps on one connection *)

\* A step on c that leaves the numbers of all other connections alone keeps
\* their part of the invariant.
LEMMA Frame ==
  ASSUME Inv, Types', NEW c \in Conn, role' = role,
         \A d \in Conn \ {c} :
            /\ stage'[d] = stage[d] /\ running'[d] = running[d] /\ fd'[d] = fd[d]
            /\ readFD'[d] = readFD[d] /\ writeFD'[d] = writeFD[d],
         \A n \in Number : file[n] \in Conn \ {c} => file'[n] = file[n],
         Held(c)', Apart(c)', Shape(c)'
  PROVE  Inv'
<1> SUFFICES ASSUME NEW d \in Conn \ {c} PROVE Held(d)' /\ Apart(d)' /\ Shape(d)'
  BY DEF Inv
<1>1. /\ stage'[d] = stage[d] /\ running'[d] = running[d] /\ fd'[d] = fd[d]
      /\ readFD'[d] = readFD[d] /\ writeFD'[d] = writeFD[d] /\ role' = role
  OBVIOUS
<1>2. Held(d)'
  <2> SUFFICES ASSUME NEW r \in Reactor, fd[d][r] # 0 PROVE file'[fd[d][r]] = d
    BY <1>1 DEF Held
  <2>1. fd[d][r] \in Number
    BY KeptIsNumber DEF Inv
  <2>2. file[fd[d][r]] = d
    BY DEF Inv, Held
  <2> QED
    BY <2>1, <2>2
<1>3. Apart(d)'
  BY <1>1 DEF Inv, Apart
<1>4. Shape(d)'
  <2>1. Shape(d)
    BY DEF Inv
  <2> QED
    BY <1>1, <2>1 DEF Shape, Reader, Writer
<1> QED
  BY <1>2, <1>3, <1>4

\* Closing numbers of c's reactors: what is closed was c's, the rest stays.
LEMMA ShutTable ==
  ASSUME Inv, NEW c \in Conn, NEW S \in SUBSET Reactor
  PROVE  /\ Shut(c, S) \in [Number -> Conn \cup {Closed, Other}]
         /\ \A n \in Number : file[n] # c => Shut(c, S)[n] = file[n]
         /\ \A r \in Reactor \ S : fd[c][r] # 0 => Shut(c, S)[fd[c][r]] = c
         /\ \A n \in Number : Shut(c, S)[n] # Closed => Shut(c, S)[n] = file[n]
<1>1. Shut(c, S) \in [Number -> Conn \cup {Closed, Other}]
  BY DEF Shut, Inv, Types
<1>2. ASSUME NEW n \in Number, file[n] # c PROVE Shut(c, S)[n] = file[n]
  <2>1. ASSUME NEW r \in S PROVE fd[c][r] # n
    <3>1. r \in Reactor /\ n # 0
      BY DEF Number
    <3> QED
      BY <1>2, <3>1 DEF Inv, Held
  <2> QED
    BY <2>1 DEF Shut
<1>3. ASSUME NEW r \in Reactor \ S, fd[c][r] # 0 PROVE Shut(c, S)[fd[c][r]] = c
  <2>1. fd[c][r] \in Number /\ file[fd[c][r]] = c
    BY <1>3, KeptIsNumber DEF Inv, Held
  <2>2. \A s \in S : fd[c][s] # fd[c][r]
    BY <1>3 DEF Inv, Apart
  <2> QED
    BY <2>1, <2>2 DEF Shut
<1>4. \A n \in Number : Shut(c, S)[n] # Closed => Shut(c, S)[n] = file[n]
  BY DEF Shut
<1> QED
  BY <1>1, <1>2, <1>3, <1>4

\* What becomes of c when reactors of it end.
LEMMA LeavesStep ==
  ASSUME Inv, NEW c \in Conn, NEW R \in SUBSET Reactor, NEW Reset \in SUBSET Reactor,
         NEW h, NEW sent, Leaves(c, R, Reset, h, sent), UNCHANGED <<role, tlsVars>>
  PROVE  /\ \A r \in Reactor :
               fd'[c][r] = IF r \in Reset \/ r \notin Exist(R, h) THEN 0 ELSE fd[c][r]
         /\ running'[c] = R
         /\ stage'[c] = IF R = {} THEN "gone" ELSE stage[c]
         /\ readFD'[c] = readFD[c] /\ writeFD'[c] = writeFD[c] /\ role' = role
         /\ Shape(c)' => Inv'
<1> DEFINE shut == Reset \cup (Reactor \ Exist(R, h))
<1>1. /\ running' = [running EXCEPT ![c] = R]
      /\ file' = Shut(c, shut)
      /\ fd' = [fd EXCEPT ![c] = [r \in Reactor |-> IF r \in shut THEN 0 ELSE fd[c][r]]]
      /\ stage' = IF R = {} THEN [stage EXCEPT ![c] = "gone"] ELSE stage
      /\ readFD' = readFD /\ writeFD' = writeFD /\ role' = role
  BY DEF Leaves, tlsVars
<1>2. Types
  BY DEF Inv
<1>3. fd'[c] = [r \in Reactor |-> IF r \in shut THEN 0 ELSE fd[c][r]]
  BY <1>1, <1>2 DEF Types
<1>4. \A r \in Reactor : fd'[c][r] = IF r \in Reset \/ r \notin Exist(R, h) THEN 0 ELSE fd[c][r]
  BY <1>3
<1>5. running'[c] = R /\ stage'[c] = IF R = {} THEN "gone" ELSE stage[c]
  BY <1>1, <1>2 DEF Types
<1>6. ASSUME Shape(c)' PROVE Inv'
  <2>1. shut \in SUBSET Reactor
    OBVIOUS
  <2> HIDE DEF shut
  <2>2. Types'
    <3>1. file' \in [Number -> Conn \cup {Closed, Other}]
      BY <1>1, <2>1, ShutTable
    <3>2. fd' \in [Conn -> [Reactor -> 0..MaxFD]]
      <4>1. [r \in Reactor |-> IF r \in shut THEN 0 ELSE fd[c][r]] \in [Reactor -> 0..MaxFD]
        BY <1>2, TLSDescriptorsAssumption DEF Types
      <4> QED
        BY <1>1, <1>2, <4>1 DEF Types
    <3>3. stage' \in [Conn -> Stages]
      BY <1>1, <1>2 DEF Types, Stages
    <3>4. running' \in [Conn -> SUBSET Reactor]
      BY <1>1, <1>2 DEF Types
    <3> QED
      BY <1>1, <1>2, <3>1, <3>2, <3>3, <3>4 DEF Types
  <2>3. Held(c)'
    <3> SUFFICES ASSUME NEW r \in Reactor, fd'[c][r] # 0 PROVE file'[fd'[c][r]] = c
      BY DEF Held
    <3>1. r \notin shut /\ fd'[c][r] = fd[c][r]
      BY <1>3
    <3> QED
      BY <1>1, <2>1, <3>1, ShutTable
  <2>4. Apart(c)'
    BY <1>3 DEF Inv, Apart
  <2>5. \A n \in Number : file[n] \in Conn \ {c} => file'[n] = file[n]
    BY <1>1, <2>1, ShutTable
  <2>6. \A d \in Conn \ {c} :
           /\ stage'[d] = stage[d] /\ running'[d] = running[d] /\ fd'[d] = fd[d]
           /\ readFD'[d] = readFD[d] /\ writeFD'[d] = writeFD[d]
    BY <1>1, <1>2 DEF Types
  <2> QED
    BY <1>1, <1>6, <2>2, <2>3, <2>4, <2>5, <2>6, Frame
<1> QED
  BY <1>1, <1>4, <1>5, <1>6

\* What becomes of c when the socket is duplicated for its reactor r.
LEMMA DuplicateStep ==
  ASSUME Inv, NEW c \in Conn, NEW r \in Reactor, NEW R \in SUBSET Reactor, NEW h,
         NEW s \in Stages, Duplicate(c, r, R, h, s), role' = role
  PROVE  /\ fd'[c][r] \in Number
         /\ \A g \in Reactor \ {r} : fd'[c][g] = IF g \notin Exist(R, h) THEN 0 ELSE fd[c][g]
         /\ running'[c] = R /\ stage'[c] = s
         /\ role = "proxifier" => readFD'[c] = fd'[c][r] /\ writeFD'[c] = writeFD[c]
         /\ role # "proxifier" => writeFD'[c] = fd'[c][r] /\ readFD'[c] = readFD[c]
         /\ Shape(c)' => Inv'
<1> DEFINE gone == Reactor \ ({r} \cup Exist(R, h))
           n    == Lowest
<1>1. n \in Number /\ file[n] = Closed
  BY LowestIsFree DEF Duplicate
<1>2. /\ file' = [Shut(c, gone) EXCEPT ![n] = c]
      /\ fd' = [fd EXCEPT ![c] = [g \in Reactor |->
                    IF g = r THEN n ELSE IF g \in gone THEN 0 ELSE fd[c][g]]]
      /\ running' = [running EXCEPT ![c] = R]
      /\ stage' = [stage EXCEPT ![c] = s]
      /\ SetFD(c, n)
  BY DEF Duplicate
<1> HIDE DEF n
<1>3. Types
  BY DEF Inv
<1>4. fd'[c] = [g \in Reactor |-> IF g = r THEN n ELSE IF g \in gone THEN 0 ELSE fd[c][g]]
  BY <1>2, <1>3 DEF Types
<1>5. \A g \in Reactor \ {r} : fd'[c][g] = IF g \notin Exist(R, h) THEN 0 ELSE fd[c][g]
  BY <1>4
<1>6. /\ fd'[c][r] = n /\ running'[c] = R /\ stage'[c] = s
  BY <1>2, <1>3, <1>4 DEF Types
<1>7. /\ role = "proxifier" => readFD' = [readFD EXCEPT ![c] = n] /\ writeFD' = writeFD
      /\ role # "proxifier" => writeFD' = [writeFD EXCEPT ![c] = n] /\ readFD' = readFD
  BY <1>2 DEF SetFD
<1>8. /\ role = "proxifier" => readFD'[c] = fd'[c][r] /\ writeFD'[c] = writeFD[c]
      /\ role # "proxifier" => writeFD'[c] = fd'[c][r] /\ readFD'[c] = readFD[c]
  BY <1>3, <1>6, <1>7 DEF Types
<1>9. ASSUME Shape(c)' PROVE Inv'
  <2>1. gone \in SUBSET Reactor /\ r \notin gone
    OBVIOUS
  <2> HIDE DEF gone
  <2>2. /\ Shut(c, gone) \in [Number -> Conn \cup {Closed, Other}]
        /\ \A m \in Number : file[m] # c => Shut(c, gone)[m] = file[m]
        /\ \A g \in Reactor \ gone : fd[c][g] # 0 => Shut(c, gone)[fd[c][g]] = c
    BY <2>1, ShutTable
  <2>3. n \in 0..MaxFD /\ 0 \in 0..MaxFD
    BY <1>1, TLSDescriptorsAssumption DEF Number
  <2>4. Types'
    <3>1. file' \in [Number -> Conn \cup {Closed, Other}]
      BY <1>2, <2>2
    <3>2. fd' \in [Conn -> [Reactor -> 0..MaxFD]]
      <4>1. fd'[c] \in [Reactor -> 0..MaxFD]
        BY <1>3, <1>4, <2>3 DEF Types
      <4> QED
        BY <1>2, <1>3, <1>4, <4>1 DEF Types
    <3>3. stage' \in [Conn -> Stages] /\ running' \in [Conn -> SUBSET Reactor]
      BY <1>2, <1>3 DEF Types
    <3>4. readFD' \in [Conn -> 0..MaxFD] /\ writeFD' \in [Conn -> 0..MaxFD]
      BY <1>3, <1>7, <2>3 DEF Types
    <3> QED
      BY <1>3, <3>1, <3>2, <3>3, <3>4 DEF Types
  <2>5. \A g \in Reactor : fd[c][g] # n
    BY <1>1, TLSDescriptorsAssumption DEF Inv, Held, Number
  <2>6. Held(c)'
    <3> SUFFICES ASSUME NEW g \in Reactor, fd'[c][g] # 0 PROVE file'[fd'[c][g]] = c
      BY DEF Held
    <3>1. CASE g = r
      BY <1>1, <1>2, <1>6, <2>2, <3>1
    <3>2. CASE g # r
      <4>1. g \notin gone /\ fd'[c][g] = fd[c][g]
        BY <1>4, <3>2
      <4>2. fd[c][g] \in Number /\ fd[c][g] # n
        BY <1>3, <2>5, <4>1, KeptIsNumber
      <4> QED
        BY <1>2, <2>2, <4>1, <4>2
    <3> QED
      BY <3>1, <3>2
  <2>7. Apart(c)'
    BY <1>4, <2>5 DEF Inv, Apart
  <2>8. \A m \in Number : file[m] \in Conn \ {c} => file'[m] = file[m]
    BY <1>1, <1>2, <2>2, TLSDescriptorsAssumption
  <2>9. \A d \in Conn \ {c} :
           /\ stage'[d] = stage[d] /\ running'[d] = running[d] /\ fd'[d] = fd[d]
           /\ readFD'[d] = readFD[d] /\ writeFD'[d] = writeFD[d]
    BY <1>2, <1>3, <1>7 DEF Types
  <2> QED
    BY <1>9, <2>4, <2>6, <2>7, <2>8, <2>9, Frame
<1> QED
  BY <1>1, <1>5, <1>6, <1>8, <1>9

-----------------------------------------------------------------------------
(* The actions *)

\* In the initial state nobody has a number.
LEMMA InitInv == Init => Inv
<1> SUFFICES ASSUME Init PROVE Inv
  OBVIOUS
<1>1. Types
  BY TLSDescriptorsAssumption DEF Init, Types, Stages
<1>2. ASSUME NEW c \in Conn
      PROVE  stage[c] = "none" /\ running[c] = {} /\ \A r \in Reactor : fd[c][r] = 0
  BY DEF Init
<1> QED
  BY <1>1, <1>2 DEF Inv, Held, Apart, Shape

\* A step that changes nothing the invariant is about.
LEMMA SameInv ==
  ASSUME Inv, UNCHANGED <<role, file, stage, running, fd, readFD, writeFD>>
  PROVE  Inv'
BY DEF Inv, Types, Held, Apart, Shape, Reader, Writer

\* A new connection gets numbers that no other has.
LEMMA MakeInv == ASSUME Inv, NEW c \in Conn, Make(c) PROVE Inv'
<1> DEFINE n == Lowest
<1>1. n \in Number /\ file[n] = Closed
  BY LowestIsFree DEF Make
<1>2. /\ stage[c] = "none" /\ role' = role
      /\ file' = [file EXCEPT ![n] = c]
      /\ fd' = [fd EXCEPT ![c]["up"] = n]
      /\ readFD' = [readFD EXCEPT ![c] = n] /\ writeFD' = [writeFD EXCEPT ![c] = n]
      /\ running' = [running EXCEPT ![c] = {"up"}]
      /\ stage' = [stage EXCEPT ![c] = IF role = "proxy" THEN "reading" ELSE "handshaking"]
  BY DEF Make
<1> HIDE DEF n
<1>3. Types /\ role \in {"proxy", "proxifier"} /\ \A r \in Reactor : fd[c][r] = 0
  BY <1>2, TLSDescriptorsAssumption DEF Inv, Types, Shape
<1>4. n \in 0..MaxFD /\ n # 0
  BY <1>1, TLSDescriptorsAssumption DEF Number
<1>5. fd'[c] = [r \in Reactor |-> IF r = "up" THEN n ELSE 0]
  BY <1>2, <1>3 DEF Types, Reactor
<1>6. /\ readFD'[c] = n /\ writeFD'[c] = n /\ running'[c] = {"up"}
      /\ stage'[c] = IF role = "proxy" THEN "reading" ELSE "handshaking"
  BY <1>2, <1>3 DEF Types
<1>7. Types'
  <2>1. fd'[c] \in [Reactor -> 0..MaxFD]
    BY <1>4, <1>5, TLSDescriptorsAssumption
  <2>2. fd' \in [Conn -> [Reactor -> 0..MaxFD]]
    BY <1>2, <1>3, <2>1 DEF Types
  <2> QED
    BY <1>1, <1>2, <1>3, <1>4, <2>2 DEF Types, Stages, Reactor
<1>8. Shape(c)'
  BY <1>2, <1>3, <1>4, <1>5, <1>6 DEF Shape, Reactor
<1>9. Held(c)' /\ Apart(c)'
  BY <1>1, <1>2, <1>3, <1>5 DEF Held, Apart, Types
<1>10. \A m \in Number : file[m] \in Conn \ {c} => file'[m] = file[m]
  BY <1>1, <1>2, <1>3, TLSDescriptorsAssumption DEF Types
<1>11. \A d \in Conn \ {c} :
          /\ stage'[d] = stage[d] /\ running'[d] = running[d] /\ fd'[d] = fd[d]
          /\ readFD'[d] = readFD[d] /\ writeFD'[d] = writeFD[d]
  BY <1>2, <1>3 DEF Types
<1> QED
  BY <1>2, <1>7, <1>8, <1>9, <1>10, <1>11, Frame

\* Answering with a simple downstreamer ends the upstreamer of a proxy.
LEMMA SimpleInv ==
  ASSUME Inv, NEW c \in Conn, role = "proxy", role' = role,
         Duplicate(c, "down", {"down"}, FALSE, "simple")
  PROVE  Inv'
<1> DEFINE free == FALSE
<1>0. Duplicate(c, "down", {"down"}, free, "simple")
  OBVIOUS
<1> HIDE DEF free
<1>1. "down" \in Reactor /\ {"down"} \in SUBSET Reactor /\ "simple" \in Stages
      /\ role # "proxifier"
  BY DEF Reactor, Stages
<1>2. /\ fd'[c]["down"] \in Number
      /\ running'[c] = {"down"} /\ stage'[c] = "simple"
      /\ role # "proxifier" => writeFD'[c] = fd'[c]["down"] /\ readFD'[c] = readFD[c]
      /\ Shape(c)' => Inv'
  BY <1>0, <1>1, DuplicateStep
<1>3. Shape(c)'
  BY <1>1, <1>2 DEF Shape, Number
<1> QED
  BY <1>2, <1>3

\* A downstreamer for the stream: at a proxy it writes to the socket that the
\* upstreamer reads from, at a proxifier it reads from the one that it writes to.
LEMMA StreamInv ==
  ASSUME Inv, NEW c \in Conn, role' = role,
         stage[c] \in {"connecting", "handshaking"},
         Duplicate(c, "down", {"up", "down"}, TRUE, "stream")
  PROVE  Inv'
<1>1. "down" \in Reactor /\ "up" \in Reactor /\ {"up", "down"} \in SUBSET Reactor
      /\ "stream" \in Stages
  BY DEF Reactor, Stages
<1>2. /\ fd'[c]["down"] \in Number
      /\ \A g \in Reactor \ {"down"} :
            fd'[c][g] = IF g \notin Exist({"up", "down"}, TRUE) THEN 0 ELSE fd[c][g]
      /\ running'[c] = {"up", "down"} /\ stage'[c] = "stream"
      /\ role = "proxifier" => readFD'[c] = fd'[c]["down"] /\ writeFD'[c] = writeFD[c]
      /\ role # "proxifier" => writeFD'[c] = fd'[c]["down"] /\ readFD'[c] = readFD[c]
      /\ Shape(c)' => Inv'
  BY <1>1, DuplicateStep
<1>3. fd'[c]["up"] = fd[c]["up"]
  BY <1>1, <1>2 DEF Exist
<1>4. /\ fd[c]["up"] # 0 /\ readFD[c] = fd[c]["up"]
      /\ role = "proxifier" => writeFD[c] = fd[c]["up"]
  BY DEF Inv, Shape
<1>5. fd'[c]["down"] # 0
  BY <1>2 DEF Number
<1>6. role \in {"proxy", "proxifier"}
  BY TLSDescriptorsAssumption DEF Inv, Types
<1>7. Shape(c)'
  BY <1>2, <1>3, <1>4, <1>5, <1>6 DEF Shape, Reader, Writer
<1> QED
  BY <1>2, <1>7

\* After a request the AuthServer or a downstreamer gets a duplicate of the socket.
LEMMA ReadRequestInv == ASSUME Inv, NEW c \in Conn, ReadRequest(c) PROVE Inv'
<1>1. stage[c] = "reading" /\ role' = role
  BY DEF ReadRequest
<1>2. role = "proxy" /\ fd[c]["up"] # 0 /\ readFD[c] = fd[c]["up"] /\ fd[c]["down"] = 0
  BY <1>1 DEF Inv, Shape
<1>3. CASE Duplicate(c, "auth", {"auth"}, FALSE, "auth")
  <2> DEFINE free == FALSE
         just == {"auth"}
  <2>0. Duplicate(c, "auth", just, free, "auth")
    BY <1>3
  <2>1. "auth" \in Reactor /\ "up" \in Reactor /\ "down" \in Reactor
        /\ just \in SUBSET Reactor /\ "auth" \in Stages /\ role # "proxifier"
    BY <1>2 DEF Reactor, Stages
  <2> HIDE DEF free, just
  <2>2. /\ fd'[c]["auth"] \in Number
        /\ \A g \in Reactor \ {"auth"} :
              fd'[c][g] = IF g \notin Exist(just, free) THEN 0 ELSE fd[c][g]
        /\ running'[c] = just /\ stage'[c] = "auth"
        /\ role # "proxifier" => writeFD'[c] = fd'[c]["auth"] /\ readFD'[c] = readFD[c]
        /\ Shape(c)' => Inv'
    BY <1>1, <2>0, <2>1, DuplicateStep
  <2>3. fd'[c]["up"] = fd[c]["up"] /\ fd'[c]["down"] = 0
    BY <2>1, <2>2 DEF Exist, free, just
  <2>4. fd'[c]["auth"] # 0
    BY <2>2 DEF Number
  <2>5. Shape(c)'
    BY <1>1, <1>2, <2>1, <2>2, <2>3, <2>4 DEF Shape, just
  <2> QED
    BY <2>2, <2>5
<1>4. CASE Duplicate(c, "down", {"down"}, FALSE, "simple")
  BY <1>1, <1>2, <1>4, SimpleInv
<1> QED
  BY <1>3, <1>4 DEF ReadRequest

\* The AuthServer's number is closed while the upstreamer goes on with its own.
LEMMA AuthSendInv == ASSUME Inv, NEW c \in Conn, AuthSend(c) PROVE Inv'
<1>1. stage[c] = "auth" /\ role' = role
  BY DEF AuthSend
<1>2. /\ role = "proxy" /\ fd[c]["up"] # 0 /\ readFD[c] = fd[c]["up"]
      /\ fd[c]["down"] = 0
  BY <1>1 DEF Inv, Shape
<1>3. CASE Duplicate(c, "down", {"down"}, FALSE, "simple")
  BY <1>1, <1>2, <1>3, SimpleInv
<1>4. ASSUME file' = Shut(c, {"auth"}),
             fd' = [fd EXCEPT ![c]["auth"] = 0],
             running' = [running EXCEPT ![c] = {"up"}],
             NEW s \in {"payload", "connecting"},
             stage' = [stage EXCEPT ![c] = s],
             UNCHANGED <<readFD, writeFD>>
      PROVE  Inv'
  <2>1. Types /\ {"auth"} \in SUBSET Reactor
    BY DEF Inv, Reactor
  <2>2. fd'[c] = [r \in Reactor |-> IF r = "auth" THEN 0 ELSE fd[c][r]]
    BY <1>4, <2>1 DEF Types, Reactor
  <2>3. running'[c] = {"up"} /\ stage'[c] = s
    BY <1>4, <2>1 DEF Types
  <2>4. Shape(c)'
    BY <1>1, <1>2, <1>4, <2>2, <2>3 DEF Shape, Reactor
  <2>5. Types'
    <3>1. file' \in [Number -> Conn \cup {Closed, Other}]
      BY <1>4, <2>1, ShutTable
    <3>2. fd'[c] \in [Reactor -> 0..MaxFD]
      BY <2>1, <2>2, TLSDescriptorsAssumption DEF Types
    <3>3. fd' \in [Conn -> [Reactor -> 0..MaxFD]]
      BY <1>4, <2>1, <3>2 DEF Types
    <3> QED
      BY <1>1, <1>4, <2>1, <3>1, <3>3 DEF Types, Stages, Reactor
  <2>6. Held(c)'
    <3> SUFFICES ASSUME NEW r \in Reactor, fd'[c][r] # 0 PROVE file'[fd'[c][r]] = c
      BY DEF Held
    <3>1. r \notin {"auth"} /\ fd'[c][r] = fd[c][r]
      BY <2>2
    <3> QED
      BY <1>4, <2>1, <3>1, ShutTable
  <2>7. Apart(c)'
    BY <2>2 DEF Inv, Apart
  <2>8. \A n \in Number : file[n] \in Conn \ {c} => file'[n] = file[n]
    BY <1>4, <2>1, ShutTable
  <2>9. \A d \in Conn \ {c} :
           /\ stage'[d] = stage[d] /\ running'[d] = running[d] /\ fd'[d] = fd[d]
           /\ readFD'[d] = readFD[d] /\ writeFD'[d] = writeFD[d]
    BY <1>4, <2>1 DEF Types
  <2> QED
    BY <1>1, <2>4, <2>5, <2>6, <2>7, <2>8, <2>9, Frame
<1> QED
  BY <1>3, <1>4 DEF AuthSend

\* Payload is read, or a downstreamer with the failure replaces the upstreamer.
LEMMA ReadPayloadInv == ASSUME Inv, NEW c \in Conn, ReadPayload(c) PROVE Inv'
<1>1. stage[c] = "payload" /\ role' = role /\ role = "proxy"
  BY DEF ReadPayload, Inv, Shape
<1>2. CASE Duplicate(c, "down", {"down"}, FALSE, "simple")
  BY <1>1, <1>2, SimpleInv
<1>3. ASSUME stage' \in {stage, [stage EXCEPT ![c] = "connecting"]},
             UNCHANGED <<file, running, holds, fd, readFD, writeFD>>
      PROVE  Inv'
  <2>1. Types /\ stage'[c] \in {"payload", "connecting"}
    BY <1>1, <1>3 DEF Inv, Types
  <2>2. Types'
    BY <1>1, <1>3, <2>1 DEF Types, Stages
  <2>3. Held(c)' /\ Apart(c)'
    BY <1>3 DEF Inv, Held, Apart
  <2>4. Shape(c)'
    BY <1>1, <1>3, <2>1 DEF Inv, Shape
  <2>5. \A d \in Conn \ {c} : stage'[d] = stage[d]
    BY <1>3, <2>1 DEF Types
  <2> QED
    BY <1>1, <1>3, <2>2, <2>3, <2>4, <2>5, Frame
<1> QED
  BY <1>2, <1>3 DEF ReadPayload

\* Reactors of c end while data stream, or as the last one of it.
LEMMA LeavesInv ==
  ASSUME Inv, NEW c \in Conn, NEW R \in SUBSET running[c], NEW Reset \in SUBSET Reactor,
         NEW h, NEW sent, Leaves(c, R, Reset, h, sent), UNCHANGED <<role, tlsVars>>,
         R = {} \/ (stage[c] = "stream" /\ (Writer \in R => Writer \notin Reset))
  PROVE  Inv'
<1>1. R \in SUBSET Reactor
  BY DEF Inv, Types
<1>2. /\ \A r \in Reactor :
            fd'[c][r] = IF r \in Reset \/ r \notin Exist(R, h) THEN 0 ELSE fd[c][r]
      /\ running'[c] = R
      /\ stage'[c] = IF R = {} THEN "gone" ELSE stage[c]
      /\ readFD'[c] = readFD[c] /\ writeFD'[c] = writeFD[c] /\ role' = role
      /\ Shape(c)' => Inv'
  BY <1>1, LeavesStep
<1>3. CASE R = {}
  <2>1. \A r \in Reactor : fd'[c][r] = 0
    BY <1>2, <1>3 DEF Exist
  <2> QED
    BY <1>2, <1>3, <2>1 DEF Shape
<1>4. CASE R # {}
  <2>1. Shape(c) /\ stage[c] = "stream" /\ Reader \in Reactor /\ Writer \in Reactor
    BY <1>4 DEF Inv, Reader, Writer, Reactor
  <2>2. R \subseteq {"up", "down"}
    BY <2>1 DEF Shape
  <2>3. /\ fd'[c][Reader] # 0 => fd'[c][Reader] = fd[c][Reader]
        /\ fd'[c][Writer] # 0 => fd'[c][Writer] = fd[c][Writer]
    BY <1>2, <2>1
  <2>4. Writer \in R => fd'[c][Writer] # 0
    BY <1>2, <1>4, <2>1 DEF Shape, Exist
  <2>5. Reader' = Reader /\ Writer' = Writer
    BY <1>2 DEF Reader, Writer
  <2>6. Shape(c)'
    BY <1>2, <1>4, <2>1, <2>2, <2>3, <2>4, <2>5 DEF Shape
  <2> QED
    BY <1>2, <2>6
<1> QED
  BY <1>3, <1>4

\* The downstreamer of a proxifier drops its upstreamer.
LEMMA DropUpstreamerInv == ASSUME Inv, NEW c \in Conn, DropUpstreamer(c) PROVE Inv'
<1> DEFINE free == FALSE
           none == {}
<1>1. Leaves(c, running[c], none, free, none) /\ UNCHANGED <<role, tlsVars>>
  BY DEF DropUpstreamer
<1>2. stage[c] = "stream"
  <2>1. role = "proxifier" /\ "down" \in running[c] /\ stage[c] \in Stages /\ Shape(c)
    BY DEF DropUpstreamer, Inv, Types
  <2> QED
    BY <2>1 DEF Shape, Stages
<1>3. /\ none \in SUBSET Reactor /\ Writer \notin none
      /\ running[c] \in SUBSET running[c]
  OBVIOUS
<1> HIDE DEF free, none
<1> QED
  BY <1>1, <1>2, <1>3, LeavesInv

\* In all stages but one, the reactor that runs is the only one.
LEMMA AloneOrStream ==
  ASSUME Inv, NEW c \in Conn, NEW r \in running[c]
  PROVE  running[c] \ {r} = {} \/ stage[c] = "stream"
<1>1. stage[c] \in Stages /\ Shape(c)
  BY DEF Inv, Types
<1> QED
  BY <1>1 DEF Shape, Stages

\* At the end of a stream a reactor closes its number, or stops.
LEMMA EndOfStreamInv ==
  ASSUME Inv, NEW c \in Conn, NEW r \in Reactor, EndOfStream(c, r)
  PROVE  Inv'
<1> DEFINE R == running[c] \ {r}
           h == holds[c]
           none == {}
           just == {r}
<1>1. r \in running[c] /\ UNCHANGED <<role, tlsVars>> /\ stage[c] \in {"stream", "simple"}
  BY DEF EndOfStream
<1>2. \/ r = Reader /\ Leaves(c, running[c], just, h, none)
      \/ Leaves(c, R, just, h, none)
  BY DEF EndOfStream
<1>3. /\ R \in SUBSET running[c] /\ running[c] \in SUBSET running[c]
      /\ just \in SUBSET Reactor
  OBVIOUS
<1>4. R = {} \/ (stage[c] = "stream" /\ (Writer \in R => Writer \notin just))
  BY <1>1, AloneOrStream
<1>5. ASSUME r = Reader
      PROVE  stage[c] = "stream" /\ (Writer \in running[c] => Writer \notin just)
  <2>1. role \in {"proxy", "proxifier"} /\ Shape(c)
    BY TLSDescriptorsAssumption DEF Inv, Types
  <2>2. Reader # Writer
    BY <2>1 DEF Reader, Writer
  <2>3. stage[c] # "simple"
    BY <1>1, <1>5, <2>1 DEF Shape, Reader
  <2> QED
    BY <1>1, <1>5, <2>2, <2>3
<1> HIDE DEF R, h, none, just
<1>6. CASE r = Reader /\ Leaves(c, running[c], just, h, none)
  BY <1>1, <1>3, <1>5, <1>6, LeavesInv
<1>7. CASE Leaves(c, R, just, h, none)
  BY <1>1, <1>3, <1>4, <1>7, LeavesInv
<1> QED
  BY <1>2, <1>6, <1>7

\* A failing reactor leaves, and with it those that only it referenced.
LEMMA FailsInv ==
  ASSUME Inv, NEW c \in Conn, NEW r \in Reactor, Fails(c, r)
  PROVE  Inv'
<1> DEFINE R == running[c] \ {r}
           h == holds[c]
           none == {}
<1>1. r \in running[c] /\ UNCHANGED <<role, tlsVars>>
  BY DEF Fails
<1>2. \E sent : Leaves(c, R, none, h, sent)
  BY DEF Fails
<1>3. R \in SUBSET running[c] /\ none \in SUBSET Reactor
  OBVIOUS
<1>4. R = {} \/ (stage[c] = "stream" /\ (Writer \in R => Writer \notin none))
  BY <1>1, AloneOrStream
<1> HIDE DEF R, h, none
<1> QED
  BY <1>1, <1>2, <1>3, <1>4, LeavesInv

\* The rest of the program opens what was closed and closes what was its own.
LEMMA OtherInv ==
  ASSUME Inv, OtherOpens \/ \E n \in Number : OtherCloses(n)
  PROVE  Inv'
<1>1. UNCHANGED <<role, stage, running, fd, readFD, writeFD>>
  BY DEF OtherOpens, OtherCloses, tlsVars
<1>2. PICK n \in Number : /\ file[n] \in {Closed, Other}
                          /\ \/ file' = [file EXCEPT ![n] = Other]
                             \/ file' = [file EXCEPT ![n] = Closed]
  <2>1. CASE OtherOpens
    <3>1. Lowest \in Number /\ file[Lowest] = Closed
      BY <2>1, LowestIsFree DEF OtherOpens
    <3>2. file' = [file EXCEPT ![Lowest] = Other]
      BY <2>1 DEF OtherOpens
    <3> QED
      BY <3>1, <3>2
  <2>2. CASE \E n \in Number : OtherCloses(n)
    BY <2>2 DEF OtherCloses
  <2> QED
    BY <2>1, <2>2
<1>3. Types /\ Types'
  BY <1>1, <1>2 DEF Inv, Types
<1>4. ASSUME NEW c \in Conn PROVE Held(c)' /\ Apart(c)' /\ Shape(c)'
  <2>1. Held(c) /\ Apart(c) /\ Shape(c)
    BY DEF Inv
  <2>2. Held(c)'
    <3> SUFFICES ASSUME NEW r \in Reactor, fd[c][r] # 0 PROVE file'[fd[c][r]] = c
      BY <1>1 DEF Held
    <3>1. fd[c][r] \in Number /\ file[fd[c][r]] = c
      BY <1>3, <2>1, KeptIsNumber DEF Held
    <3>2. fd[c][r] # n
      BY <1>2, <3>1, TLSDescriptorsAssumption
    <3> QED
      BY <1>2, <1>3, <3>1, <3>2 DEF Types
  <2> QED
    BY <1>1, <2>1, <2>2 DEF Apart, Shape, Reader, Writer
<1> QED
  BY <1>3, <1>4 DEF Inv

\* Every step preserves the invariant.
LEMMA NextInv == Inv /\ [Next]_vars => Inv'
<1> SUFFICES ASSUME Inv, [Next]_vars PROVE Inv'
  OBVIOUS
<1>1. CASE UNCHANGED vars
  BY <1>1, SameInv DEF vars, tlsVars
<1>2. ASSUME NEW c \in Conn, Connected(c) \/ SendRequest(c) PROVE Inv'
  <2>1. role' = role /\ stage[c] \in {"connecting", "handshaking"}
    BY <1>2 DEF Connected, SendRequest
  <2>2. \/ Duplicate(c, "down", {"up", "down"}, TRUE, "stream")
        \/ role = "proxy" /\ Duplicate(c, "down", {"down"}, FALSE, "simple")
    BY <1>2 DEF Connected, SendRequest, Inv, Shape
  <2> QED
    BY <2>1, <2>2, StreamInv, SimpleInv
<1>3. ASSUME NEW c \in Conn, StreamRead(c) PROVE Inv'
  BY <1>3, SameInv DEF StreamRead
<1>4. CASE Next
  BY <1>2, <1>3, <1>4, MakeInv, ReadRequestInv, AuthSendInv, ReadPayloadInv,
     DropUpstreamerInv, EndOfStreamInv, FailsInv, OtherInv DEF Next
<1> QED
  BY <1>1, <1>4

\* The table, the reactors and the TLS objects agree in every reachable state.
THEOREM TLSDescriptorsInvariant == Spec => []Inv
BY InitInv, NextInv, PTL DEF Spec

-----------------------------------------------------------------------------
(* The properties *)

\* The number that a reactor reads or writes through is the one of its own
\* socket, in every stage of every connection (tls.cc:162-186, 306-336).
THEOREM TLSOwnDescriptors == Spec => []OwnDescriptors
<1>1. Inv => OwnDescriptors
  <2> SUFFICES ASSUME Inv, NEW c \in Conn
               PROVE  /\ stage[c] \in {"reading", "payload"} => Owns(c, "up", readFD[c])
                      /\ stage[c] = "handshaking" =>
                            Owns(c, "up", readFD[c]) /\ Owns(c, "up", writeFD[c])
                      /\ stage[c] = "auth" => Owns(c, "auth", writeFD[c])
                      /\ stage[c] = "simple" => Owns(c, "down", writeFD[c])
                      /\ stage[c] = "stream" /\ Reader \in running[c] /\ fd[c][Reader] # 0 =>
                            Owns(c, Reader, readFD[c])
                      /\ stage[c] = "stream" /\ Writer \in running[c] => Owns(c, Writer, writeFD[c])
    BY DEF OwnDescriptors
  <2>1. /\ Shape(c) /\ Reader \in Reactor /\ Writer \in Reactor
        /\ "up" \in Reactor /\ "auth" \in Reactor /\ "down" \in Reactor
    BY DEF Inv, Reader, Writer, Reactor
  <2>2. \A r \in Reactor : fd[c][r] # 0 => Owns(c, r, fd[c][r])
    BY DEF Inv, Held, Owns
  <2> QED
    BY <2>1, <2>2 DEF Shape
<1> QED
  BY <1>1, TLSDescriptorsInvariant, PTL

\* What the TLS object of c writes elsewhere, it writes to a number that no
\* reactor of c keeps.
LEMMA StrayNumber ==
  ASSUME Inv, NEW c \in Conn, NEW what, NEW S \in SUBSET Reactor, NEW e,
         e \in Emit(c, what, file) \/ e \in Emit(c, what, Shut(c, S))
  PROVE  e[1] = c /\ \A r \in Reactor : fd[c][r] # writeFD[c]
<1>1. /\ e = <<c, what>> /\ writeFD[c] # 0
      /\ \/ file[writeFD[c]] \notin {c, Closed}
         \/ Shut(c, S)[writeFD[c]] \notin {c, Closed}
  BY DEF Emit
<1>2. writeFD[c] \in Number
  BY <1>1, TLSDescriptorsAssumption DEF Inv, Types, Number
<1>3. file[writeFD[c]] # c
  BY <1>1, <1>2, ShutTable
<1>4. ASSUME NEW r \in Reactor PROVE fd[c][r] # writeFD[c]
  BY <1>1, <1>3 DEF Inv, Held
<1> QED
  BY <1>1, <1>4

\* A connection with a reactor that runs and without a writer is at a proxy
\* between two writers, or streams behind the end of its writer.
LEMMA NoOwner ==
  ASSUME Inv, NEW c \in Conn, running[c] # {},
         \A r \in Reactor : fd[c][r] # writeFD[c]
  PROVE  \/ role = "proxy" /\ stage[c] \in {"payload", "connecting"}
         \/ stage[c] = "stream" /\ fd[c][Writer] = 0
<1>1. /\ stage[c] \in Stages /\ Shape(c) /\ Writer \in Reactor
      /\ "up" \in Reactor /\ "auth" \in Reactor /\ "down" \in Reactor
  BY DEF Inv, Types, Writer, Reactor
<1> QED
  BY <1>1 DEF Shape, Stages

\* An action on c that writes astray does so through Emit, while a reactor of c runs.
LEMMA StrayStep ==
  ASSUME Inv, Next, NEW e \in astray' \ astray
  PROVE  \E c \in Conn :
            /\ running[c] # {}
            /\ \E what : \E S \in SUBSET Reactor :
                  e \in Emit(c, what, file) \/ e \in Emit(c, what, Shut(c, S))
<1>1. PICK c \in Conn :
         \/ Make(c) \/ ReadRequest(c) \/ AuthSend(c) \/ ReadPayload(c) \/ Connected(c)
         \/ SendRequest(c) \/ DropUpstreamer(c) \/ StreamRead(c)
         \/ \E r \in Reactor : EndOfStream(c, r) \/ Fails(c, r)
  BY DEF Next, OtherOpens, OtherCloses
<1>2. ~(Make(c) \/ AuthSend(c) \/ Connected(c) \/ SendRequest(c))
  BY DEF Make, AuthSend, Connected, SendRequest
<1>3. ASSUME Reads(c), running[c] # {} PROVE e \in Emit(c, "ticket", file)
  BY <1>3 DEF Reads
<1>4. {} \in SUBSET Reactor /\ Shape(c)
  BY DEF Inv
<1>5. CASE ReadRequest(c) \/ ReadPayload(c) \/ StreamRead(c)
  <2>1. Reads(c) /\ running[c] # {}
    BY <1>4, <1>5 DEF ReadRequest, ReadPayload, StreamRead, Shape
  <2> QED
    BY <1>3, <1>4, <2>1
<1>6. ASSUME NEW R, NEW Reset \in SUBSET Reactor, NEW h, NEW sent,
             Leaves(c, R, Reset, h, sent), e \notin sent
      PROVE  e \in Emit(c, "notify", Shut(c, Reset))
  BY <1>6 DEF Leaves
<1>7. CASE DropUpstreamer(c)
  BY <1>7 DEF DropUpstreamer, Leaves
<1>8. ASSUME NEW r \in Reactor, EndOfStream(c, r) \/ Fails(c, r)
      PROVE  /\ running[c] # {}
             /\ \E what : \E S \in SUBSET Reactor :
                   e \in Emit(c, what, file) \/ e \in Emit(c, what, Shut(c, S))
  <2>1. running[c] # {} /\ {r} \in SUBSET Reactor
    BY <1>8 DEF EndOfStream, Fails
  <2>2. CASE EndOfStream(c, r)
    BY <1>6, <2>1, <2>2 DEF EndOfStream
  <2>3. CASE Fails(c, r)
    <3>1. PICK sent \in {{}, IF r = Reader THEN Emit(c, "alert", file) ELSE {}} :
             Leaves(c, running[c] \ {r}, {}, holds[c], sent)
      BY <2>3 DEF Fails
    <3>2. CASE e \in sent
      BY <1>4, <2>1, <3>1, <3>2
    <3>3. CASE e \notin sent
      BY <1>4, <1>6, <2>1, <3>1, <3>3
    <3> QED
      BY <3>2, <3>3
  <2> QED
    BY <1>8, <2>2, <2>3
<1> QED
  BY <1>1, <1>2, <1>5, <1>7, <1>8

\* Whatever NSS writes into a number that has become somebody else's, it writes
\* while its own connection has no writer: between the AuthServer and the
\* downstreamer of a proxy, or behind the end of the writer of a stream
\* (tls.hh:49, uniqfd.hh:47-54, authserver.cc:35).
THEOREM TLSStraysHaveNoOwner == Spec => StraysHaveNoOwner
<1> DEFINE Harmless ==
      \A c \in Conn : (\E e \in astray' \ astray : e[1] = c) =>
          /\ \A r \in Reactor : fd[c][r] # writeFD[c]
          /\ \/ role = "proxy" /\ stage[c] \in {"payload", "connecting"}
             \/ stage[c] = "stream" /\ fd[c][Writer] = 0
<1>1. Inv /\ [Next]_vars => [Harmless]_vars
  <2> SUFFICES ASSUME Inv, Next, NEW c \in Conn, NEW e \in astray' \ astray, e[1] = c
               PROVE  /\ \A r \in Reactor : fd[c][r] # writeFD[c]
                      /\ \/ role = "proxy" /\ stage[c] \in {"payload", "connecting"}
                         \/ stage[c] = "stream" /\ fd[c][Writer] = 0
    BY DEF Harmless
  <2>1. PICK d \in Conn :
           /\ running[d] # {}
           /\ \E what : \E S \in SUBSET Reactor :
                 e \in Emit(d, what, file) \/ e \in Emit(d, what, Shut(d, S))
    BY StrayStep
  <2>2. e[1] = d /\ \A r \in Reactor : fd[d][r] # writeFD[d]
    BY <2>1, StrayNumber
  <2> QED
    BY <2>1, <2>2, NoOwner
<1> QED
  BY <1>1, TLSDescriptorsInvariant, PTL DEF Spec, StraysHaveNoOwner

=============================================================================
