--------------------------- MODULE NetworkProofs ----------------------------
(***************************************************************************)
(* Proofs about the game sessions, the connections and the waiting list,   *)
(* for any number of clients, messages and guests.  The parts share no     *)
(* state.                                                                  *)
(***************************************************************************)
EXTENDS Session, Connection, WaitingList, VectorLemmas

-----------------------------------------------------------------------------
(***************************************************************************)
(* The sessions: as long as no two takeovers have overlapped, a client     *)
(* that acts for a player in the game is the one he knows.                 *)
(***************************************************************************)

\* A client whose connection has not sent its first packet is nobody's yet.
NewIsIdle ==
  \A c \in Clients : link[c] = "new" => c \notin acceptPackets \cup loginPosted \cup eventConnect

\* The open clients whose packets are obeyed for the player in the game.
Acting == {c \in acceptPackets : link[c] = "open" /\ playerOf[c] \in inGame}

\* An open client that acts for the player is the one the player knows.
ActingIsKnown == \A c \in Acting : clientOf[playerOf[c]] = c

\* A takeover that no other has overlapped is the only one, its player is in the
\* game and marked, and nobody acts for him any more.
TakeoverIsAlone ==
  \A c \in eventConnect :
    /\ eventConnect = {c}
    /\ uniqueLogin # NoPlayer /\ uniqueLogin \in isConnecting
    /\ Acting = {}

\* The client that a player in the game knows was connected to him.
ClientIsHolder == \A o \in inGame : clientOf[o] # NoClient => playerOf[clientOf[o]] = o

\* The inductive invariant of the sessions.  ActingIsKnown and TakeoverIsAlone are
\* what OneClientActs needs: they say who may act while a takeover is under way.
SessionInv ==
  /\ SessionTypeOK
  /\ uniqueLogin \in PlayerObjects \cup {NoPlayer}
  /\ uniqueLogin <= created
  /\ \A c \in Clients : playerOf[c] <= created
  /\ NewIsIdle
  /\ ClientIsHolder
  /\ ~overlapped => ActingIsKnown /\ TakeoverIsAlone

\* At start nobody has connected.
LEMMA SessionInitInv == SessionInit => SessionInv
BY SessionAssumption
   DEF SessionInit, SessionInv, SessionTypeOK, NewIsIdle, Acting, ActingIsKnown, TakeoverIsAlone,
       ClientIsHolder, PlayerObjects, NoPlayer

\* onRecvFirstMessage() posts a login and gives nobody a player.
LEMMA FirstMessageInv ==
  ASSUME SessionInv, NEW c \in Clients, OnRecvFirstMessage(c)
  PROVE  SessionInv'
<1>1. SessionTypeOK' /\ uniqueLogin' \in PlayerObjects \cup {NoPlayer}
  BY DEF SessionInv, SessionTypeOK, OnRecvFirstMessage, Current
<1>2. Acting' \subseteq Acting
  BY DEF SessionInv, SessionTypeOK, OnRecvFirstMessage, Current, Acting, NewIsIdle
<1>3. NewIsIdle' /\ ClientIsHolder' /\ (~overlapped => ActingIsKnown' /\ TakeoverIsAlone')
  BY <1>2 DEF SessionInv, SessionTypeOK, OnRecvFirstMessage, NewIsIdle, ClientIsHolder, ActingIsKnown,
     TakeoverIsAlone
<1>4. QED
  BY <1>1, <1>3 DEF SessionInv, OnRecvFirstMessage

\* Closing connections opens none.
LEMMA CloseLinksEffect ==
  ASSUME SessionInv, NEW S, S \subseteq Clients, CloseLinks(S)
  PROVE  /\ link' \in [Clients -> {"new", "open", "closed", "expired"}]
         /\ releasing' \subseteq Clients
         /\ \A c \in Clients : /\ link'[c] = "open" => link[c] = "open" /\ c \notin S
                               /\ link'[c] = "new" => link[c] = "new"
BY DEF SessionInv, SessionTypeOK, CloseLinks

\* What the step of a client whose connection is not reopened leaves alone.
LEMMA Quiet ==
  ASSUME SessionInv,
         link' \in [Clients -> {"new", "open", "closed", "expired"}],
         releasing' \subseteq Clients, loginPosted' \subseteq loginPosted,
         \A c \in Clients : /\ link'[c] = "open" => link[c] = "open"
                            /\ link'[c] = "new" => link[c] = "new",
         eventConnect' \subseteq eventConnect, isConnecting' = isConnecting,
         UNCHANGED <<playerOf, acceptPackets, inGame, created, uniqueLogin, clientOf>>,
         ~overlapped' => ~overlapped
  PROVE  SessionInv'
<1>1. Acting' \subseteq Acting
  BY DEF SessionInv, SessionTypeOK, Acting
<1>2. QED
  BY <1>1 DEF SessionInv, SessionTypeOK, NewIsIdle, ClientIsHolder, ActingIsKnown, TakeoverIsAlone

\* A refused login only closes its connection.
LEMMA LoginRefusedInv ==
  ASSUME SessionInv, NEW c \in Clients, Login(c), LoginRefused(c), uniqueLogin = NoPlayer
  PROVE  SessionInv'
<1>1. /\ inGame = {} /\ created' \in PlayerObjects /\ created' = created + 1
  BY SessionAssumption DEF SessionInv, SessionTypeOK, LoginRefused, PlayerObjects
<1>2. /\ playerOf' = [playerOf EXCEPT ![c] = created']
      /\ clientOf' = [clientOf EXCEPT ![created'] = c]
      /\ uniqueLogin' = NoPlayer /\ CloseLinks({c})
      /\ UNCHANGED <<eventConnect, acceptPackets, inGame, isConnecting, overlapped, abandoned>>
      /\ c \in loginPosted /\ loginPosted' = loginPosted \ {c}
  BY DEF LoginRefused, Login
<1>0. /\ link' \in [Clients -> {"new", "open", "closed", "expired"}]
      /\ releasing' \subseteq Clients
      /\ \A d \in Clients : link'[d] = "new" => link[d] = "new"
  <2>1. {c} \subseteq Clients
    OBVIOUS
  <2>2. QED
    BY <1>2, <2>1, CloseLinksEffect, Zenon
<1>3. SessionTypeOK'
  BY <1>0, <1>1, <1>2, SessionAssumption DEF SessionInv, SessionTypeOK, PlayerObjects
<1>4. uniqueLogin' <= created' /\ \A d \in Clients : playerOf'[d] <= created'
  BY <1>1, <1>2 DEF SessionInv, SessionTypeOK, PlayerObjects, NoPlayer
<1>5. NewIsIdle' /\ ClientIsHolder' /\ Acting' = {}
  BY <1>0, <1>1, <1>2 DEF SessionInv, SessionTypeOK, NewIsIdle, ClientIsHolder, Acting
<1>6. ~overlapped => eventConnect' = {}
  BY <1>2 DEF SessionInv, TakeoverIsAlone
<1>7. QED
  BY <1>2, <1>3, <1>4, <1>5, <1>6 DEF SessionInv, ActingIsKnown, TakeoverIsAlone

\* A login that places a new player makes his client the only one acting for him.
LEMMA LoginNewInv ==
  ASSUME SessionInv, NEW c \in Clients, Login(c), LoginNew(c), uniqueLogin = NoPlayer
  PROVE  SessionInv'
<1>1. /\ inGame = {} /\ created' \in PlayerObjects /\ created' = created + 1 /\ created' # NoPlayer
  BY SessionAssumption DEF SessionInv, SessionTypeOK, LoginNew, PlayerObjects, NoPlayer
<1>2. /\ playerOf' = [playerOf EXCEPT ![c] = created']
      /\ clientOf' = [clientOf EXCEPT ![created'] = c]
      /\ uniqueLogin' = created' /\ inGame' = {created'}
      /\ acceptPackets' = acceptPackets \cup {c}
      /\ UNCHANGED <<link, releasing, eventConnect, isConnecting, overlapped, abandoned>>
      /\ c \in loginPosted /\ loginPosted' = loginPosted \ {c}
  BY <1>1 DEF LoginNew, Login, StillConnected
<1>3. SessionTypeOK' /\ uniqueLogin' \in PlayerObjects \cup {NoPlayer}
  BY <1>1, <1>2, SessionAssumption DEF SessionInv, SessionTypeOK, PlayerObjects, NoPlayer
<1>4. /\ uniqueLogin' <= created'
      /\ \A d \in Clients : playerOf'[d] <= created'
      /\ \A d \in Clients \ {c} : playerOf'[d] # created'
  BY <1>1, <1>2 DEF SessionInv, SessionTypeOK, PlayerObjects, NoPlayer
<1>5. NewIsIdle' /\ ClientIsHolder' /\ ActingIsKnown'
  BY <1>1, <1>2, <1>4 DEF SessionInv, SessionTypeOK, NewIsIdle, ClientIsHolder, Acting,
     ActingIsKnown
<1>6. ~overlapped => eventConnect' = {}
  BY <1>2 DEF SessionInv, TakeoverIsAlone
<1>7. QED
  BY <1>2, <1>3, <1>4, <1>5, <1>6 DEF SessionInv, TakeoverIsAlone

\* A takeover begins.
LEMMA TakeoverInv ==
  ASSUME SessionInv, NEW c \in Clients, c \in loginPosted, loginPosted' = loginPosted \ {c},
         uniqueLogin # NoPlayer, Takeover(c), ~overlapped' => ~overlapped /\ eventConnect = {},
         UNCHANGED <<inGame, created, uniqueLogin>>
  PROVE  SessionInv'
<1>1. /\ Current \subseteq Clients /\ inGame = {uniqueLogin} /\ uniqueLogin \in PlayerObjects
      /\ clientOf[uniqueLogin] \in Current \cup {NoClient}
  BY DEF SessionInv, SessionTypeOK, Current
<1>2. /\ CloseLinks(Current) /\ isConnecting' = isConnecting \cup {uniqueLogin}
      /\ eventConnect' = eventConnect \cup {c}
      /\ UNCHANGED <<playerOf, acceptPackets, clientOf>>
  BY DEF Takeover
<1>3. /\ link' \in [Clients -> {"new", "open", "closed", "expired"}]
      /\ releasing' \subseteq Clients
      /\ \A d \in Clients : /\ link'[d] = "open" => link[d] = "open" /\ d \notin Current
                            /\ link'[d] = "new" => link[d] = "new"
  BY <1>1, <1>2, CloseLinksEffect, Zenon
<1>4. SessionTypeOK'
  BY <1>2, <1>3 DEF SessionInv, SessionTypeOK
<1>7. NewIsIdle'
  BY <1>2, <1>3 DEF SessionInv, NewIsIdle
<1>8. ClientIsHolder'
  BY <1>2, <1>3 DEF SessionInv, ClientIsHolder
<1>5. ~overlapped' => Acting' = {}
  <2>1. SUFFICES ASSUME ~overlapped, NEW d \in acceptPackets, link'[d] = "open", playerOf[d] = uniqueLogin
                 PROVE FALSE
    BY <1>1, <1>2 DEF Acting
  <2>2. d \in Clients /\ link[d] = "open" /\ d \notin Current
    BY <1>3, <2>1 DEF SessionInv, SessionTypeOK
  <2>3. clientOf[uniqueLogin] = d
    BY <1>1, <2>1, <2>2 DEF SessionInv, ActingIsKnown, Acting
  <2>4. QED
    BY <1>1, <2>2, <2>3, SessionAssumption
<1>6. QED
  BY <1>1, <1>2, <1>4, <1>5, <1>7, <1>8 DEF SessionInv, ActingIsKnown, TakeoverIsAlone

\* A client is attached to the player when nobody acts for him.
LEMMA AttachInv ==
  ASSUME SessionInv, NEW c \in Clients, link[c] # "new", uniqueLogin # NoPlayer, Attach(c),
         ~overlapped' => ~overlapped /\ Acting = {} /\ eventConnect' = {},
         UNCHANGED <<link, releasing, inGame, created, uniqueLogin>>,
         loginPosted' \subseteq loginPosted, eventConnect' \subseteq eventConnect
  PROVE  SessionInv'
<1>1. inGame = {uniqueLogin} /\ uniqueLogin \in PlayerObjects /\ uniqueLogin <= created
  BY DEF SessionInv, SessionTypeOK
<1>2. /\ playerOf' = [playerOf EXCEPT ![c] = uniqueLogin]
      /\ clientOf' = [clientOf EXCEPT ![uniqueLogin] = c]
      /\ acceptPackets' = acceptPackets \cup {c}
  BY DEF Attach
<1>3. SessionTypeOK' /\ NewIsIdle' /\ ClientIsHolder'
  BY <1>1, <1>2 DEF SessionInv, SessionTypeOK, NewIsIdle, ClientIsHolder
<1>4. \A d \in Clients : playerOf'[d] <= created'
  BY <1>1, <1>2 DEF SessionInv, SessionTypeOK, PlayerObjects, NoPlayer
<1>5. ~overlapped' => ActingIsKnown' /\ TakeoverIsAlone'
  BY <1>1, <1>2 DEF SessionInv, SessionTypeOK, Acting, ActingIsKnown, TakeoverIsAlone
<1>6. QED
  BY <1>3, <1>4, <1>5 DEF SessionInv

\* A client logs in to a player in the game.
LEMMA LoginAgainInv ==
  ASSUME SessionInv, NEW c \in Clients, c \in loginPosted, loginPosted' = loginPosted \ {c},
         uniqueLogin # NoPlayer, LoginAgain(c)
  PROVE  SessionInv'
<1>1. /\ UNCHANGED <<inGame, created, uniqueLogin>>
      /\ ~overlapped' => ~overlapped /\ eventConnect = {}
  BY DEF LoginAgain
<1>2. CASE CloseLinks({c}) /\ UNCHANGED <<eventConnect, playerOf, acceptPackets, clientOf, isConnecting>>
  <2>1. {c} \subseteq Clients
    OBVIOUS
  <2>2. /\ link' \in [Clients -> {"new", "open", "closed", "expired"}]
        /\ releasing' \subseteq Clients
        /\ \A d \in Clients : /\ link'[d] = "open" => link[d] = "open"
                              /\ link'[d] = "new" => link[d] = "new"
    BY <1>2, <2>1, CloseLinksEffect, Zenon
  <2>3. QED
    BY <1>1, <1>2, <2>2, Quiet
<1>3. CASE Takeover(c)
  BY <1>1, <1>3, TakeoverInv
<1>4. CASE Current = {} /\ StillConnected /\ UNCHANGED eventConnect
  <2>1. UNCHANGED <<link, releasing>>
    BY <1>4 DEF StillConnected
  <2>2. CASE UNCHANGED <<playerOf, acceptPackets, clientOf, isConnecting>>
    BY <1>1, <1>4, <2>1, <2>2, Quiet DEF SessionInv, SessionTypeOK
  <2>3. CASE Attach(c)
    <3>1. link[c] # "new"
      BY DEF SessionInv, NewIsIdle
    <3>2. ~overlapped' => Acting = {}
      <4>1. inGame = {uniqueLogin} /\ clientOf[uniqueLogin] = NoClient
        BY <1>4 DEF Current, SessionInv, SessionTypeOK
      <4>2. QED
        BY <1>1, <4>1, SessionAssumption DEF SessionInv, SessionTypeOK, ActingIsKnown, Acting
    <3>3. QED
      BY <1>1, <1>4, <2>1, <2>3, <3>1, <3>2, AttachInv
  <2>4. QED
    BY <1>4, <2>2, <2>3 DEF LoginAgain, Takeover
<1>5. QED
  BY <1>2, <1>3, <1>4 DEF LoginAgain

\* The connect event of a takeover.
LEMMA ConnectInv ==
  ASSUME SessionInv, NEW c \in Clients, Connect(c)
  PROVE  SessionInv'
<1>1. /\ c \in eventConnect /\ eventConnect' = eventConnect \ {c}
      /\ UNCHANGED <<loginPosted, inGame, created, uniqueLogin, overlapped>>
  BY DEF Connect
<1>2. CASE CloseLinks({c}) /\ UNCHANGED <<playerOf, acceptPackets, clientOf, isConnecting, abandoned>>
  <2>1. {c} \subseteq Clients
    OBVIOUS
  <2>2. /\ link' \in [Clients -> {"new", "open", "closed", "expired"}]
        /\ releasing' \subseteq Clients
        /\ \A d \in Clients : /\ link'[d] = "open" => link[d] = "open"
                              /\ link'[d] = "new" => link[d] = "new"
    BY <1>2, <2>1, CloseLinksEffect, Zenon
  <2>3. QED
    BY <1>1, <1>2, <2>2, Quiet
<1>3. CASE StillConnected /\ UNCHANGED <<playerOf, acceptPackets, clientOf, isConnecting>>
  BY <1>1, <1>3, Quiet DEF SessionInv, SessionTypeOK, StillConnected
<1>4. CASE uniqueLogin # NoPlayer /\ Attach(c) /\ StillConnected
  <2>1. link[c] # "new"
    BY <1>1 DEF SessionInv, NewIsIdle
  <2>2. ~overlapped => Acting = {} /\ eventConnect' = {}
    BY <1>1 DEF SessionInv, TakeoverIsAlone
  <2>3. QED
    BY <1>1, <1>4, <2>1, <2>2, AttachInv DEF StillConnected
<1>5. QED
  BY <1>2, <1>3, <1>4 DEF Connect

\* A closed connection's client lets go of the player, if he is its own.
LEMMA ReleaseInv ==
  ASSUME SessionInv, NEW c \in Clients, Release(c)
  PROVE  SessionInv'
<1>1. /\ releasing' \subseteq releasing
      /\ UNCHANGED <<link, loginPosted, eventConnect, acceptPackets, inGame, created,
                     uniqueLogin, isConnecting, overlapped, abandoned>>
  BY DEF Release
<1>2. CASE UNCHANGED <<clientOf, playerOf>>
  BY <1>1, <1>2, Quiet DEF SessionInv, SessionTypeOK
<1>3. ASSUME playerOf[c] # NoPlayer, clientOf[playerOf[c]] = c,
             clientOf' = [clientOf EXCEPT ![playerOf[c]] = NoClient],
             playerOf' = [playerOf EXCEPT ![c] = NoPlayer]
      PROVE  SessionInv'
  <2>1. SessionTypeOK'
    BY <1>1, <1>3 DEF SessionInv, SessionTypeOK
  <2>2. \A d \in Clients : playerOf'[d] <= created'
    BY <1>1, <1>3 DEF SessionInv, SessionTypeOK, NoPlayer
  <2>3. ClientIsHolder'
    BY <1>1, <1>3 DEF SessionInv, SessionTypeOK, ClientIsHolder
  <2>4. Acting' \subseteq Acting \ {c} /\ \A d \in Acting' : playerOf'[d] = playerOf[d]
    BY <1>1, <1>3 DEF SessionInv, SessionTypeOK, Acting, NoPlayer
  <2>5. ~overlapped => ActingIsKnown'
    BY <1>1, <1>3, <2>4 DEF SessionInv, SessionTypeOK, Acting, ActingIsKnown
  <2>6. QED
    BY <1>1, <2>1, <2>2, <2>3, <2>4, <2>5 DEF SessionInv, NewIsIdle, TakeoverIsAlone
<1>4. QED
  BY <1>2, <1>3 DEF Release, LetGo

\* The player leaves the game: nobody is taking him over.
LEMMA RemoveInv ==
  ASSUME SessionInv, NEW o \in inGame, RemovePlayer(o), o \notin isConnecting \/ Acting # {}
  PROVE  SessionInv'
<1>1. /\ o = uniqueLogin /\ inGame' = {} /\ uniqueLogin' = NoPlayer
      /\ UNCHANGED <<link, loginPosted, eventConnect, releasing, playerOf, acceptPackets,
                     created, clientOf, isConnecting, overlapped, abandoned>>
  BY DEF SessionInv, SessionTypeOK, RemovePlayer
<1>2. ~overlapped => eventConnect = {}
  BY <1>1 DEF SessionInv, TakeoverIsAlone
<1>3. SessionTypeOK' /\ uniqueLogin' <= created'
  BY <1>1 DEF SessionInv, SessionTypeOK, NoPlayer
<1>4. QED
  BY <1>1, <1>2, <1>3 DEF SessionInv, NewIsIdle, ClientIsHolder, ActingIsKnown, Acting, TakeoverIsAlone

\* Every step keeps the invariant of the sessions.
LEMMA SessionNextInv ==
  ASSUME SessionInv, [SessionNext]_sessionVars
  PROVE  SessionInv'
<1>1. CASE UNCHANGED sessionVars
  BY <1>1, Quiet DEF sessionVars, SessionInv, SessionTypeOK
<1>2. ASSUME NEW c \in Clients, Login(c) PROVE SessionInv'
  BY <1>2, LoginRefusedInv, LoginNewInv, LoginAgainInv DEF Login
<1>3. ASSUME NEW c \in Clients, LoseConnection(c) PROVE SessionInv'
  <2>1. {c} \subseteq Clients /\ CloseLinks({c})
    BY <1>3 DEF LoseConnection
  <2>2. /\ link' \in [Clients -> {"new", "open", "closed", "expired"}]
        /\ releasing' \subseteq Clients
        /\ \A d \in Clients : /\ link'[d] = "open" => link[d] = "open"
                              /\ link'[d] = "new" => link[d] = "new"
    BY <2>1, CloseLinksEffect, Zenon
  <2>3. QED
    BY <1>3, <2>2, Quiet DEF LoseConnection
<1>4. ASSUME NEW c \in Clients, ExpireConnection(c) PROVE SessionInv'
  <2>1. /\ link' \in [Clients -> {"new", "open", "closed", "expired"}]
        /\ \A d \in Clients : /\ link'[d] = "open" => link[d] = "open"
                              /\ link'[d] = "new" => link[d] = "new"
    BY <1>4 DEF ExpireConnection, SessionInv, SessionTypeOK
  <2>2. QED
    BY <1>4, <2>1, Quiet DEF ExpireConnection, SessionInv, SessionTypeOK
<1>5. ASSUME NEW c \in Clients, Logout(c) PROVE SessionInv'
  BY <1>5, RemoveInv DEF Logout, Acting
<1>6. ASSUME NEW o \in PlayerObjects, PingTimeout(o) PROVE SessionInv'
  BY <1>6, RemoveInv DEF PingTimeout
<1>7. QED
  BY <1>1, <1>2, <1>3, <1>4, <1>5, <1>6, FirstMessageInv, ConnectInv, ReleaseInv DEF SessionNext

\* The invariant says that one client at most acts for the player.
LEMMA SessionInvImplies == SessionInv => SessionIsSafe
<1>1. SUFFICES ASSUME SessionInv PROVE SessionIsSafe
  OBVIOUS
<1>2. ClientHoldsPlayer
  BY <1>1 DEF SessionInv, ClientHoldsPlayer, ClientIsHolder, ActingIsKnown, Acting
<1>3. ASSUME ~overlapped PROVE Cardinality(Acting) <= 1
  <2>1. \A c \in Acting : c = clientOf[uniqueLogin]
    BY <1>1, <1>3 DEF SessionInv, SessionTypeOK, ActingIsKnown, Acting
  <2>2. CASE Acting = {}
    BY <2>2, FS_EmptySet
  <2>3. CASE Acting # {}
    <3>1. Acting = {clientOf[uniqueLogin]}
      BY <2>1, <2>3
    <3>2. Cardinality({clientOf[uniqueLogin]}) = 1
      BY FS_Singleton
    <3>3. QED
      BY <3>1, <3>2
  <2>4. QED
    BY <2>2, <2>3
<1>4. QED
  BY <1>1, <1>2, <1>3 DEF SessionInv, SessionIsSafe, OneClientActs, Acting

\* Sessions: for every number of clients and logins, the client a player knows holds
\* that player, and as long as no two takeovers overlapped one open client at most
\* acts for him.
THEOREM SessionSafe == SessionSpec => []SessionIsSafe
<1>1. SessionInv /\ [SessionNext]_sessionVars => SessionInv'
  BY SessionNextInv
<1>2. QED
  BY <1>1, SessionInitInv, SessionInvImplies, PTL DEF SessionSpec

-----------------------------------------------------------------------------
(***************************************************************************)
(* A connection: its queue of messages is a run of consecutive numbers,    *)
(* and somebody works on it exactly while it is not empty.                 *)
(***************************************************************************)

\* The variables of the queue of messages.
queueVars == <<messageQueue, posted, sealing, writing, queued, sealed, wire>>

\* A message of the queue is in somebody's hands: a worker is posted for it, it
\* is being sealed or written.
QueueTypes ==
  /\ messageQueue \in Seq(Nat) /\ sealed \in Seq(Nat) /\ wire \in Seq(Nat)
  /\ queued \in Nat
  /\ \/ posted = 0 /\ writing = 0 /\ ~sealing
     \/ posted = 1 /\ writing = 0 /\ ~sealing
     \/ posted = 0 /\ writing = 1 /\ ~sealing
     \/ posted = 0 /\ writing = 0 /\ sealing

\* The queue holds the messages after those that were written, and somebody works
\* on it exactly while it is not empty.
QueueInv ==
  /\ QueueTypes
  /\ \A i \in DOMAIN sealed : sealed[i] = i
  /\ \A i \in DOMAIN wire : wire[i] = i
  /\ \A i \in DOMAIN messageQueue : messageQueue[i] = Len(wire) + i
  /\ messageQueue = <<>> <=> posted = 0 /\ writing = 0 /\ ~sealing
  /\ posted = 1 => Len(sealed) = Len(wire)
  /\ sealing \/ writing = 1 => Len(sealed) = Len(wire) + 1
  /\ Len(wire) <= Len(sealed)
  /\ ~Closed => /\ queued = Len(wire) + Len(messageQueue)
                /\ messageQueue = <<>> => Len(sealed) = Len(wire)

\* A run of consecutive numbers is continued by the next one.
LEMMA NumberedAppend ==
  ASSUME NEW s \in Seq(Nat), NEW k \in Nat, \A i \in DOMAIN s : s[i] = k + i,
         NEW e \in Nat, e = k + Len(s) + 1
  PROVE  /\ Append(s, e) \in Seq(Nat)
         /\ Len(Append(s, e)) = Len(s) + 1
         /\ \A i \in DOMAIN Append(s, e) : Append(s, e)[i] = k + i
         /\ Append(s, e) # <<>>
<1>1. /\ Append(s, e) \in Seq(Nat)
      /\ Len(Append(s, e)) = Len(s) + 1
      /\ \A i \in 1..Len(s) : Append(s, e)[i] = s[i]
      /\ Append(s, e)[Len(s) + 1] = e
      /\ Append(s, e) # <<>>
  BY AppendProperties
<1>2. DOMAIN Append(s, e) = 1..(Len(s) + 1) /\ DOMAIN s = 1..Len(s) /\ Len(s) \in Nat
  BY <1>1, LenProperties
<1>3. QED
  BY <1>1, <1>2

\* The tail of a run of consecutive numbers starts one later.
LEMMA NumberedTail ==
  ASSUME NEW s \in Seq(Nat), NEW k \in Nat, \A i \in DOMAIN s : s[i] = k + i, s # <<>>
  PROVE  /\ Tail(s) \in Seq(Nat)
         /\ Len(Tail(s)) = Len(s) - 1
         /\ \A i \in DOMAIN Tail(s) : Tail(s)[i] = k + 1 + i
         /\ Head(s) = k + 1
         /\ Len(s) \in Nat /\ Len(s) > 0
<1>1. /\ Tail(s) \in Seq(Nat)
      /\ Len(Tail(s)) = Len(s) - 1
      /\ \A i \in 1..Len(Tail(s)) : Tail(s)[i] = s[i + 1]
  BY HeadTailProperties
<1>2. /\ Head(s) = s[1] /\ Len(s) \in Nat \ {0}
      /\ DOMAIN s = 1..Len(s) /\ DOMAIN Tail(s) = 1..(Len(s) - 1)
  BY <1>1, EmptySeq, LenProperties
<1>3. QED
  BY <1>1, <1>2

\* Connection::send() numbers the message after the last of the queue, and posts a
\* worker only for the first.
LEMMA EnqueueInv ==
  ASSUME QueueInv, Enqueue, UNCHANGED <<sealing, writing, sealed, wire, connectionState>>
  PROVE  QueueInv'
<1>1. CASE Closed
  BY <1>1 DEF Enqueue, QueueInv, QueueTypes, Closed
<1>2. CASE ~Closed
  <2>1. /\ queued' = queued + 1 /\ messageQueue' = Append(messageQueue, queued + 1)
        /\ posted' = IF messageQueue = <<>> THEN posted + 1 ELSE posted
    BY <1>2 DEF Enqueue
  <2>2. /\ Len(wire) \in Nat /\ Len(messageQueue) \in Nat 
        /\ queued + 1 \in Nat /\ queued + 1 = Len(wire) + Len(messageQueue) + 1
    BY <1>2 DEF QueueInv, QueueTypes
  <2>3. /\ messageQueue' \in Seq(Nat)
        /\ Len(messageQueue') = Len(messageQueue) + 1
        /\ \A i \in DOMAIN messageQueue' : messageQueue'[i] = Len(wire) + i
        /\ messageQueue' # <<>>
    <3>1. messageQueue \in Seq(Nat) /\ \A i \in DOMAIN messageQueue : messageQueue[i] = Len(wire) + i
      BY DEF QueueInv, QueueTypes
    <3>2. QED
      BY <2>1, <2>2, <3>1, NumberedAppend
  <2>4. QueueTypes'
    BY <2>1, <2>2, <2>3 DEF QueueInv, QueueTypes
  <2>5. /\ messageQueue' = <<>> <=> posted' = 0 /\ writing' = 0 /\ ~sealing'
        /\ posted' = 1 => Len(sealed') = Len(wire')
        /\ sealing' \/ writing' = 1 => Len(sealed') = Len(wire') + 1
    BY <1>2, <2>1, <2>3 DEF QueueInv, QueueTypes
  <2>6. queued' = Len(wire') + Len(messageQueue')
    BY <2>1, <2>2, <2>3
  <2>7. QED
    BY <2>3, <2>4, <2>5, <2>6 DEF QueueInv
<1>3. QED
  BY <1>1, <1>2

\* A worker takes the front of the queue, which is the next message to seal.
LEMMA SealInv ==
  ASSUME QueueInv, InternalWorker
  PROVE  QueueInv'
<1>1. /\ posted = 1 /\ posted' = 0 /\ writing = 0 /\ sealing' /\ messageQueue # <<>>
      /\ sealed' = Append(sealed, Head(messageQueue))
      /\ UNCHANGED <<messageQueue, writing, queued, wire, connectionState>>
  BY DEF QueueInv, QueueTypes, InternalWorker, NotClosing
<1>2. /\ Len(sealed) \in Nat /\ Len(wire) \in Nat /\ Len(sealed) = Len(wire)
      /\ messageQueue \in Seq(Nat) /\ \A i \in DOMAIN messageQueue : messageQueue[i] = Len(wire) + i
      /\ sealed \in Seq(Nat) /\ \A i \in DOMAIN sealed : sealed[i] = 0 + i
  BY <1>1 DEF QueueInv, QueueTypes
<1>3. Head(messageQueue) = Len(wire) + 1
  BY <1>1, <1>2, NumberedTail
<1>4. /\ Head(messageQueue) \in Nat /\ Head(messageQueue) = 0 + Len(sealed) + 1
  BY <1>2, <1>3
<1>5. /\ sealed' \in Seq(Nat) /\ Len(sealed') = Len(sealed) + 1
      /\ \A i \in DOMAIN sealed' : sealed'[i] = 0 + i
  BY <1>1, <1>2, <1>4, NumberedAppend
<1>6. \A i \in DOMAIN sealed' : sealed'[i] = i
  BY <1>5
<1>7. QueueTypes'
  BY <1>1, <1>5 DEF QueueInv, QueueTypes
<1>8. QED
  BY <1>1, <1>2, <1>5, <1>6, <1>7 DEF QueueInv, Closed

\* A message has been written: the rest of the queue follows it.
LEMMA WrittenInv ==
  ASSUME QueueInv, OnWriteOperation
  PROVE  QueueInv'
<1>1. /\ writing = 1 /\ writing' = 0 /\ posted = 0 /\ posted' = 0 /\ ~sealing
      /\ wire' = Append(wire, sealed[Len(wire) + 1])
      /\ messageQueue' = Tail(messageQueue) /\ messageQueue # <<>>
      /\ UNCHANGED <<queued, connectionState>>
  <2>1. /\ writing > 0 /\ writing' = writing - 1 /\ posted' = posted
        /\ wire' = Append(wire, sealed[Len(wire) + 1])
        /\ messageQueue' = Tail(messageQueue)
        /\ UNCHANGED <<queued, connectionState>>
    BY DEF OnWriteOperation
  <2>2. writing = 1 /\ posted = 0 /\ ~sealing /\ messageQueue # <<>>
    BY <2>1 DEF QueueInv, QueueTypes
  <2>3. QED
    BY <2>1, <2>2
<1>2. /\ Len(sealed) \in Nat /\ Len(wire) \in Nat /\ Len(sealed) = Len(wire) + 1
      /\ messageQueue \in Seq(Nat) /\ \A i \in DOMAIN messageQueue : messageQueue[i] = Len(wire) + i
      /\ sealed \in Seq(Nat) /\ \A i \in DOMAIN sealed : sealed[i] = 0 + i
      /\ wire \in Seq(Nat) /\ \A i \in DOMAIN wire : wire[i] = 0 + i
  BY <1>1 DEF QueueInv, QueueTypes
<1>3. /\ messageQueue' \in Seq(Nat) /\ Len(messageQueue') = Len(messageQueue) - 1
      /\ Len(messageQueue) \in Nat
      /\ \A i \in DOMAIN messageQueue' : messageQueue'[i] = Len(wire) + 1 + i
  <2>1. messageQueue # <<>>
    BY <1>1
  <2>2. /\ Tail(messageQueue) \in Seq(Nat)
        /\ Len(Tail(messageQueue)) = Len(messageQueue) - 1
        /\ \A i \in DOMAIN Tail(messageQueue) : Tail(messageQueue)[i] = Len(wire) + 1 + i
        /\ Len(messageQueue) \in Nat
    BY <1>2, <2>1, NumberedTail
  <2>3. QED
    BY <1>1, <2>2
<1>4. sealed[Len(wire) + 1] = Len(wire) + 1
  <2>1. Len(wire) + 1 \in 1..Len(sealed) /\ DOMAIN sealed = 1..Len(sealed)
    BY <1>2, LenProperties
  <2>2. \A i \in DOMAIN sealed : sealed[i] = i
    BY DEF QueueInv
  <2>3. QED
    BY <2>1, <2>2
<1>5. /\ sealed[Len(wire) + 1] \in Nat /\ sealed[Len(wire) + 1] = 0 + Len(wire) + 1
  BY <1>2, <1>4
<1>6. /\ wire' \in Seq(Nat) /\ Len(wire') = Len(wire) + 1
      /\ \A i \in DOMAIN wire' : wire'[i] = 0 + i
  BY <1>1, <1>2, <1>5, NumberedAppend
<1>7. /\ \A i \in DOMAIN wire' : wire'[i] = i
      /\ \A i \in DOMAIN messageQueue' : messageQueue'[i] = Len(wire') + i
      /\ ~Closed => queued' = Len(wire') + Len(messageQueue')
  BY <1>1, <1>2, <1>3, <1>6 DEF QueueInv
<1>8. CASE messageQueue' = <<>> /\ UNCHANGED <<sealing, sealed>>
  <2>1. QueueTypes'
    BY <1>1, <1>3, <1>6, <1>8 DEF QueueInv, QueueTypes
  <2>2. QED
    BY <1>1, <1>2, <1>6, <1>7, <1>8, <2>1 DEF QueueInv, Closed
<1>9. CASE messageQueue' # <<>> /\ sealing' /\ sealed' = Append(sealed, Head(messageQueue'))
  <2>1. Len(wire) + 1 \in Nat
    BY <1>2
  <2>2. Head(messageQueue') = Len(wire) + 1 + 1
    BY <1>3, <1>9, <2>1, NumberedTail
  <2>3. Head(messageQueue') \in Nat /\ Head(messageQueue') = 0 + Len(sealed) + 1
    BY <1>2, <2>2
  <2>4. /\ sealed' \in Seq(Nat) /\ Len(sealed') = Len(sealed) + 1
        /\ \A i \in DOMAIN sealed' : sealed'[i] = 0 + i
    BY <1>2, <1>9, <2>3, NumberedAppend
  <2>5. \A i \in DOMAIN sealed' : sealed'[i] = i
    BY <2>4
  <2>6. QueueTypes'
    BY <1>1, <1>3, <1>6, <1>9, <2>4 DEF QueueInv, QueueTypes
  <2>7. /\ messageQueue' = <<>> <=> posted' = 0 /\ writing' = 0 /\ ~sealing'
        /\ posted' = 1 => Len(sealed') = Len(wire')
        /\ sealing' \/ writing' = 1 => Len(sealed') = Len(wire') + 1
        /\ Len(wire') <= Len(sealed')
    BY <1>1, <1>2, <1>6, <1>9, <2>4
  <2>8. QED
    BY <1>1, <1>7, <1>9, <2>5, <2>6, <2>7 DEF QueueInv, Closed
<1>10. QED
  BY <1>8, <1>9 DEF OnWriteOperation

\* A failed write empties the queue of a connection that is closed from then on.
LEMMA WriteErrorInv ==
  ASSUME QueueInv, OnWriteError
  PROVE  QueueInv'
<1>1. /\ writing = 1 /\ writing' = 0 /\ posted = 0 /\ ~sealing /\ messageQueue' = <<>>
      /\ UNCHANGED <<posted, sealing, queued, sealed, wire>>
      /\ connectionState' = "closed"
  BY DEF QueueInv, QueueTypes, OnWriteError, Close, historyVars
<1>2. messageQueue' \in Seq(Nat) /\ DOMAIN messageQueue' = {}
  BY <1>1
<1>3. QED
  BY <1>1, <1>2 DEF QueueInv, QueueTypes, Closed

\* Every other step leaves the queue alone.
OtherStep ==
  \/ ReadFails \/ ReadClosed \/ ReadIdentification \/ ReadHeader \/ ReadFirstPacket
  \/ ReadPacket \/ ParsePacketEnd \/ ReadTimeout \/ WriteTimeout \/ Destroy
  \/ WriteToOutputBuffer \/ Disconnect \/ ParseEvent \/ ResumeWork \/ ReleaseEvent
  \/ PeerChanges

\* A closed connection stays closed.
LEMMA StaysClosed == ConnectionNext /\ Closed => Closed'
BY DEF ConnectionNext, NetworkThread, DispatcherThread, ReadFails, ReadClosed, ReadIdentification,
   ReadHeader, ReadFirstPacket, ReadPacket, ParsePacketEnd, InternalWorker, InternalSend,
   OnWriteOperation, OnWriteError, ReadTimeout, WriteTimeout, Destroy, Send,
   WriteToOutputBuffer, SendAll, Disconnect, ParseEvent, ResumeWork, ReleaseEvent, PeerChanges,
   NotClosing, GiveUp, Close, Closed, BytesArrive

\* The other steps leave the queue alone.
LEMMA OtherQueue ==
  ASSUME OtherStep
  PROVE  UNCHANGED queueVars
BY DEF OtherStep, queueVars, ReadFails, ReadClosed, ReadIdentification, ReadHeader,
   ReadFirstPacket, ReadPacket, ParsePacketEnd, ReadTimeout, WriteTimeout, Destroy,
   WriteToOutputBuffer, Disconnect, ParseEvent, ResumeWork, ReleaseEvent, PeerChanges,
   handlerVars, historyVars

\* Every step keeps the queue in order.
LEMMA QueueNext ==
  ASSUME QueueInv, [ConnectionNext]_connVars
  PROVE  QueueInv'
<1>1. CASE UNCHANGED connVars
  BY <1>1 DEF connVars, handlerVars, historyVars, QueueInv, QueueTypes, Closed
<1>2. CASE Send \/ SendAll
  BY <1>2, EnqueueInv DEF Send, SendAll, NotClosing
<1>3. CASE InternalSend
  BY <1>3 DEF InternalSend, NotClosing, historyVars, QueueInv, QueueTypes, Closed
<1>4. CASE ConnectionNext /\ OtherStep
  BY <1>4, OtherQueue, StaysClosed DEF queueVars, QueueInv, QueueTypes
<1>5. QED
  BY <1>1, <1>2, <1>3, <1>4, SealInv, WrittenInv, WriteErrorInv
     DEF ConnectionNext, NetworkThread, DispatcherThread, OtherStep

-----------------------------------------------------------------------------
\* Who may touch the buffer and the timers: everything but the queue.
ConnFlags ==
  /\ socketOpen \in BOOLEAN /\ hasProtocol \in BOOLEAN /\ receivedFirst \in BOOLEAN
  /\ tail \in BOOLEAN /\ readTimer \in BOOLEAN /\ writeTimer \in BOOLEAN
  /\ outputBuffer \in BOOLEAN /\ softClosed \in BOOLEAN /\ sealing \in BOOLEAN

\* The values of the connection's state machines.
ConnStates ==
  /\ connectionState \in {"identifying", "readings", "open", "closed"}
  /\ reader \in {"none", "ident", "header", "packet"}
  /\ event \in {"none", "posted", "parsing"}
  /\ releaseEvent \in {"none", "posted", "done", "expired"}
  /\ peer \in {"reads", "stalled", "gone"}

\* OpenIsWatched in the form that is inductive: the write timer is armed also in
\* the middle of parsePacket.
Watched == ~Closed => (~tail => readTimer) /\ (writing > 0 => writeTimer)

\* The inductive invariant of a connection.
ConnectionInv ==
  QueueInv /\ ConnFlags /\ ConnStates /\ MsgIsOwned /\ Watched /\ ReleaseIsOwed

\* Every step keeps the state machines among their values.
LEMMA StatesNext ==
  ASSUME ConnStates, [ConnectionNext]_connVars
  PROVE  ConnStates'
<1>1. CASE UNCHANGED connVars
  BY <1>1 DEF ConnStates, connVars, handlerVars
<1>2. CASE NetworkThread
  BY <1>2 DEF ConnStates, NetworkThread, ReadFails, ReadClosed, ReadIdentification,
     ReadHeader, ReadFirstPacket, ReadPacket, ParsePacketEnd, InternalWorker, InternalSend,
     OnWriteOperation, OnWriteError, ReadTimeout, WriteTimeout, Destroy, NotClosing, GiveUp,
     Close, ReadOn, HandOver, handlerVars
<1>3. CASE DispatcherThread \/ PeerChanges
  BY <1>3 DEF ConnStates, DispatcherThread, Send, WriteToOutputBuffer, SendAll, Disconnect,
     ParseEvent, ResumeWork, ReleaseEvent, PeerChanges, NotClosing, Close, handlerVars
<1>4. QED
  BY <1>1, <1>2, <1>3 DEF ConnectionNext

\* Every step keeps the flags Boolean.
LEMMA FlagsNext ==
  ASSUME ConnFlags, [ConnectionNext]_connVars
  PROVE  ConnFlags'
<1>1. CASE UNCHANGED connVars
  BY <1>1 DEF ConnFlags, connVars, handlerVars
<1>2. CASE NetworkThread
  <2>1. CASE OnWriteOperation
    <3>1. /\ UNCHANGED <<softClosed, hasProtocol, receivedFirst, tail, outputBuffer>>
          /\ writeTimer' = FALSE
          /\ \/ sealing' = TRUE /\ UNCHANGED <<socketOpen, readTimer>>
             \/ /\ socketOpen' = ~Closed /\ readTimer' = (readTimer /\ ~Closed)
                /\ sealing' = sealing
      BY <2>1 DEF OnWriteOperation
    <3>2. socketOpen' \in BOOLEAN
      BY <3>1, Zenon DEF ConnFlags
    <3>3. readTimer' \in BOOLEAN
      BY <3>1, Zenon DEF ConnFlags
    <3>4. QED
      BY <3>1, <3>2, <3>3, Zenon DEF ConnFlags
  <2>2. CASE ReadFails \/ ReadClosed \/ ReadIdentification \/ ReadHeader
    BY <2>2 DEF ConnFlags, ReadFails, ReadClosed, ReadIdentification, ReadHeader, GiveUp, Close,
       ReadOn
  <2>3. CASE ReadFirstPacket \/ ReadPacket \/ ParsePacketEnd
    BY <2>3 DEF ConnFlags, ReadFirstPacket, ReadPacket, ParsePacketEnd, NotClosing, GiveUp,
       Close, ReadOn, HandOver
  <2>4. CASE InternalWorker \/ InternalSend
    BY <2>4 DEF ConnFlags, InternalWorker, InternalSend, NotClosing
  <2>5. CASE OnWriteError \/ ReadTimeout \/ WriteTimeout \/ Destroy
    BY <2>5 DEF ConnFlags, OnWriteError, ReadTimeout, WriteTimeout, Destroy, Close, handlerVars
  <2>6. QED
    BY <1>2, <2>1, <2>2, <2>3, <2>4, <2>5 DEF NetworkThread
<1>3. CASE DispatcherThread \/ PeerChanges
  BY <1>3 DEF ConnFlags, DispatcherThread, Send, WriteToOutputBuffer, SendAll, Disconnect,
     ParseEvent, ResumeWork, ReleaseEvent, PeerChanges, NotClosing, Close, handlerVars
<1>4. QED
  BY <1>1, <1>2, <1>3 DEF ConnectionNext

\* Every step keeps the buffer with its one owner.
LEMMA MsgNext ==
  ASSUME MsgIsOwned, ConnStates, [ConnectionNext]_connVars
  PROVE  MsgIsOwned'
<1>1. CASE UNCHANGED connVars
  BY <1>1 DEF MsgIsOwned, connVars, handlerVars
<1>2. CASE NetworkThread
  BY <1>2 DEF MsgIsOwned, NetworkThread, ReadFails, ReadClosed, ReadIdentification,
     ReadHeader, ReadFirstPacket, ReadPacket, ParsePacketEnd, InternalWorker, InternalSend,
     OnWriteOperation, OnWriteError, ReadTimeout, WriteTimeout, Destroy, NotClosing, GiveUp,
     ReadOn, HandOver, handlerVars, BytesArrive
<1>3. CASE DispatcherThread \/ PeerChanges
  BY <1>3 DEF MsgIsOwned, DispatcherThread, Send, WriteToOutputBuffer, SendAll, Disconnect,
     ParseEvent, ResumeWork, ReleaseEvent, PeerChanges, handlerVars
<1>4. QED
  BY <1>1, <1>2, <1>3 DEF ConnectionNext

\* Every step of an open connection leaves its timers armed.
LEMMA WatchedNext ==
  ASSUME Watched, QueueInv, [ConnectionNext]_connVars
  PROVE  Watched'
<1>0. writing = 0 \/ writing = 1
  BY DEF QueueInv, QueueTypes
<1>1. CASE UNCHANGED connVars
  BY <1>1 DEF Watched, connVars, handlerVars, Closed
<1>2. CASE NetworkThread
  <2>1. CASE OnWriteOperation
    <3>1. writing' = writing - 1 /\ writing > 0 /\ UNCHANGED <<tail, connectionState>>
      BY <2>1 DEF OnWriteOperation
    <3>2. writing' = 0
      BY <1>0, <3>1
    <3>3. ~Closed /\ readTimer => readTimer'
      BY <2>1, Zenon DEF OnWriteOperation
    <3>4. QED
      BY <3>1, <3>2, <3>3 DEF Watched, Closed
  <2>2. CASE ReadFails \/ ReadClosed \/ ReadIdentification \/ ReadHeader
    BY <2>2 DEF Watched, ReadFails, ReadClosed, ReadIdentification, ReadHeader, GiveUp,
       Close, ReadOn, BytesArrive, Closed
  <2>3. CASE ReadFirstPacket \/ ReadPacket \/ ParsePacketEnd
    BY <2>3 DEF Watched, ReadFirstPacket, ReadPacket, ParsePacketEnd, NotClosing, GiveUp,
       Close, ReadOn, HandOver, BytesArrive, Closed
  <2>4. CASE InternalWorker \/ InternalSend
    BY <2>4 DEF Watched, InternalWorker, InternalSend, NotClosing, Closed
  <2>5. CASE OnWriteError \/ ReadTimeout \/ WriteTimeout \/ Destroy
    BY <2>5 DEF Watched, OnWriteError, ReadTimeout, WriteTimeout, Destroy, Close, Closed
  <2>6. QED
    BY <1>2, <2>1, <2>2, <2>3, <2>4, <2>5 DEF NetworkThread
<1>3. CASE DispatcherThread \/ PeerChanges
  BY <1>3 DEF Watched, DispatcherThread, Send, WriteToOutputBuffer, SendAll, Disconnect,
     ParseEvent, ResumeWork, ReleaseEvent, PeerChanges, NotClosing, Close, handlerVars, Closed
<1>4. QED
  BY <1>1, <1>2, <1>3 DEF ConnectionNext

\* A closed connection with a protocol keeps a release event owed.
LEMMA ReleaseNext ==
  ASSUME ReleaseIsOwed, ConnFlags, [ConnectionNext]_connVars
  PROVE  ReleaseIsOwed'
<1>1. CASE UNCHANGED connVars
  BY <1>1 DEF ReleaseIsOwed, connVars, Closed
<1>2. CASE NetworkThread
  BY <1>2 DEF ReleaseIsOwed, NetworkThread, ReadFails, ReadClosed, ReadIdentification,
     ReadHeader, ReadFirstPacket, ReadPacket, ParsePacketEnd, InternalWorker, InternalSend,
     OnWriteOperation, OnWriteError, ReadTimeout, WriteTimeout, Destroy, NotClosing, GiveUp,
     Close, ReadOn, HandOver, BytesArrive, Closed
<1>3. CASE DispatcherThread \/ PeerChanges
  BY <1>3 DEF ReleaseIsOwed, DispatcherThread, Send, WriteToOutputBuffer, SendAll, Disconnect,
     ParseEvent, ResumeWork, ReleaseEvent, PeerChanges, NotClosing, Close, Closed
<1>4. QED
  BY <1>1, <1>2, <1>3 DEF ConnectionNext

\* The accepted connection is safe.
LEMMA ConnectionInitInv ==
  ASSUME ConnectionInit
  PROVE  ConnectionInv
<1>1. QueueInv
  <2>1. /\ messageQueue = <<>> /\ sealed = <<>> /\ wire = <<>> /\ queued = 0
        /\ posted = 0 /\ writing = 0 /\ ~sealing
    BY DEF ConnectionInit
  <2>2. Len(<<>>) = 0 /\ <<>> \in Seq(Nat) /\ DOMAIN <<>> = {}
    OBVIOUS
  <2>3. QED
    BY <2>1, <2>2 DEF QueueInv, QueueTypes
<1>2. ConnFlags
  BY ConnectionAssumption DEF ConnectionInit, ConnFlags
<1>3. ConnStates
  BY DEF ConnectionInit, ConnStates
<1>4. MsgIsOwned /\ Watched /\ ReleaseIsOwed
  BY DEF ConnectionInit, MsgIsOwned, Watched, ReleaseIsOwed, Closed
<1>5. QED
  BY <1>1, <1>2, <1>3, <1>4 DEF ConnectionInv

\* The inductive invariant implies what the run checks.
LEMMA ConnectionInvSafe ==
  ASSUME ConnectionInv
  PROVE  ConnectionIsSafe
<1>1. posted + writing + (IF sealing THEN 1 ELSE 0) \in 0..1
  BY DEF ConnectionInv, QueueInv, QueueTypes
<1>2. {socketOpen, hasProtocol, receivedFirst, sealing, tail, readTimer, writeTimer,
       outputBuffer, softClosed} \subseteq BOOLEAN
  BY Zenon DEF ConnectionInv, ConnFlags
<1>3. ConnTypeOK
  BY <1>1, <1>2, Zenon DEF ConnTypeOK, ConnectionInv, ConnStates
<1>4. WrittenInOrder
  BY DEF WrittenInOrder, ConnectionInv, QueueInv, QueueTypes
<1>5. OpenIsWatched
  BY DEF OpenIsWatched, ConnectionInv, Watched
<1>6. QED
  BY <1>3, <1>4, <1>5 DEF ConnectionIsSafe, ConnectionInv

\* Connection: in every behaviour, with any limits on messages and packets, messages
\* are sealed and written once and in the order they were queued, one handler at a
\* time owns the buffer, an open connection is watched by its timers, and a closed
\* one releases its protocol.
THEOREM ConnectionSafe == ConnectionSpec => []ConnectionIsSafe
<1>1. ConnectionInv /\ [ConnectionNext]_connVars => ConnectionInv'
  BY QueueNext, FlagsNext, StatesNext, MsgNext, WatchedNext, ReleaseNext DEF ConnectionInv
<1>2. QED
  BY <1>1, ConnectionInitInv, ConnectionInvSafe, PTL DEF ConnectionSpec

-----------------------------------------------------------------------------
(***************************************************************************)
(* The waiting list: erasing entries keeps the order of the others, so the *)
(* slot of a guest counts everybody ahead of him.                          *)
(***************************************************************************)

\* RemainingLeaves for the lists of guests.
LEMMA RemainingList ==
  ASSUME NEW S, NEW list \in Seq(S), IsInjective(list), NEW gone
  PROVE  LET w == Remaining(list, gone)
         IN  /\ w \in Seq(S)
             /\ Len(w) <= Len(list)
             /\ IsInjective(w)
             /\ ToSet(w) = ToSet(list) \ gone
             /\ \A a, b \in DOMAIN w, i, j \in DOMAIN list :
                  w[a] = list[i] /\ w[b] = list[j] /\ i < j => a < b
BY RemainingLeaves DEF ToSet, Range

-----------------------------------------------------------------------------

\* The lists hold different guests, and r are the guests in them.
Listed(p, w, r) ==
  /\ p \in Seq(Guests) /\ w \in Seq(Guests)
  /\ IsInjective(p) /\ IsInjective(w)
  /\ ToSet(p) \cap ToSet(w) = {}
  /\ r = ToSet(p) \cup ToSet(w)

\* The slots that a guest can be told.
Slots == 0..(2 * Cardinality(Guests) + MaxSkew)

\* The inductive invariant of the waiting list.
WaitInv ==
  /\ Listed(priorityWaitList, waitList, references)
  /\ lapsed \subseteq Guests /\ premium \subseteq Guests /\ online \subseteq Guests
  /\ skew \in 0..MaxSkew
  /\ stuck \in BOOLEAN
  /\ answer \in [who : Guests \cup {Nobody}, slot : Slots]

\* Erasing the same guests from both lists and from the references keeps them in
\* agreement.
LEMMA ErasedListed ==
  ASSUME NEW p, NEW w, NEW r, Listed(p, w, r), NEW gone
  PROVE  Listed(Remaining(p, gone), Remaining(w, gone), r \ gone)
<1>1. /\ p \in Seq(Guests) /\ w \in Seq(Guests) /\ IsInjective(p) /\ IsInjective(w)
      /\ ToSet(p) \cap ToSet(w) = {} /\ r = ToSet(p) \cup ToSet(w)
  BY DEF Listed
<1>2. /\ Remaining(p, gone) \in Seq(Guests) /\ IsInjective(Remaining(p, gone))
      /\ ToSet(Remaining(p, gone)) = ToSet(p) \ gone
  BY <1>1, RemainingList
<1>3. /\ Remaining(w, gone) \in Seq(Guests) /\ IsInjective(Remaining(w, gone))
      /\ ToSet(Remaining(w, gone)) = ToSet(w) \ gone
  BY <1>1, RemainingList
<1>4. QED
  BY <1>1, <1>2, <1>3 DEF Listed

\* A new entry at the end of a list.
LEMMA AppendedSet ==
  ASSUME NEW S, NEW s \in Seq(S), NEW e \in S, IsInjective(s), e \notin ToSet(s)
  PROVE  Append(s, e) \in Seq(S) /\ IsInjective(Append(s, e)) /\ ToSet(Append(s, e)) = ToSet(s) \cup {e}
<1> DEFINE t == Append(s, e)
<1>1. /\ t \in Seq(S) /\ Len(t) = Len(s) + 1 /\ Len(s) \in Nat
      /\ DOMAIN t = 1..(Len(s) + 1) /\ DOMAIN s = 1..Len(s)
      /\ \A i \in 1..Len(s) : t[i] = s[i]
      /\ t[Len(s) + 1] = e
  OBVIOUS
<1> HIDE DEF t
<1>2. DOMAIN t = DOMAIN s \cup {Len(s) + 1} /\ Len(s) + 1 \notin DOMAIN s
  BY <1>1
<1>3. \A i \in DOMAIN s : s[i] # e
  BY DEF ToSet
<1>4. IsInjective(t)
  BY <1>1, <1>2, <1>3 DEF IsInjective
<1>5. ToSet(t) = ToSet(s) \cup {e}
  BY <1>1, <1>2 DEF ToSet
<1>6. QED
  BY <1>1, <1>4, <1>5 DEF t

\* addPlayerToList() appends a guest without a reference to one of the lists.
LEMMA AppendedListed ==
  ASSUME NEW p, NEW w, NEW r, Listed(p, w, r), NEW g \in Guests, g \notin r
  PROVE  /\ Listed(Append(p, g), w, r \cup {g})
         /\ Listed(p, Append(w, g), r \cup {g})
<1>1. /\ p \in Seq(Guests) /\ w \in Seq(Guests) /\ IsInjective(p) /\ IsInjective(w)
      /\ ToSet(p) \cap ToSet(w) = {} /\ r = ToSet(p) \cup ToSet(w)
      /\ g \notin ToSet(p) /\ g \notin ToSet(w)
  BY DEF Listed
<1>2. /\ Append(p, g) \in Seq(Guests) /\ IsInjective(Append(p, g))
      /\ ToSet(Append(p, g)) = ToSet(p) \cup {g}
  BY <1>1, AppendedSet
<1>3. /\ Append(w, g) \in Seq(Guests) /\ IsInjective(Append(w, g))
      /\ ToSet(Append(w, g)) = ToSet(w) \cup {g}
  BY <1>1, AppendedSet
<1>4. Listed(Append(p, g), w, r \cup {g})
  BY <1>1, <1>2 DEF Listed
<1>5. Listed(p, Append(w, g), r \cup {g})
  BY <1>1, <1>3 DEF Listed
<1>6. QED
  BY <1>4, <1>5

\* A list of different guests is as long as there are guests in it.
LEMMA ListSize ==
  ASSUME NEW S, NEW s \in Seq(S), IsInjective(s)
  PROVE  /\ IsFiniteSet(ToSet(s)) /\ Cardinality(ToSet(s)) = Len(s)
         /\ ToSet(s) \subseteq S
<1>1. ToSet(s) = Range(s)
  BY DEF ToSet, Range
<1>2. \A i \in DOMAIN s : s[i] \in S
  OBVIOUS
<1>3. ToSet(s) \subseteq S
  BY <1>2 DEF ToSet
<1>4. QED
  BY <1>1, <1>3, InjectiveCardinality

\* As many references as entries, and no more than there are guests.
LEMMA ListedSize ==
  ASSUME NEW p, NEW w, NEW r, Listed(p, w, r)
  PROVE  /\ IsFiniteSet(r) /\ r \subseteq Guests
         /\ Cardinality(r) = Len(p) + Len(w)
         /\ Len(p) \in Nat /\ Len(w) \in Nat /\ Cardinality(Guests) \in Nat
         /\ Len(p) + Len(w) <= Cardinality(Guests)
<1>1. /\ p \in Seq(Guests) /\ w \in Seq(Guests) /\ IsInjective(p) /\ IsInjective(w)
      /\ ToSet(p) \cap ToSet(w) = {} /\ r = ToSet(p) \cup ToSet(w)
  BY DEF Listed
<1>2. /\ IsFiniteSet(ToSet(p)) /\ Cardinality(ToSet(p)) = Len(p) /\ ToSet(p) \subseteq Guests
      /\ IsFiniteSet(ToSet(w)) /\ Cardinality(ToSet(w)) = Len(w) /\ ToSet(w) \subseteq Guests
  BY <1>1, ListSize
<1>3. Len(p) \in Nat /\ Len(w) \in Nat
  BY <1>1
<1>4. /\ IsFiniteSet(r)
      /\ Cardinality(r) = Cardinality(ToSet(p)) + Cardinality(ToSet(w)) - Cardinality(ToSet(p) \cap ToSet(w))
  BY <1>1, <1>2, FS_Union
<1>5. Cardinality(ToSet(p) \cap ToSet(w)) = 0
  BY <1>1, FS_EmptySet
<1>6. IsFiniteSet(Guests) /\ Cardinality(Guests) \in Nat
  BY WaitingListAssumption, FS_CardinalityType
<1>7. Cardinality(r) <= Cardinality(Guests)
  BY <1>1, <1>2, <1>6, FS_Subset
<1>8. QED
  BY <1>1, <1>2, <1>3, <1>4, <1>5, <1>6, <1>7

\* The place of an entry of a list of different guests.
LEMMA IndexUnique ==
  ASSUME NEW s, IsInjective(s), NEW i \in DOMAIN s
  PROVE  IndexOf(s[i], s) = i
BY DEF IndexOf, IsInjective

\* Who is in a list has a place in it.
LEMMA IndexFound ==
  ASSUME NEW s, NEW g \in ToSet(s)
  PROVE  IndexOf(g, s) \in DOMAIN s /\ s[IndexOf(g, s)] = g
BY DEF IndexOf, ToSet

\* The queue is one list after the other: the places of those in the second follow
\* those in the first.
LEMMA Chained ==
  ASSUME NEW p, NEW w, NEW r, Listed(p, w, r)
  PROVE  /\ p \o w \in Seq(Guests) /\ Len(p \o w) = Len(p) + Len(w)
         /\ DOMAIN (p \o w) = 1..(Len(p) + Len(w))
         /\ DOMAIN p = 1..Len(p) /\ DOMAIN w = 1..Len(w)
         /\ Len(p) \in Nat /\ Len(w) \in Nat
         /\ IsInjective(p \o w)
         /\ ToSet(p \o w) = r
         /\ \A i \in DOMAIN p : (p \o w)[i] = p[i]
         /\ \A i \in DOMAIN w : (p \o w)[Len(p) + i] = w[i]
         /\ \A i \in DOMAIN p : IndexOf(p[i], p \o w) = i
         /\ \A i \in DOMAIN w : IndexOf(w[i], p \o w) = Len(p) + i
<1> DEFINE t == p \o w
<1>1. /\ p \in Seq(Guests) /\ w \in Seq(Guests) /\ IsInjective(p) /\ IsInjective(w)
      /\ ToSet(p) \cap ToSet(w) = {} /\ r = ToSet(p) \cup ToSet(w)
  BY DEF Listed
<1>2. /\ t \in Seq(Guests) /\ Len(t) = Len(p) + Len(w)
      /\ DOMAIN t = 1..(Len(p) + Len(w))
      /\ DOMAIN p = 1..Len(p) /\ DOMAIN w = 1..Len(w)
      /\ Len(p) \in Nat /\ Len(w) \in Nat
      /\ \A i \in 1..(Len(p) + Len(w)) : t[i] = IF i <= Len(p) THEN p[i] ELSE w[i - Len(p)]
  BY <1>1
<1> HIDE DEF t
<1>3. \A i \in DOMAIN p : i \in DOMAIN t /\ t[i] = p[i]
  BY <1>2
<1>4. ASSUME NEW i \in DOMAIN w PROVE Len(p) + i \in DOMAIN t /\ t[Len(p) + i] = w[i]
  <2>1. Len(p) + i \in 1..(Len(p) + Len(w)) /\ ~(Len(p) + i <= Len(p)) /\ Len(p) + i - Len(p) = i
    BY <1>2
  <2>2. QED
    BY <1>2, <2>1
<1>5. \A i \in DOMAIN t : i \in DOMAIN p \/ \E j \in DOMAIN w : i = Len(p) + j
  <2>1. ASSUME NEW i \in DOMAIN t, i \notin DOMAIN p PROVE i - Len(p) \in DOMAIN w /\ i = Len(p) + (i - Len(p))
    BY <1>2, <2>1
  <2>2. QED
    BY <2>1
<1>11. \A i \in DOMAIN p, j \in DOMAIN w : p[i] # w[j]
  <2>1. (\A i \in DOMAIN p : p[i] \in ToSet(p)) /\ (\A j \in DOMAIN w : w[j] \in ToSet(w))
    BY DEF ToSet
  <2>2. QED
    BY <2>1, <1>1
<1>6. IsInjective(t)
  <2>1. ASSUME NEW i \in DOMAIN t, NEW j \in DOMAIN t, t[i] = t[j] PROVE i = j
    <3>1. CASE i \in DOMAIN p /\ j \in DOMAIN p
      BY <3>1, <1>1, <1>3, <2>1 DEF IsInjective
    <3>2. CASE i \in DOMAIN p /\ j \notin DOMAIN p
      BY <3>2, <1>3, <1>4, <1>5, <1>11, <2>1
    <3>3. CASE i \notin DOMAIN p /\ j \in DOMAIN p
      BY <3>3, <1>3, <1>4, <1>5, <1>11, <2>1
    <3>4. CASE i \notin DOMAIN p /\ j \notin DOMAIN p
      BY <3>4, <1>1, <1>4, <1>5, <2>1 DEF IsInjective
    <3>5. QED
      BY <3>1, <3>2, <3>3, <3>4
  <2>2. QED
    BY <2>1 DEF IsInjective
<1>7. ToSet(t) = r
  <2>1. ToSet(t) \subseteq r
    BY <1>1, <1>3, <1>4, <1>5 DEF ToSet
  <2>2. ToSet(p) \subseteq ToSet(t)
    BY <1>3 DEF ToSet
  <2>3. ToSet(w) \subseteq ToSet(t)
    BY <1>4 DEF ToSet
  <2>4. QED
    BY <2>1, <2>2, <2>3, <1>1
<1>8. \A i \in DOMAIN p : IndexOf(p[i], t) = i
  BY <1>3, <1>6, IndexUnique
<1>9. \A i \in DOMAIN w : IndexOf(w[i], t) = Len(p) + i
  BY <1>4, <1>6, IndexUnique
<1>10. QED
  BY <1>2, <1>3, <1>4, <1>6, <1>7, <1>8, <1>9 DEF t

\* At most k - 1 guests are before the k-th place.
LEMMA PrefixSize ==
  ASSUME NEW s, NEW k \in Nat \ {0}
  PROVE  LET X == {s[a] : a \in 1..(k - 1)}
         IN  IsFiniteSet(X) /\ Cardinality(X) <= k - 1
<1>1. IsFiniteSet(1..(k - 1)) /\ Cardinality(1..(k - 1)) = k - 1
  BY FS_Interval
<1> DEFINE f == [a \in 1..(k - 1) |-> s[a]]
           X == {s[a] : a \in 1..(k - 1)}
<1>2. f \in Surjection(1..(k - 1), X)
  BY DEF Surjection
<1> HIDE DEF f, X
<1>3. IsFiniteSet(X) /\ Cardinality(X) <= Cardinality(1..(k - 1))
  BY <1>1, <1>2, FS_Surjection
<1>4. QED
  BY <1>1, <1>3 DEF X

-----------------------------------------------------------------------------

\* The guest g is in the lists p and w, and the slot s counts everybody ahead of him.
Fits(g, p, w, r, s) ==
  /\ Listed(p, w, r) /\ g \in r
  /\ s \in Slots
  /\ skew = 0 => s = IndexOf(g, p \o w)
  /\ IsFiniteSet(AheadOf(g)) /\ Cardinality(AheadOf(g)) < s

\* cleanupList() leaves the lists and the references in agreement.
LEMMA Cleaned ==
  ASSUME WaitInv
  PROVE  /\ Listed(Fresh(priorityWaitList), Fresh(waitList), CleanedReferences)
         /\ CleanedReferences = references \ lapsed
<1>1. Listed(priorityWaitList, waitList, references)
  BY DEF WaitInv
<1>2. CleanedReferences = references \ lapsed
  BY <1>1 DEF Listed, CleanedReferences
<1>3. QED
  BY <1>1, <1>2, ErasedListed DEF Fresh

\* A part of a small set is small.
LEMMA SmallSubset ==
  ASSUME NEW X, NEW Y, X \subseteq Y, IsFiniteSet(Y), NEW n \in Nat, Cardinality(Y) <= n
  PROVE  IsFiniteSet(X) /\ Cardinality(X) <= n
<1>1. IsFiniteSet(X) /\ Cardinality(X) <= Cardinality(Y)
  BY FS_Subset
<1>2. Cardinality(X) \in Nat /\ Cardinality(Y) \in Nat
  BY <1>1, FS_CardinalityType
<1>3. QED
  BY <1>1, <1>2

\* Two small sets together.
LEMMA SmallUnion ==
  ASSUME NEW X, NEW Y, IsFiniteSet(X), IsFiniteSet(Y), NEW m \in Nat, NEW n \in Nat,
         Cardinality(X) <= m, Cardinality(Y) <= n
  PROVE  IsFiniteSet(X \cup Y) /\ Cardinality(X \cup Y) <= m + n
<1>1. /\ IsFiniteSet(X \cup Y)
      /\ Cardinality(X \cup Y) = Cardinality(X) + Cardinality(Y) - Cardinality(X \cap Y)
  BY FS_Union
<1>2. IsFiniteSet(X \cap Y)
  BY FS_Intersection
<1>3. Cardinality(X) \in Nat /\ Cardinality(Y) \in Nat /\ Cardinality(X \cap Y) \in Nat
  BY <1>2, FS_CardinalityType
<1>4. QED
  BY <1>1, <1>3

\* Who is ahead of a guest who waits has an earlier place and is not overdue.
LEMMA AheadOld ==
  ASSUME WaitInv, NEW g \in references \ lapsed
  PROVE  \A x \in AheadOf(g) : \E i \in DOMAIN Waiting :
           i < IndexOf(g, Waiting) /\ x = Waiting[i] /\ x \notin lapsed
<1>1. Waiting \in Seq(Guests) /\ ToSet(Waiting) = references /\ Len(Waiting) \in Nat /\ DOMAIN Waiting = 1..Len(Waiting)
  BY Chained DEF WaitInv, Waiting
<1>2. IndexOf(g, Waiting) \in 1..Len(Waiting)
  BY <1>1, IndexFound
<1> DEFINE k == IndexOf(g, Waiting)
           t == SubSeq(Waiting, 1, k - 1)
<1>3. AheadOf(g) = ToSet(t) \ (lapsed \cup {g})
  BY DEF AheadOf
<1> HIDE DEF k
<1>4. DOMAIN t = 1..(k - 1) /\ \A i \in 1..(k - 1) : t[i] = Waiting[i] /\ i \in 1..Len(Waiting) /\ i < k
  BY <1>1, <1>2 DEF k
<1> HIDE DEF t
<1>5. QED
  BY <1>1, <1>3, <1>4 DEF ToSet, k

\* The slot of a premium guest who comes back is his place in priorityWaitList,
\* and everybody ahead of him is before it.
LEMMA FitsPremium ==
  ASSUME WaitInv, NEW g \in references \ lapsed, g \in premium,
         g \in ToSet(Fresh(priorityWaitList))
  PROVE  Fits(g, Fresh(priorityWaitList), Fresh(waitList), CleanedReferences,
              Slot(g, Fresh(priorityWaitList), Fresh(waitList)))
<1> DEFINE p == Fresh(priorityWaitList)
           w == Fresh(waitList)
           r == CleanedReferences
           k == IndexOf(g, p)
<1>1. Listed(p, w, r) /\ r = references \ lapsed
  BY Cleaned
<1>2. Slot(g, p, w) = k
  BY DEF Slot
<1>3. Listed(priorityWaitList, waitList, references)
  BY DEF WaitInv
<1>4. /\ priorityWaitList \in Seq(Guests) /\ IsInjective(priorityWaitList)
      /\ ToSet(p) = ToSet(priorityWaitList) \ lapsed
      /\ \A a, b \in DOMAIN p, i, j \in DOMAIN priorityWaitList :
           p[a] = priorityWaitList[i] /\ p[b] = priorityWaitList[j] /\ i < j => a < b
  BY <1>3, RemainingList DEF Listed, Fresh
<1> HIDE DEF p, w, r
<1>5. k \in DOMAIN p /\ p[k] = g
  BY IndexFound DEF p
<1>6. DOMAIN p = 1..Len(p) /\ Len(p) \in Nat /\ IndexOf(p[k], p \o w) = k
  BY <1>1, <1>5, Chained
<1>7. k \in 1..Len(p) /\ k \in Nat \ {0}
  BY <1>5, <1>6
<1>8. Len(p) <= Cardinality(Guests) /\ Cardinality(Guests) \in Nat /\ MaxSkew \in Nat
  <2>1. Len(p) + Len(w) <= Cardinality(Guests) /\ Cardinality(Guests) \in Nat /\ Len(w) \in Nat
    BY <1>1, ListedSize
  <2>2. QED
    BY <2>1, <1>6, WaitingListAssumption
<1>9. k \in Slots
  BY <1>7, <1>8 DEF Slots
<1>10. PICK j \in DOMAIN priorityWaitList : priorityWaitList[j] = g
  <2>1. g \in ToSet(priorityWaitList)
    BY <1>4 DEF p
  <2>2. QED
    BY <2>1 DEF ToSet
<1>11. IndexOf(g, Waiting) = j
  BY <1>3, <1>10, Chained DEF Waiting
<1>12. ASSUME NEW x \in AheadOf(g) PROVE \E a \in 1..(k - 1) : x = p[a]
  <2>1. PICK i \in DOMAIN Waiting : i < j /\ x = Waiting[i] /\ x \notin lapsed
    BY <1>11, AheadOld
  <2>2. i \in DOMAIN priorityWaitList /\ x = priorityWaitList[i]
    <3>1. /\ DOMAIN Waiting = 1..(Len(priorityWaitList) + Len(waitList))
          /\ DOMAIN priorityWaitList = 1..Len(priorityWaitList)
          /\ Len(priorityWaitList) \in Nat /\ Len(waitList) \in Nat
          /\ \A n \in DOMAIN priorityWaitList : Waiting[n] = priorityWaitList[n]
      BY <1>3, Chained DEF Waiting
    <3>2. QED
      BY <3>1, <2>1, <1>10
  <2>3. x \in ToSet(p)
    BY <2>1, <2>2, <1>4 DEF ToSet
  <2>4. PICK a \in DOMAIN p : p[a] = x
    BY <2>3 DEF ToSet
  <2>5. a < k
    BY <2>4, <2>2, <2>1, <1>5, <1>10, <1>4
  <2>6. QED
    BY <2>4, <2>5, <1>6, <1>7
<1>13. IsFiniteSet(AheadOf(g)) /\ Cardinality(AheadOf(g)) <= k - 1
  <2> HIDE DEF k
  <2> DEFINE X == {p[a] : a \in 1..(k - 1)}
  <2>1. IsFiniteSet(X) /\ Cardinality(X) <= k - 1
    BY <1>7, PrefixSize
  <2>2. AheadOf(g) \subseteq X /\ k - 1 \in Nat
    BY <1>12, <1>7
  <2> HIDE DEF X
  <2>3. QED
    BY <2>1, <2>2, SmallSubset
<1>14. Cardinality(AheadOf(g)) < k
  BY <1>13, <1>7, FS_CardinalityType
<1>15. g \in r
  BY <1>1
<1>16. Fits(g, p, w, r, k)
  BY <1>1, <1>5, <1>6, <1>9, <1>13, <1>14, <1>15 DEF Fits
<1>17. QED
  BY <1>16, <1>2 DEF p, w, r

\* The slot of another guest who comes back counts priorityWaitList and those before
\* him in waitList; a size that is too large only makes it larger.
LEMMA FitsOrdinary ==
  ASSUME WaitInv, NEW g \in references \ lapsed, g \notin premium,
         g \in ToSet(Fresh(waitList))
  PROVE  Fits(g, Fresh(priorityWaitList), Fresh(waitList), CleanedReferences,
              Slot(g, Fresh(priorityWaitList), Fresh(waitList)))
<1> DEFINE p == Fresh(priorityWaitList)
           w == Fresh(waitList)
           r == CleanedReferences
           k == IndexOf(g, w)
<1>1. Listed(p, w, r) /\ r = references \ lapsed
  BY Cleaned
<1>2. Slot(g, p, w) = Len(p) + skew + k
  BY DEF Slot, SizeOfPriority
<1>3. Listed(priorityWaitList, waitList, references)
  BY DEF WaitInv
<1>4. /\ waitList \in Seq(Guests) /\ IsInjective(waitList)
      /\ ToSet(w) = ToSet(waitList) \ lapsed
      /\ \A a, b \in DOMAIN w, i, j \in DOMAIN waitList :
           w[a] = waitList[i] /\ w[b] = waitList[j] /\ i < j => a < b
  BY <1>3, RemainingList DEF Listed, Fresh
<1>20. ToSet(p) = ToSet(priorityWaitList) \ lapsed
  BY <1>3, RemainingList DEF Listed, Fresh
<1> HIDE DEF p, w, r
<1>5. k \in DOMAIN w /\ w[k] = g
  BY IndexFound DEF w
<1>6. /\ DOMAIN w = 1..Len(w) /\ Len(w) \in Nat /\ Len(p) \in Nat
      /\ IndexOf(w[k], p \o w) = Len(p) + k
  BY <1>1, <1>5, Chained
<1>7. k \in 1..Len(w) /\ k \in Nat \ {0}
  BY <1>5, <1>6
<1>8. Len(p) + Len(w) <= Cardinality(Guests) /\ Cardinality(Guests) \in Nat /\ MaxSkew \in Nat
  BY <1>1, ListedSize, WaitingListAssumption
<1>21. skew \in Nat /\ skew <= MaxSkew
  BY <1>8 DEF WaitInv
<1>9. Len(p) + skew + k \in Slots
  BY <1>6, <1>7, <1>8, <1>21 DEF Slots
<1>10. PICK j \in DOMAIN waitList : waitList[j] = g
  <2>1. g \in ToSet(waitList)
    BY <1>4 DEF w
  <2>2. QED
    BY <2>1 DEF ToSet
<1>22. /\ DOMAIN Waiting = 1..(Len(priorityWaitList) + Len(waitList))
       /\ DOMAIN priorityWaitList = 1..Len(priorityWaitList)
       /\ DOMAIN waitList = 1..Len(waitList)
       /\ Len(priorityWaitList) \in Nat /\ Len(waitList) \in Nat
       /\ \A n \in DOMAIN priorityWaitList : Waiting[n] = priorityWaitList[n]
       /\ \A n \in DOMAIN waitList : Waiting[Len(priorityWaitList) + n] = waitList[n]
  BY <1>3, Chained DEF Waiting
<1>11. IndexOf(g, Waiting) = Len(priorityWaitList) + j
  BY <1>3, <1>10, Chained DEF Waiting
<1>12. ASSUME NEW x \in AheadOf(g) PROVE x \in ToSet(p) \/ \E a \in 1..(k - 1) : x = w[a]
  <2>1. PICK i \in DOMAIN Waiting : i < Len(priorityWaitList) + j /\ x = Waiting[i] /\ x \notin lapsed
    BY <1>11, AheadOld
  <2>2. CASE i \in DOMAIN priorityWaitList
    BY <2>1, <2>2, <1>22, <1>20 DEF ToSet
  <2>3. CASE i \notin DOMAIN priorityWaitList
    <3> DEFINE n == i - Len(priorityWaitList)
    <3>1. n \in DOMAIN waitList /\ n < j /\ Len(priorityWaitList) + n = i
      BY <2>1, <2>3, <1>22, <1>10
    <3> HIDE DEF n
    <3>2. x = waitList[n]
      BY <3>1, <2>1, <1>22
    <3>3. x \in ToSet(w)
      BY <3>1, <3>2, <2>1, <1>4 DEF ToSet
    <3>4. PICK a \in DOMAIN w : w[a] = x
      BY <3>3 DEF ToSet
    <3>5. a < k
      BY <3>4, <3>2, <3>1, <1>5, <1>10, <1>4
    <3>6. QED
      BY <3>4, <3>5, <1>6, <1>7
  <2>4. QED
    BY <2>2, <2>3
<1>13. IsFiniteSet(AheadOf(g)) /\ Cardinality(AheadOf(g)) <= Len(p) + (k - 1)
  <2> HIDE DEF k
  <2> DEFINE X == {w[a] : a \in 1..(k - 1)}
  <2>1. IsFiniteSet(X) /\ Cardinality(X) <= k - 1 /\ k - 1 \in Nat
    BY <1>7, PrefixSize
  <2>2. AheadOf(g) \subseteq ToSet(p) \cup X
    BY <1>12
  <2> HIDE DEF X
  <2>3. IsFiniteSet(ToSet(p)) /\ Cardinality(ToSet(p)) <= Len(p)
    BY <1>1, <1>6, ListSize DEF Listed
  <2>4. IsFiniteSet(ToSet(p) \cup X) /\ Cardinality(ToSet(p) \cup X) <= Len(p) + (k - 1)
    BY <2>1, <2>3, <1>6, SmallUnion
  <2>5. Len(p) + (k - 1) \in Nat
    BY <2>1, <1>6
  <2>6. QED
    BY <2>2, <2>4, <2>5, SmallSubset
<1>14. Cardinality(AheadOf(g)) < Len(p) + skew + k
  BY <1>13, <1>7, <1>6, <1>21, FS_CardinalityType
<1>15. g \in r
  BY <1>1
<1>18. skew = 0 => Len(p) + skew + k = IndexOf(g, p \o w)
  BY <1>5, <1>6, <1>7
<1>16. Fits(g, p, w, r, Len(p) + skew + k)
  BY <1>1, <1>9, <1>13, <1>14, <1>15, <1>18 DEF Fits
<1>17. QED
  BY <1>16, <1>2 DEF p, w, r

\* The slot of a new guest comes from the sizes of the lists, whose errors cancel for
\* a guest who is not premium.
LEMMA FitsNew ==
  ASSUME WaitInv, NEW g \in Guests, g \notin CleanedReferences
  PROVE  LET p == Fresh(priorityWaitList)
             w == Fresh(waitList)
         IN  Fits(g, IF g \in premium THEN Append(p, g) ELSE p,
                     IF g \in premium THEN w ELSE Append(w, g),
                     CleanedReferences \cup {g}, NewSlot(g, p, w))
<1> DEFINE p == Fresh(priorityWaitList)
           w == Fresh(waitList)
           r == CleanedReferences
           P == IF g \in premium THEN Append(p, g) ELSE p
           W == IF g \in premium THEN w ELSE Append(w, g)
           s == NewSlot(g, p, w)
<1>1. Listed(p, w, r) /\ r = references \ lapsed
  BY Cleaned
<1>2. Listed(priorityWaitList, waitList, references)
  BY DEF WaitInv
<1>3. /\ ToSet(p) = ToSet(priorityWaitList) \ lapsed
      /\ ToSet(w) = ToSet(waitList) \ lapsed
  BY <1>2, RemainingList DEF Listed, Fresh
<1>4. s = IF g \in premium THEN Len(p) + skew + 1
          ELSE (Len(p) + skew) + (Len(w) - skew) + 1
  BY DEF NewSlot, SizeOfPriority, SizeOfWaiting
<1>5. g \notin references \ lapsed /\ g \notin r
  BY <1>1
<1> HIDE DEF p, w, r, s
<1>6. Listed(P, W, r \cup {g})
  BY <1>1, <1>5, AppendedListed
<1>7. /\ Len(p) \in Nat /\ Len(w) \in Nat /\ Cardinality(Guests) \in Nat
      /\ Len(p) + Len(w) <= Cardinality(Guests) /\ MaxSkew \in Nat
  BY <1>1, ListedSize, WaitingListAssumption
<1>8. skew \in Nat /\ skew <= MaxSkew
  BY <1>7 DEF WaitInv
<1>9. 1 <= Cardinality(Guests)
  <2>1. IsFiniteSet({g}) /\ Cardinality({g}) = 1
    BY FS_Singleton
  <2>2. Cardinality({g}) <= Cardinality(Guests)
    BY WaitingListAssumption, FS_Subset
  <2>3. QED
    BY <2>1, <2>2
<1>10. s \in Slots
  BY <1>4, <1>7, <1>8, <1>9 DEF Slots
<1>11. /\ IsFiniteSet(ToSet(p)) /\ Cardinality(ToSet(p)) <= Len(p)
       /\ IsFiniteSet(ToSet(w)) /\ Cardinality(ToSet(w)) <= Len(w)
  BY <1>1, <1>7, ListSize DEF Listed
<1>12. IsFiniteSet(AheadOf(g)) /\ Cardinality(AheadOf(g)) < s
  <2>1. CASE g \in premium
    <3>1. AheadOf(g) = ToSet(priorityWaitList) \ (lapsed \cup {g})
      BY <1>5, <2>1 DEF AheadOf
    <3>2. AheadOf(g) \subseteq ToSet(p)
      BY <3>1, <1>3
    <3>3. IsFiniteSet(AheadOf(g)) /\ Cardinality(AheadOf(g)) <= Len(p)
      BY <3>2, <1>11, <1>7, SmallSubset
    <3>4. Cardinality(AheadOf(g)) \in Nat
      BY <3>3, FS_CardinalityType
    <3>5. QED
      BY <3>3, <3>4, <1>4, <1>7, <1>8, <2>1
  <2>2. CASE g \notin premium
    <3>1. AheadOf(g) = ToSet(Waiting) \ (lapsed \cup {g})
      BY <1>5, <2>2 DEF AheadOf
    <3>2. ToSet(Waiting) = references
      BY <1>2, Chained DEF Waiting
    <3>3. AheadOf(g) \subseteq ToSet(p) \cup ToSet(w)
      BY <3>1, <3>2, <1>2, <1>3 DEF Listed
    <3>4. IsFiniteSet(ToSet(p) \cup ToSet(w)) /\ Cardinality(ToSet(p) \cup ToSet(w)) <= Len(p) + Len(w)
      BY <1>11, <1>7, SmallUnion
    <3>5. Len(p) + Len(w) \in Nat
      BY <1>7
    <3>6. IsFiniteSet(AheadOf(g)) /\ Cardinality(AheadOf(g)) <= Len(p) + Len(w)
      BY <3>3, <3>4, <3>5, SmallSubset
    <3>7. Cardinality(AheadOf(g)) \in Nat
      BY <3>6, FS_CardinalityType
    <3>8. QED
      BY <3>6, <3>7, <1>4, <1>7, <1>8, <2>2
  <2>3. QED
    BY <2>1, <2>2
<1>13. skew = 0 => s = IndexOf(g, P \o W)
  <2>1. p \in Seq(Guests) /\ w \in Seq(Guests)
    BY <1>1 DEF Listed
  <2>2. CASE g \in premium
    <3>1. P = Append(p, g) /\ Len(p) + 1 \in DOMAIN P /\ P[Len(p) + 1] = g
      BY <2>2, <2>1
    <3> HIDE DEF P, W
    <3>2. IndexOf(g, P \o W) = Len(p) + 1
      <4>1. \A i \in DOMAIN P : IndexOf(P[i], P \o W) = i
        BY <1>6, Chained
      <4>2. QED
        BY <3>1, <4>1
    <3>3. QED
      BY <3>2, <1>4, <1>7, <2>2
  <2>3. CASE g \notin premium
    <3>1. P = p /\ W = Append(w, g) /\ Len(w) + 1 \in DOMAIN W /\ W[Len(w) + 1] = g
      BY <2>3, <2>1
    <3> HIDE DEF P, W
    <3>2. IndexOf(g, P \o W) = Len(P) + (Len(w) + 1)
      <4>1. \A i \in DOMAIN W : IndexOf(W[i], P \o W) = Len(P) + i
        BY <1>6, Chained
      <4>2. QED
        BY <3>1, <4>1
    <3>3. QED
      BY <3>2, <3>1, <1>4, <1>7, <2>3
  <2>4. QED
    BY <2>2, <2>3
<1>14. Fits(g, P, W, r \cup {g}, s)
  <2> HIDE DEF P, W
  <2>1. QED
    BY <1>6, <1>10, <1>12, <1>13 DEF Fits
<1>15. QED
  BY <1>14 DEF p, w, r, s

\* What PlacesAreKept and SlotIsThePlace ask of one step.
StepIsFair ==
  /\ \A g \in (online' \ online) \ Staff :
       MaxOnline > 0 => Cardinality(online') + Cardinality(AheadOf(g)) <= MaxOnline
  /\ answer' # answer /\ answer'.who # Nobody /\ skew = 0 =>
       answer'.slot = IndexOf(answer'.who, Waiting')

\* A login adds at most the guest himself to the players in the game.
LEMMA OneMore ==
  ASSUME WaitInv, NEW g \in Guests \ online,
         online' \in {online \cup {g}, online}
  PROVE  /\ online' \subseteq Guests
         /\ \A h \in online' \ online : h = g /\ Cardinality(online') = Cardinality(online) + 1
         /\ Cardinality(online) \in Nat
<1>1. online \subseteq Guests /\ IsFiniteSet(online)
  BY WaitingListAssumption, FS_Subset DEF WaitInv
<1>2. Cardinality(online) \in Nat /\ Cardinality(online \cup {g}) = Cardinality(online) + 1
  BY <1>1, FS_AddElement, FS_CardinalityType
<1>3. CASE online' = online
  BY <1>1, <1>2, <1>3
<1>4. CASE online' = online \cup {g}
  <2>1. \A h \in online' \ online : h = g
    BY <1>4
  <2>2. QED
    BY <2>1, <1>1, <1>2, <1>4
<1>5. QED
  BY <1>3, <1>4

\* clientLogin() with a slot that counts everybody ahead lets the guest in only if
\* each of them keeps a place, and refuses him with that slot.
LEMMA QueuedFair ==
  ASSUME WaitInv, NEW g \in Guests \ online, NEW p, NEW w, NEW r, NEW s,
         Fits(g, p, w, r, s), Queued(g, p, w, r, s),
         stuck' = stuck, lapsed' = {}, premium' = premium
  PROVE  WaitInv' /\ StepIsFair
<1>0. MaxSkew \in Nat /\ MaxOnline \in Nat /\ Nobody \notin Guests
  BY WaitingListAssumption
<1>1. /\ Listed(p, w, r) /\ g \in r /\ s \in Slots
      /\ skew = 0 => s = IndexOf(g, p \o w)
      /\ IsFiniteSet(AheadOf(g)) /\ Cardinality(AheadOf(g)) < s
  BY DEF Fits
<1>2. skew \in 0..MaxSkew /\ skew \in Nat
  BY <1>0 DEF WaitInv
<1>3. /\ stuck' \in BOOLEAN /\ lapsed' \subseteq Guests /\ premium' \subseteq Guests
  BY DEF WaitInv
<1>4. Cardinality(Guests) \in Nat /\ 0 \in Slots /\ s \in Nat
  <2>1. Cardinality(Guests) \in Nat
    BY <1>1, ListedSize
  <2>2. QED
    BY <2>1, <1>0, <1>1 DEF Slots
<1>5. CASE /\ Cardinality(online) + s <= MaxOnline
           /\ priorityWaitList' = Remaining(p, {g})
           /\ waitList' = Remaining(w, {g})
           /\ references' = r \ {g}
           /\ skew' = IF g \in premium THEN skew + 1 ELSE skew
           /\ skew' <= MaxSkew
           /\ online' \in {online \cup {g}, online}
           /\ answer' = NoAnswer
  <2>1. Listed(priorityWaitList', waitList', references')
    BY <1>1, <1>5, ErasedListed
  <2>2. skew' \in 0..MaxSkew
    BY <1>2, <1>5, <1>0
  <2>3. /\ online' \subseteq Guests
        /\ \A h \in online' \ online : h = g /\ Cardinality(online') = Cardinality(online) + 1
        /\ Cardinality(online) \in Nat
    BY <1>5, OneMore
  <2>4. answer' \in [who : Guests \cup {Nobody}, slot : Slots] /\ answer'.who = Nobody
    BY <1>5, <1>4 DEF NoAnswer
  <2>5. WaitInv'
    BY <2>1, <2>2, <2>3, <2>4, <1>3 DEF WaitInv, Listed, Slots
  <2>6. ASSUME NEW h \in online' \ online
        PROVE  Cardinality(online') + Cardinality(AheadOf(h)) <= MaxOnline
    <3>1. h = g /\ Cardinality(online') = Cardinality(online) + 1
      BY <2>3
    <3>2. Cardinality(AheadOf(g)) \in Nat
      BY <1>1, FS_CardinalityType
    <3>3. Cardinality(online') + Cardinality(AheadOf(g)) <= MaxOnline
      BY <3>1, <3>2, <2>3, <1>1, <1>4, <1>5, <1>0
    <3>4. QED
      BY <3>1, <3>3
  <2>7. QED
    BY <2>4, <2>5, <2>6 DEF StepIsFair
<1>6. CASE /\ Cardinality(online) + s > MaxOnline
           /\ priorityWaitList' = p /\ waitList' = w /\ references' = r
           /\ answer' = [who |-> g, slot |-> s]
           /\ UNCHANGED <<skew, online>>
  <2>1. answer' \in [who : Guests \cup {Nobody}, slot : Slots]
    BY <1>6, <1>1
  <2>2. WaitInv'
    BY <2>1, <1>1, <1>3, <1>6 DEF WaitInv, Listed, Slots
  <2>3. skew = 0 => answer'.slot = IndexOf(answer'.who, Waiting')
    BY <1>1, <1>6 DEF Waiting
  <2>4. QED
    BY <2>2, <2>3, <1>6 DEF StepIsFair
<1>7. QED
  BY <1>5, <1>6 DEF Queued

\* A login that goes through the queue.
LEMMA QueuedStep ==
  ASSUME WaitInv, NEW g \in Guests, ClientLoginQueued(g)
  PROVE  WaitInv' /\ StepIsFair
<1> DEFINE p == Fresh(priorityWaitList)
           w == Fresh(waitList)
           r == CleanedReferences
<1>1. g \in Guests \ online /\ lapsed' = {} /\ premium' = premium
  BY DEF ClientLoginQueued
<1>2. Listed(p, w, r) /\ r = references \ lapsed
  BY Cleaned
<1>3. CASE g \in r /\ ~WrongList(g, p, w) /\ Queued(g, p, w, r, Slot(g, p, w)) /\ stuck' = stuck
  <2>1. g \in references \ lapsed /\ g \in ToSet(p) \cup ToSet(w)
    BY <1>2, <1>3 DEF Listed
  <2>2. CASE g \in premium
    <3>1. g \in ToSet(p)
      BY <2>1, <2>2, <1>3 DEF WrongList
    <3>2. Fits(g, p, w, r, Slot(g, p, w))
      BY <2>1, <2>2, <3>1, FitsPremium
    <3> HIDE DEF p, w, r
    <3>3. QED
      BY <3>2, <1>1, <1>3, QueuedFair
  <2>3. CASE g \notin premium
    <3>1. g \in ToSet(w)
      BY <2>1, <2>3, <1>3 DEF WrongList
    <3>2. Fits(g, p, w, r, Slot(g, p, w))
      BY <2>1, <2>3, <3>1, FitsOrdinary
    <3> HIDE DEF p, w, r
    <3>3. QED
      BY <3>2, <1>1, <1>3, QueuedFair
  <2>4. QED
    BY <2>2, <2>3
<1>4. CASE /\ stuck' = TRUE
           /\ UNCHANGED <<priorityWaitList, waitList, references, skew, online, answer>>
  BY <1>1, <1>4 DEF WaitInv, StepIsFair, Listed, Slots
<1>5. CASE /\ g \notin r
           /\ Queued(g, IF g \in premium THEN Append(p, g) ELSE p,
                         IF g \in premium THEN w ELSE Append(w, g),
                         r \cup {g}, NewSlot(g, p, w))
           /\ stuck' = stuck
  <2> DEFINE P == IF g \in premium THEN Append(p, g) ELSE p
             W == IF g \in premium THEN w ELSE Append(w, g)
             R == r \cup {g}
             s == NewSlot(g, p, w)
  <2>1. Fits(g, P, W, R, s)
    BY <1>5, FitsNew
  <2>2. Queued(g, P, W, R, s)
    BY <1>5
  <2> HIDE DEF P, W, R, s
  <2>3. QED
    BY <2>1, <2>2, <1>1, <1>5, QueuedFair
<1>6. QED
  BY <1>3, <1>4, <1>5 DEF ClientLoginQueued

\* A login that passes by the queue: a guest without privileges finds it empty.
LEMMA AtOnceStep ==
  ASSUME WaitInv, NEW g \in Guests, ClientLoginAtOnce(g)
  PROVE  WaitInv' /\ StepIsFair
<1>0. MaxSkew \in Nat /\ MaxOnline \in Nat
  BY WaitingListAssumption
<1>1. /\ g \in Guests \ online /\ online' \in {online \cup {g}, online}
      /\ answer' = NoAnswer
      /\ UNCHANGED <<priorityWaitList, waitList, references, lapsed, skew, premium, stuck>>
  BY DEF ClientLoginAtOnce
<1>2. /\ online' \subseteq Guests
      /\ \A h \in online' \ online : h = g /\ Cardinality(online') = Cardinality(online) + 1
      /\ Cardinality(online) \in Nat
  BY <1>1, OneMore
<1>3. Listed(priorityWaitList, waitList, references)
  BY DEF WaitInv
<1>4. Cardinality(Guests) \in Nat
  BY <1>3, ListedSize
<1>5. answer' \in [who : Guests \cup {Nobody}, slot : Slots] /\ answer'.who = Nobody
  BY <1>0, <1>1, <1>4 DEF NoAnswer, Slots
<1>6. WaitInv'
  BY <1>1, <1>2, <1>5 DEF WaitInv, Listed, Slots
<1>7. ASSUME NEW h \in (online' \ online) \ Staff, MaxOnline > 0
      PROVE  Cardinality(online') + Cardinality(AheadOf(h)) <= MaxOnline
  <2>1. h = g /\ Cardinality(online') = Cardinality(online) + 1
    BY <1>2
  <2>2. EmptyLists /\ Cardinality(online) < MaxOnline
    BY <1>7, <2>1, <1>0 DEF ClientLoginAtOnce, CanAlwaysLogin
  <2>3. references = {}
    BY <2>2, <1>3 DEF EmptyLists, Listed, ToSet
  <2>4. ToSet(priorityWaitList) = {} /\ ToSet(Waiting) = {}
    <3>1. ToSet(Waiting) = references
      BY <1>3, Chained DEF Waiting
    <3>2. QED
      BY <3>1, <2>3, <1>3 DEF Listed
  <2>5. AheadOf(h) = {}
    BY <2>3, <2>4 DEF AheadOf
  <2>6. Cardinality(AheadOf(h)) = 0
    BY <2>5, FS_EmptySet
  <2>7. QED
    BY <2>1, <2>2, <2>6, <1>2, <1>0
<1>8. QED
  BY <1>5, <1>6, <1>7 DEF StepIsFair

\* Every step is fair and keeps the invariant of the waiting list.
LEMMA WaitStep ==
  ASSUME WaitInv, [WaitingListNext]_waitVars
  PROVE  WaitInv' /\ StepIsFair
<1>1. CASE UNCHANGED waitVars
  BY <1>1 DEF waitVars, WaitInv, StepIsFair, Listed, Slots
<1>2. ASSUME NEW g \in Guests, Lapse(g) PROVE WaitInv' /\ StepIsFair
  BY <1>2 DEF Lapse, WaitInv, StepIsFair, Listed, Slots
<1>3. ASSUME NEW g \in Guests, LeaveGame(g) PROVE WaitInv' /\ StepIsFair
  BY <1>3 DEF LeaveGame, WaitInv, StepIsFair, Listed, Slots
<1>4. ASSUME NEW g \in Guests, ChangePremium(g) PROVE WaitInv' /\ StepIsFair
  BY <1>4 DEF ChangePremium, WaitInv, StepIsFair, Listed, Slots
<1>5. QED
  BY <1>1, <1>2, <1>3, <1>4, QueuedStep, AtOnceStep DEF WaitingListNext

\* Nobody waits at start.
LEMMA WaitInitInv == WaitingListInit => WaitInv
<1> SUFFICES ASSUME WaitingListInit PROVE WaitInv
  OBVIOUS
<1>1. IsFiniteSet(Guests) /\ Cardinality(Guests) \in Nat /\ MaxSkew \in Nat
  BY WaitingListAssumption, FS_CardinalityType
<1>2. NoAnswer \in [who : Guests \cup {Nobody}, slot : Slots]
  BY <1>1 DEF NoAnswer, Slots
<1>3. Listed(<<>>, <<>>, {})
  BY DEF Listed, ToSet, IsInjective
<1>4. Listed(priorityWaitList, waitList, references)
  BY <1>3 DEF WaitingListInit
<1>5. /\ lapsed \subseteq Guests /\ premium \subseteq Guests /\ online \subseteq Guests
      /\ skew = 0 /\ stuck = FALSE /\ answer = NoAnswer
  BY Zenon DEF WaitingListInit
<1>7. skew \in 0..MaxSkew
  BY <1>1, <1>5
<1>6. QED
  BY <1>2, <1>4, <1>5, <1>7 DEF WaitInv

\* The inductive invariant implies what the run checks.
LEMMA WaitInvTypes == WaitInv => WaitTypeOK
<1> SUFFICES ASSUME WaitInv PROVE WaitTypeOK
  OBVIOUS
<1>1. Listed(priorityWaitList, waitList, references)
  BY DEF WaitInv
<1>2. references = ToSet(Waiting) /\ Len(Waiting) = Len(priorityWaitList) + Len(waitList)
  BY <1>1, Chained DEF Waiting
<1>3. Cardinality(references) = Len(Waiting)
  BY <1>1, <1>2, ListedSize
<1>4. QED
  BY <1>2, <1>3 DEF WaitInv, WaitTypeOK, Slots

\* Waiting list: for any guests, staff and limit of players, the references and the
\* lists of clientLogin() agree, whoever is let in leaves a place for everybody ahead of
\* him, and a refused guest is told his place until a premium guest was let in.
THEOREM QueueStaysFair == WaitingListSpec => QueueIsFair
<1>1. WaitInv /\ [WaitingListNext]_waitVars => WaitInv'
  BY WaitStep
<1>2. WaitInv /\ [WaitingListNext]_waitVars =>
        [\A g \in (online' \ online) \ Staff :
           MaxOnline > 0 => Cardinality(online') + Cardinality(AheadOf(g)) <= MaxOnline]_waitVars
  BY WaitStep DEF StepIsFair
<1>3. WaitInv /\ [WaitingListNext]_waitVars =>
        [answer' # answer /\ answer'.who # Nobody /\ skew = 0 =>
           answer'.slot = IndexOf(answer'.who, Waiting')]_waitVars
  BY WaitStep DEF StepIsFair
<1>4. QED
  BY <1>1, <1>2, <1>3, WaitInitInv, WaitInvTypes, PTL
     DEF WaitingListSpec, QueueIsFair, PlacesAreKept, SlotIsThePlace
=============================================================================
