------------------------------ MODULE Session ------------------------------
(***************************************************************************)
(* Clients that log in to one character: onRecvFirstMessage, login,        *)
(* connect, release and logout of src/server/network/protocol/             *)
(* protocolgame.cpp, with the unique login names of game.cpp and the ping  *)
(* timeout of player.cpp.                                                  *)
(*                                                                         *)
(* A client that logs in to a character in the game takes it over: the old *)
(* client is disconnected and, a second later, connect() attaches the new  *)
(* one.  The network thread runs onRecvFirstMessage and closes lost        *)
(* connections; the rest is events of the dispatcher.  A client here is    *)
(* its ProtocolGame object and its connection.                             *)
(***************************************************************************)
EXTENDS Integers, FiniteSets

CONSTANTS
  Clients,
  MaxPlayers,   \* bound of the model: Player objects of the character
  NoClient,
  ReplaceKick   \* the values REPLACE_KICK_ON_LOGIN takes

ASSUME SessionAssumption ==
  /\ IsFiniteSet(Clients) /\ NoClient \notin Clients
  /\ MaxPlayers \in Nat /\ ReplaceKick \subseteq BOOLEAN

PlayerObjects == 1..MaxPlayers
NoPlayer == 0

VARIABLES
  link,          \* the connection: new, open, closed, or expired (destroyed)
  loginPosted,   \* clients whose login event waits
  eventConnect,  \* clients whose connect event waits
  releasing,     \* clients whose release event waits
  playerOf,      \* ProtocolGame::player
  acceptPackets, \* the clients whose packets are obeyed
  inGame,        \* the Player objects in the game
  created,       \* how many Player objects there have been
  uniqueLogin,   \* m_uniqueLoginPlayerNames[name]
  clientOf,      \* Player::client
  isConnecting,  \* the Player objects with isConnecting
  overlapped,    \* history: a takeover began while another was under way
  abandoned      \* history: a takeover ended because its client had gone

sessionVars == <<link, loginPosted, eventConnect, releasing, playerOf, acceptPackets,
                 inGame, created, uniqueLogin, clientOf, isConnecting, overlapped,
                 abandoned>>

SessionInit ==
  /\ link = [c \in Clients |-> "new"]
  /\ loginPosted = {} /\ eventConnect = {} /\ releasing = {}
  /\ playerOf = [c \in Clients |-> NoPlayer]
  /\ acceptPackets = {}
  /\ inGame = {} /\ created = 0
  /\ uniqueLogin = NoPlayer
  /\ clientOf = [o \in PlayerObjects |-> NoClient]
  /\ isConnecting = {}
  /\ overlapped = FALSE /\ abandoned = FALSE

-----------------------------------------------------------------------------
\* Connection::close of the clients in S.
CloseLinks(S) ==
  /\ link' = [c \in Clients |-> IF c \in S /\ link[c] = "open" THEN "closed" ELSE link[c]]
  /\ releasing' = releasing \cup {c \in S : link[c] = "open"}

StillConnected == UNCHANGED <<link, releasing>>

\* The client of the registered player, if there is one.
Current ==
  IF uniqueLogin = NoPlayer THEN {} ELSE {clientOf[uniqueLogin]} \ {NoClient}

\* onRecvFirstMessage, on the network thread.  The client in the game is kicked
\* before the new one is authenticated; a wrong challenge, ban or password
\* refuses the new one.
OnRecvFirstMessage(c) ==
  /\ link[c] = "new"
  /\ \E state \in {"open", "closed"} :
       LET kicked == {d \in Current : link[d] = "open"}
       IN  /\ link' = [d \in Clients |-> IF d = c THEN state
                                         ELSE IF d \in kicked THEN "closed" ELSE link[d]]
           /\ releasing' = releasing \cup kicked \cup (IF state = "closed" THEN {c} ELSE {})
           /\ loginPosted' = IF state = "open" THEN loginPosted \cup {c} ELSE loginPosted
  /\ UNCHANGED <<eventConnect, playerOf, acceptPackets, inGame, created, uniqueLogin,
                 clientOf, isConnecting, overlapped, abandoned>>

\* login of a character that is not in the game and cannot be: it could not be
\* loaded or placed, is banned, or has to wait.  Its name is free again.
LoginRefused(c) ==
  /\ created < MaxPlayers
  /\ created' = created + 1
  /\ playerOf' = [playerOf EXCEPT ![c] = created']
  /\ clientOf' = [clientOf EXCEPT ![created'] = c]
  /\ uniqueLogin' = NoPlayer
  /\ CloseLinks({c})
  /\ UNCHANGED <<eventConnect, acceptPackets, inGame, isConnecting, overlapped, abandoned>>

LoginNew(c) ==
  /\ created < MaxPlayers
  /\ created' = created + 1
  /\ playerOf' = [playerOf EXCEPT ![c] = created']
  /\ clientOf' = [clientOf EXCEPT ![created'] = c]
  /\ uniqueLogin' = created'
  /\ inGame' = inGame \cup {created'}
  /\ acceptPackets' = acceptPackets \cup {c}
  /\ StillConnected
  /\ UNCHANGED <<eventConnect, isConnecting, overlapped, abandoned>>

AttachStillConnecting(c) ==   \* mutant
  /\ playerOf' = [playerOf EXCEPT ![c] = uniqueLogin]
  /\ clientOf' = [clientOf EXCEPT ![uniqueLogin] = c]
  /\ acceptPackets' = acceptPackets \cup {c}
  /\ UNCHANGED isConnecting

\* The second half of connect: c becomes the client of the registered player.
Attach(c) ==
  /\ playerOf' = [playerOf EXCEPT ![c] = uniqueLogin]
  /\ clientOf' = [clientOf EXCEPT ![uniqueLogin] = c]
  /\ isConnecting' = isConnecting \ {uniqueLogin}
  /\ acceptPackets' = acceptPackets \cup {c}

\* login to a character in the game that has a client.
Takeover(c) ==
  /\ CloseLinks(Current)
  /\ isConnecting' = isConnecting \cup {uniqueLogin}
  /\ eventConnect' = eventConnect \cup {c}
  /\ UNCHANGED <<playerOf, acceptPackets, clientOf>>

LoginAgain(c) ==
  /\ overlapped' = (overlapped \/ eventConnect # {})
  /\ \/ FALSE \in ReplaceKick /\ CloseLinks({c})
        /\ UNCHANGED <<eventConnect, playerOf, acceptPackets, clientOf, isConnecting>>
     \/ TRUE \in ReplaceKick /\ Current # {} /\ Takeover(c)
     \/ TRUE \in ReplaceKick /\ Current = {} /\ StillConnected /\ UNCHANGED eventConnect
        /\ IF link[c] = "expired"
           THEN UNCHANGED <<playerOf, acceptPackets, clientOf, isConnecting>>
           ELSE Attach(c)
  /\ UNCHANGED <<inGame, created, uniqueLogin, abandoned>>

Login(c) ==
  /\ c \in loginPosted
  /\ loginPosted' = loginPosted \ {c}
  /\ \/ uniqueLogin = NoPlayer /\ (LoginRefused(c) \/ LoginNew(c))
     \/ uniqueLogin # NoPlayer /\ LoginAgain(c)

\* The connect event.  A client whose connection has been destroyed leaves the
\* player as it is, isConnecting included.
Connect(c) ==
  /\ c \in eventConnect
  /\ eventConnect' = eventConnect \ {c}
  /\ \/ /\ uniqueLogin = NoPlayer
        /\ CloseLinks({c})
        /\ UNCHANGED <<playerOf, acceptPackets, clientOf, isConnecting, abandoned>>
     \/ /\ uniqueLogin # NoPlayer /\ link[c] = "expired"
        /\ abandoned' = (abandoned \/ uniqueLogin \in isConnecting)
        /\ StillConnected
        /\ UNCHANGED <<playerOf, acceptPackets, clientOf, isConnecting>>
     \/ /\ uniqueLogin # NoPlayer /\ link[c] # "expired"
        /\ Attach(c)
        /\ StillConnected /\ UNCHANGED abandoned
  /\ UNCHANGED <<loginPosted, inGame, created, uniqueLogin, overlapped>>

\* The connection is lost, or times out.
LoseConnection(c) ==
  /\ link[c] = "open"
  /\ CloseLinks({c})
  /\ UNCHANGED <<loginPosted, eventConnect, playerOf, acceptPackets, inGame, created,
                 uniqueLogin, clientOf, isConnecting, overlapped, abandoned>>

\* The last handler of a closed connection is gone.
ExpireConnection(c) ==
  /\ link[c] = "closed"
  /\ link' = [link EXCEPT ![c] = "expired"]
  /\ UNCHANGED <<loginPosted, eventConnect, releasing, playerOf, acceptPackets, inGame,
                 created, uniqueLogin, clientOf, isConnecting, overlapped, abandoned>>

ReleaseAnyClient(c) ==   \* mutant
  IF playerOf[c] # NoPlayer
  THEN clientOf' = [clientOf EXCEPT ![playerOf[c]] = NoClient]
       /\ playerOf' = [playerOf EXCEPT ![c] = NoPlayer]
  ELSE UNCHANGED <<clientOf, playerOf>>

\* release(): only the player's present client lets go of him.
LetGo(c) ==
  IF playerOf[c] # NoPlayer /\ clientOf[playerOf[c]] = c
  THEN clientOf' = [clientOf EXCEPT ![playerOf[c]] = NoClient]
       /\ playerOf' = [playerOf EXCEPT ![c] = NoPlayer]
  ELSE UNCHANGED <<clientOf, playerOf>>

\* The release event, after the login event that the same thread posted before
\* it.  An event that has waited for too long is dropped.
Release(c) ==
  /\ c \in releasing \ loginPosted
  /\ releasing' = releasing \ {c}
  /\ LetGo(c) \/ UNCHANGED <<clientOf, playerOf>>
  /\ UNCHANGED <<link, loginPosted, eventConnect, acceptPackets, inGame, created,
                 uniqueLogin, isConnecting, overlapped, abandoned>>

\* removeCreature and onRemoveCreature: the player leaves the game, the name is
\* free.
RemovePlayer(o) ==
  /\ inGame' = inGame \ {o}
  /\ uniqueLogin' = NoPlayer
  /\ UNCHANGED <<link, loginPosted, eventConnect, releasing, playerOf, acceptPackets,
                 created, clientOf, isConnecting, overlapped, abandoned>>

\* logout(), asked for by the client.
Logout(c) ==
  /\ link[c] = "open" /\ c \in acceptPackets
  /\ playerOf[c] \in inGame
  /\ RemovePlayer(playerOf[c])

\* sendPing: no pong for a minute, and canLogout().  With a client it is that
\* client's logout() that removes the player the client holds.
PingTimeout(o) ==
  /\ o \in inGame \ isConnecting
  /\ clientOf[o] # NoClient => playerOf[clientOf[o]] = o
  /\ RemovePlayer(o)

\* No open client holds the player.
Lost(o) == o \in inGame /\ \A c \in Clients : link[c] = "open" => playerOf[c] # o

SessionNext ==
  \/ \E c \in Clients :
       \/ OnRecvFirstMessage(c) \/ Login(c) \/ Connect(c) \/ LoseConnection(c)
       \/ ExpireConnection(c) \/ Release(c) \/ Logout(c)
  \/ \E o \in PlayerObjects : PingTimeout(o)

\* The dispatcher runs its events, and pings go on until a silent player is gone.
SessionFairness ==
  /\ \A c \in Clients :
       WF_sessionVars(Login(c)) /\ WF_sessionVars(Connect(c)) /\ WF_sessionVars(Release(c))
  /\ \A o \in PlayerObjects : WF_sessionVars(Lost(o) /\ PingTimeout(o))

SessionSpec == SessionInit /\ [][SessionNext]_sessionVars /\ SessionFairness

-----------------------------------------------------------------------------
(***************************************************************************)
(* Properties.                                                             *)
(***************************************************************************)

\* One Player object of the character is in the game at most, and it is the one
\* the name is registered for: no path of login, failed login, takeover or logout
\* leaves a stale name or a second object.
SessionTypeOK ==
  /\ inGame = {uniqueLogin} \ {NoPlayer}
  /\ link \in [Clients -> {"new", "open", "closed", "expired"}]
  /\ (loginPosted \cup eventConnect \cup releasing \cup acceptPackets) \subseteq Clients
  /\ playerOf \in [Clients -> PlayerObjects \cup {NoPlayer}]
  /\ clientOf \in [PlayerObjects -> Clients \cup {NoClient}]
  /\ created \in 0..MaxPlayers

\* The client of a player holds that player, so that its logout removes him; and,
\* unless takeovers overlapped, an open client that holds the player is his client:
\* a late release of the old client does not take him from the new one.
ClientHoldsPlayer ==
  /\ \A o \in inGame : clientOf[o] # NoClient => playerOf[clientOf[o]] = o
  /\ ~overlapped =>
       \A c \in acceptPackets :
         link[c] = "open" /\ playerOf[c] \in inGame => clientOf[playerOf[c]] = c

\* One open client at most acts for the player, as long as no takeover began
\* while another was under way: login asks only the new protocol's eventConnect,
\* so that both takeovers come through and the first client stays attached.
OneClientActs ==
  ~overlapped =>
    Cardinality({c \in acceptPackets : link[c] = "open" /\ playerOf[c] \in inGame}) <= 1

\* A player without an open client does not stay in the game for ever: a client
\* takes it over, or the ping timeout removes it.  A takeover whose client is gone
\* when it comes to connect is the exception: isConnecting stays set.
LostPlayerLeaves ==
  \A o \in PlayerObjects :
    Lost(o) ~> (~Lost(o) \/ abandoned)

\* The character has one Player object, which the name, the player and the
\* client agree about, and one client that acts for it.
SessionIsSafe == SessionTypeOK /\ ClientHoldsPlayer /\ OneClientActs
=============================================================================
