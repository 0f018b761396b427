-------------------------------- MODULE Chat --------------------------------
(***************************************************************************)
(* Chat channels: src/creatures/interactions/chat.cpp with the handlers of *)
(* game.cpp that call it.                                                  *)
(*                                                                         *)
(* A channel of a party is found through the player's party, a private one *)
(* by its number, if the player is its owner or invited.  Of parties only  *)
(* the player's m_party is kept here; the number of a private channel is   *)
(* free again when its channel is closed.  Guild channels behave as party  *)
(* channels do.                                                            *)
(***************************************************************************)
EXTENDS FiniteSets, Naturals, FiniteSetsExt

CONSTANTS
  Talkers,       \* players
  Groups,        \* parties
  NoGroup,       \* the player has no party
  Normal,        \* the channels of chatchannels.xml
  Private,       \* numbers of private channels
  NoOwner        \* no private channel has the number

ASSUME ChatAssumption == NoGroup \notin Groups /\ Private \subseteq Nat /\ NoOwner \notin Talkers

VARIABLES
  talking,       \* players in the game
  groupOf,       \* m_party
  groupUsers,    \* partyChannels: users of the party's channel, if it was created
  normalUsers,   \* normalChannels: users
  privateChan    \* privateChannels: owner, invites and users

chatVars == <<talking, groupOf, groupUsers, normalUsers, privateChan>>

NoPrivate == [owner |-> NoOwner, invites |-> {}, users |-> {}]
NotCreated == [made |-> FALSE, users |-> {}]

ChatInit ==
  /\ talking = Talkers
  /\ groupOf = [p \in Talkers |-> NoGroup]
  /\ groupUsers = [g \in Groups |-> NotCreated]
  /\ normalUsers = [c \in Normal |-> {}]
  /\ privateChan = [n \in Private |-> NoPrivate]

-----------------------------------------------------------------------------
IsInvited(ch, p) == ch.owner = p \/ p \in ch.invites
Owned(p) == {n \in Private : privateChan[n].owner = p}
FreeNumbers == {n \in Private : privateChan[n].owner = NoOwner}

\* playerCreatePrivateChannel(): the first free number, one channel for each
\* owner, who is its first user.
CreatePrivateChannel(p) ==
  /\ p \in talking /\ Owned(p) = {} /\ FreeNumbers # {}
  /\ privateChan' = [privateChan EXCEPT ![Min(FreeNumbers)] =
                       [owner |-> p, invites |-> {}, users |-> {p}]]
  /\ UNCHANGED <<talking, groupOf, groupUsers, normalUsers>>

\* playerChannelInvite().
ChannelInvite(p, q) ==
  /\ {p, q} \subseteq talking /\ p # q
  /\ \E n \in Owned(p) : privateChan' = [privateChan EXCEPT ![n].invites = @ \cup {q}]
  /\ UNCHANGED <<talking, groupOf, groupUsers, normalUsers>>

ChannelExcludeKeepingUser(p, q) ==   \* mutant: excludePlayer() leaves the user in
  /\ {p, q} \subseteq talking /\ p # q
  /\ \E n \in Owned(p) : privateChan' = [privateChan EXCEPT ![n].invites = @ \ {q}]
  /\ UNCHANGED <<talking, groupOf, groupUsers, normalUsers>>

\* playerChannelExclude(): nothing happens to a player who is not invited.
ChannelExclude(p, q) ==
  /\ {p, q} \subseteq talking /\ p # q
  /\ \E n \in Owned(p) :
       /\ q \in privateChan[n].invites
       /\ privateChan' = [privateChan EXCEPT ![n].invites = @ \ {q}, ![n].users = @ \ {q}]
  /\ UNCHANGED <<talking, groupOf, groupUsers, normalUsers>>

\* playerRequestChannels(): getChannelList() creates the channel of the party.
RequestChannels(p) ==
  /\ p \in talking /\ groupOf[p] # NoGroup
  /\ groupUsers' = [groupUsers EXCEPT ![groupOf[p]].made = TRUE]
  /\ UNCHANGED <<talking, groupOf, normalUsers, privateChan>>

\* playerOpenChannel(): addUserToChannel() on what getChannel() finds.  The
\* scripts of a normal channel decide who may join.
OpenChannel(p) ==
  /\ p \in talking
  /\ \/ /\ groupOf[p] # NoGroup /\ groupUsers[groupOf[p]].made
        /\ groupUsers' = [groupUsers EXCEPT ![groupOf[p]].users = @ \cup {p}]
        /\ UNCHANGED <<normalUsers, privateChan>>
     \/ /\ \E c \in Normal : normalUsers' = [normalUsers EXCEPT ![c] = @ \cup {p}]
        /\ UNCHANGED <<groupUsers, privateChan>>
     \/ /\ \E n \in Private :
             /\ IsInvited(privateChan[n], p)
             /\ privateChan' = [privateChan EXCEPT ![n].users = @ \cup {p}]
        /\ UNCHANGED <<groupUsers, normalUsers>>
  /\ UNCHANGED <<talking, groupOf>>

\* removeUserFromChannel() of the party channel, found through the player's party.
LeftGroupChannel(p, group) ==
  IF group = NoGroup THEN groupUsers
  ELSE [groupUsers EXCEPT ![group].users = @ \ {p}]

\* removeUserFromChannel() of a private channel: the owner's leaving deletes it.
LeftPrivate(n, p) ==
  IF privateChan[n].owner = p THEN NoPrivate
  ELSE [privateChan[n] EXCEPT !.users = @ \ {p}]

\* playerCloseChannel().
CloseChannel(p) ==
  /\ p \in talking
  /\ \/ /\ groupUsers' = LeftGroupChannel(p, groupOf[p])
        /\ UNCHANGED <<normalUsers, privateChan>>
     \/ /\ \E c \in Normal : normalUsers' = [normalUsers EXCEPT ![c] = @ \ {p}]
        /\ UNCHANGED <<groupUsers, privateChan>>
     \/ /\ \E n \in Private :
             /\ IsInvited(privateChan[n], p) /\ p \in privateChan[n].users
             /\ privateChan' = [privateChan EXCEPT ![n] = LeftPrivate(n, p)]
        /\ UNCHANGED <<groupUsers, normalUsers>>
  /\ UNCHANGED <<talking, groupOf>>

-----------------------------------------------------------------------------
\* joinParty() or create().
EnterParty(p, g) ==
  /\ p \in talking /\ groupOf[p] = NoGroup
  /\ groupOf' = [groupOf EXCEPT ![p] = g]
  /\ UNCHANGED <<talking, groupUsers, normalUsers, privateChan>>

\* leaveParty() and disband(): sendClosePrivate(CHANNEL_PARTY) comes after
\* setParty(nullptr), so the channel is not found and the player stays its user.
QuitParty(p) ==
  /\ p \in talking /\ groupOf[p] # NoGroup
  /\ groupOf' = [groupOf EXCEPT ![p] = NoGroup]
  /\ groupUsers' = LeftGroupChannel(p, groupOf'[p])
  /\ UNCHANGED <<talking, normalUsers, privateChan>>

\* removeUserFromAllChannels().
RemoveUserFromAllChannels(p) ==
  /\ groupUsers' = [g \in Groups |-> [groupUsers[g] EXCEPT !.users = @ \ {p}]]
  /\ normalUsers' = [c \in Normal |-> normalUsers[c] \ {p}]
  /\ privateChan' = [n \in Private |->
       IF privateChan[n].owner = p THEN NoPrivate
       ELSE [privateChan[n] EXCEPT !.invites = @ \ {p}, !.users = @ \ {p}]]

\* A second client takes the player over: ProtocolGame::connect().
Reconnect(p) ==
  /\ p \in talking
  /\ UNCHANGED <<talking, groupOf>>
  /\ RemoveUserFromAllChannels(p)

\* Player::onRemoveCreature(): the party is left, then every channel.
LogOff(p) ==
  /\ p \in talking
  /\ talking' = talking \ {p}
  /\ groupOf' = [groupOf EXCEPT ![p] = NoGroup]
  /\ RemoveUserFromAllChannels(p)

LogOn(p) ==
  /\ p \notin talking
  /\ talking' = talking \cup {p}
  /\ UNCHANGED <<groupOf, groupUsers, normalUsers, privateChan>>

\* Chat::load() again: every user joins anew, and a script may refuse.
ReloadChannels ==
  /\ \E kept \in [Normal -> SUBSET Talkers] :
       normalUsers' = [c \in Normal |-> normalUsers[c] \cap kept[c]]
  /\ UNCHANGED <<talking, groupOf, groupUsers, privateChan>>

ChatNext ==
  \/ ReloadChannels
  \/ \E p \in Talkers :
       \/ CreatePrivateChannel(p) \/ RequestChannels(p) \/ OpenChannel(p) \/ CloseChannel(p)
       \/ QuitParty(p) \/ Reconnect(p) \/ LogOff(p) \/ LogOn(p)
       \/ \E q \in Talkers : ChannelInvite(p, q) \/ ChannelExclude(p, q)
       \/ \E g \in Groups : EnterParty(p, g)

ChatSpec == ChatInit /\ [][ChatNext]_chatVars

-----------------------------------------------------------------------------
(***************************************************************************)
(* Properties.                                                             *)
(***************************************************************************)

\* Only the owner of a private channel and the players who are invited at this
\* moment hear what is said in it.
PrivateStaysPrivate ==
  \A n \in Private : privateChan[n].users \subseteq {privateChan[n].owner} \cup privateChan[n].invites

\* A private channel exists as long as its owner listens to it, and a player
\* owns one at most: no number stays taken by a channel nobody can close.
PrivateIsOwned ==
  /\ \A n \in Private : privateChan[n] # NoPrivate => privateChan[n].owner \in privateChan[n].users
  /\ \A p \in Talkers : Cardinality(Owned(p)) <= 1

\* No channel keeps a player who has left the game, not even the channels of
\* parties the player had left before and no longer finds.
GoneIsSilent ==
  LET kept == UNION ({groupUsers[g].users : g \in Groups} \cup {normalUsers[c] : c \in Normal}
                     \cup {privateChan[n].users \cup privateChan[n].invites : n \in Private})
  IN  kept \subseteq talking

\* A channel is heard by the players it is meant for and by nobody else.
ChannelsAreKept == PrivateStaysPrivate /\ PrivateIsOwned /\ GoneIsSilent
=============================================================================
