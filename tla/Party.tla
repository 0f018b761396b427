------------------------------- MODULE Party -------------------------------
(***************************************************************************)
(* Parties of players: src/creatures/players/grouping/party.cpp, with the  *)
(* handlers of game.cpp that call it and the logout that leaves it.        *)
(*                                                                         *)
(* Who is in which party is kept twice, and so is who is invited: a party  *)
(* has its leader, memberList and inviteList, a player has m_party and     *)
(* invitePartyList.  Handlers run on the dispatcher thread, each to its    *)
(* end, so an action is a whole handler; what the clients are shown is     *)
(* left out.  The event callbacks let every operation happen, as the       *)
(* scripts of the repository do.                                           *)
(***************************************************************************)
EXTENDS Integers, FiniteSets, Sequences, Functions

CONSTANTS
  Folk,        \* players
  Parties,     \* Party objects; one that nothing refers to can be created anew
  NoParty,     \* m_party == nullptr
  NoLeader     \* getLeader() == nullptr: the party has been disbanded

ASSUME PartyAssumption == NoParty \notin Parties /\ NoLeader \notin Folk

VARIABLES
  inGame,      \* players getPlayerByID finds
  parties,     \* the Party objects
  partyOf,     \* m_party of a player
  invitations  \* invitePartyList of a player

partyVars == <<inGame, parties, partyOf, invitations>>

Disbanded == [leader |-> NoLeader, members |-> <<>>, invites |-> {}]

PartyInit ==
  /\ inGame = Folk
  /\ parties = [g \in Parties |-> Disbanded]
  /\ partyOf = [p \in Folk |-> NoParty]
  /\ invitations = [p \in Folk |-> {}]

-----------------------------------------------------------------------------
(***************************************************************************)
(* The operations of Party, as functions from one state of the parties to  *)
(* the next.                                                               *)
(***************************************************************************)
PartyState == [parties |-> parties, partyOf |-> partyOf, invitations |-> invitations]

PartyBecomes(s) ==
  /\ parties' = s.parties /\ partyOf' = s.partyOf /\ invitations' = s.invitations

IsEmpty(pt) == pt.members = <<>> /\ pt.invites = {}

\* memberList.erase() of the place where std::find found the player, if it did.
Erase(list, p) ==
  IF p \notin Range(list) THEN list
  ELSE LET at == CHOOSE n \in 1..Len(list) : list[n] = p
       IN  [n \in 1..(Len(list) - 1) |-> IF n < at THEN list[n] ELSE list[n + 1]]

\* disband(): leader, members and invited players forget the party.
Disband(s, g) ==
  LET pt == s.parties[g] IN
  [parties |-> [s.parties EXCEPT ![g] = Disbanded],
   partyOf |-> [p \in Folk |-> IF p = pt.leader \/ p \in Range(pt.members)
                               THEN NoParty ELSE s.partyOf[p]],
   invitations |-> [p \in Folk |-> IF p \in pt.invites
                                   THEN s.invitations[p] \ {g} ELSE s.invitations[p]]]

PassLeadershipDropping(pt, p) ==   \* mutant: the old leader is not kept as a member
  [pt EXCEPT !.leader = p, !.members = Erase(@, p)]

\* passPartyLeadership(): the old leader becomes the first member.
PassLeadership(pt, p) ==
  [pt EXCEPT !.leader = p, !.members = <<pt.leader>> \o Erase(@, p)]

LastOneLeft(pt, p) ==   \* mutant: a party of two with an invitation is closed too
  p = pt.leader /\ Len(pt.members) <= 1

\* missingLeader in leaveParty(): nobody can take the leader's place, or one
\* player alone would.
MissingLeader(pt, p) ==
  /\ p = pt.leader
  /\ \/ pt.members = <<>>
     \/ Len(pt.members) = 1 /\ pt.invites = {}

\* leaveParty(): leadership passes to the first member, and only then the
\* player is taken from memberList.
LeftBy(pt, p) ==
  LET passed == IF p = pt.leader /\ ~MissingLeader(pt, p)
                THEN PassLeadership(pt, Head(pt.members)) ELSE pt
  IN  [passed EXCEPT !.members = Erase(@, p)]

LeaveParty(s, p) ==
  LET g == s.partyOf[p]
      left == LeftBy(s.parties[g], p)
      s1 == [parties |-> [s.parties EXCEPT ![g] = left],
             partyOf |-> [s.partyOf EXCEPT ![p] = NoParty],
             invitations |-> s.invitations]
  IN  IF MissingLeader(s.parties[g], p) \/ IsEmpty(left) THEN Disband(s1, g) ELSE s1

\* removeInvite(): the player is taken from inviteList.
Uninvited(pt, p) == [pt EXCEPT !.invites = @ \ {p}]

\* removeInvite() of parties that share no player but p: the last invitation of
\* a leader alone ends his party, which has nobody else to forget it.
RemoveInvites(s, p, gs) ==
  LET ended == {g \in gs : p \in s.parties[g].invites /\ IsEmpty(Uninvited(s.parties[g], p))} IN
  [parties |-> [g \in Parties |-> IF g \in ended THEN Disbanded
                                  ELSE IF g \in gs THEN Uninvited(s.parties[g], p)
                                  ELSE s.parties[g]],
   partyOf |-> [q \in Folk |-> IF \E g \in ended : q = s.parties[g].leader
                               THEN NoParty ELSE s.partyOf[q]],
   invitations |-> [s.invitations EXCEPT ![p] = @ \ gs]]

-----------------------------------------------------------------------------
(***************************************************************************)
(* The handlers of game.cpp.                                               *)
(***************************************************************************)
Leads(p, g) == partyOf[p] = g /\ parties[g].leader = p

IsInviting(p, q) == \E g \in Parties : Leads(p, g) /\ q \in parties[g].invites

\* No player holds the object any more.
Unheld(g) == \A p \in Folk : partyOf[p] # g /\ g \notin invitations[p]

\* playerInviteToParty(): Party::create for a player without one, then
\* invitePlayer.
PlayerInviteToParty(p, q) ==
  /\ {p, q} \subseteq inGame /\ p # q
  /\ ~IsInviting(q, p)
  /\ partyOf[q] = NoParty
  /\ \E g \in Parties :
       /\ \/ partyOf[p] = NoParty /\ Unheld(g) /\ g = (CHOOSE h \in Parties : Unheld(h))
             /\ parties' = [parties EXCEPT ![g] =
                  [leader |-> p, members |-> <<>>, invites |-> {q}]]
             /\ partyOf' = [partyOf EXCEPT ![p] = g]
          \/ Leads(p, g) /\ q \notin parties[g].invites
             /\ parties' = [parties EXCEPT ![g].invites = @ \cup {q}]
             /\ UNCHANGED partyOf
       /\ invitations' = [invitations EXCEPT ![q] = @ \cup {g}]
  /\ UNCHANGED inGame

\* playerJoinParty() and joinParty().
PlayerJoinParty(p, q) ==
  /\ {p, q} \subseteq inGame
  /\ IsInviting(q, p)
  /\ partyOf[p] = NoParty
  /\ LET g == partyOf[q] IN
     /\ parties' = [parties EXCEPT ![g].invites = @ \ {p},
                                   ![g].members = Append(@, p)]
     /\ partyOf' = [partyOf EXCEPT ![p] = g]
     /\ invitations' = [invitations EXCEPT ![p] = @ \ {g}]
  /\ UNCHANGED inGame

\* playerRevokePartyInvitation() and revokeInvitation().
PlayerRevokeInvitation(p, q) ==
  /\ {p, q} \subseteq inGame
  /\ IsInviting(p, q)
  /\ PartyBecomes(RemoveInvites(PartyState, q, {partyOf[p]}))
  /\ UNCHANGED inGame

\* playerPassPartyLeadership(), to a player isPartner() finds.
PlayerPassLeadership(p, q) ==
  /\ {p, q} \subseteq inGame /\ p # q
  /\ \E g \in Parties :
       /\ Leads(p, g) /\ partyOf[q] = g
       /\ parties' = [parties EXCEPT ![g] = PassLeadership(@, q)]
  /\ UNCHANGED <<inGame, partyOf, invitations>>

\* playerLeaveParty(); in a fight it is refused.
PlayerLeaveParty(p) ==
  /\ p \in inGame /\ partyOf[p] # NoParty
  /\ PartyBecomes(LeaveParty(PartyState, p))
  /\ UNCHANGED inGame

\* Player::onRemoveCreature() at a logout: leaveParty, then clearPartyInvitations.
OnRemoveCreature(p) ==
  /\ p \in inGame
  /\ inGame' = inGame \ {p}
  /\ LET left == IF partyOf[p] # NoParty THEN LeaveParty(PartyState, p) ELSE PartyState
     IN  PartyBecomes(RemoveInvites(left, p, left.invitations[p]))

\* The player logs in again, with a Player object that has no party.
LoginAnew(p) ==
  /\ p \notin inGame
  /\ inGame' = inGame \cup {p}
  /\ partyOf' = [partyOf EXCEPT ![p] = NoParty]
  /\ invitations' = [invitations EXCEPT ![p] = {}]
  /\ UNCHANGED parties

PartyNext ==
  \E p \in Folk :
    \/ PlayerLeaveParty(p) \/ OnRemoveCreature(p) \/ LoginAnew(p)
    \/ \E q \in Folk :
         \/ PlayerInviteToParty(p, q) \/ PlayerJoinParty(p, q)
         \/ PlayerRevokeInvitation(p, q) \/ PlayerPassLeadership(p, q)

PartySpec == PartyInit /\ [][PartyNext]_partyVars

-----------------------------------------------------------------------------
(***************************************************************************)
(* Properties.                                                             *)
(***************************************************************************)
PeopleOf(pt) ==
  IF pt.leader = NoLeader THEN {} ELSE {pt.leader} \cup Range(pt.members)

People(g) == PeopleOf(parties[g])

\* The lists hold players, memberList each of them once and never the leader,
\* and a party that is not disbanded has somebody besides its leader.
PartyTypeOK ==
  /\ inGame \subseteq Folk
  /\ partyOf \in [Folk -> Parties \cup {NoParty}]
  /\ invitations \in [Folk -> SUBSET Parties]
  /\ \A g \in Parties :
       /\ parties[g].leader \in Folk \cup {NoLeader}
       /\ parties[g].members \in Seq(Folk) /\ IsInjective(parties[g].members)
       /\ parties[g].leader \notin Range(parties[g].members)
       /\ parties[g].invites \subseteq Folk \ People(g)
       /\ (parties[g].leader # NoLeader) <=> ~IsEmpty(parties[g])

\* A player's m_party and the party's leader and memberList say the same, for
\* every order of invitations, joins, passed leaderships and logouts; a player
\* who has left the game is in no party.
MembershipAgrees ==
  \A p \in Folk, g \in Parties :
    (p \in inGame /\ partyOf[p] = g) <=> p \in People(g)

\* A party's inviteList and the players' invitePartyList say the same, so that
\* no disbanded party can still be joined and no list keeps a Player object that
\* has logged out.
InvitationsAgree ==
  \A p \in Folk, g \in Parties :
    (p \in inGame /\ g \in invitations[p]) <=> p \in parties[g].invites

\* One step takes at most one player from party pt and its lead stays with its
\* people, unless it is disbanded; and it is disbanded when one player of two
\* leaves or it has a leader only, never over the heads of three.
LivesOn(pt, new) ==
  pt.leader # NoLeader =>
    IF new.leader = NoLeader
    THEN \/ Cardinality(PeopleOf(pt)) + Cardinality(pt.invites) <= 2
         \/ PeopleOf(pt) = {pt.leader}
    ELSE /\ Cardinality(PeopleOf(pt) \ PeopleOf(new)) <= 1
         /\ new.leader \in PeopleOf(pt)

\* Every handler lets every party live on, in this sense, a logout included
\* that leaves one party and takes the player's name from the lists of others.
PartyLivesOn == [][\A g \in Parties : LivesOn(parties[g], parties'[g])]_partyVars

\* The two records of every membership and of every invitation agree, between
\* any handlers of any players.
PartiesAgree == PartyTypeOK /\ MembershipAgrees /\ InvitationsAgree
=============================================================================
