---------------------------- MODULE WaitingList ----------------------------
(***************************************************************************)
(* The queue of players who wait for a place on a full server:             *)
(* src/creatures/players/management/waitlist.cpp, called by                *)
(* ProtocolGame::login on the dispatcher thread.                           *)
(*                                                                         *)
(* A refused client retries later with a new Player object.  The queue is  *)
(* two std::lists and a map from guids to list iterators.  A player who is *)
(* let in is always erased from waitList, also when his iterator belongs   *)
(* to priorityWaitList: the node leaves the list it is in, and the size of *)
(* waitList is counted down.  skew is how often that has happened.         *)
(***************************************************************************)
EXTENDS Vectors, FiniteSets, SequencesExt

CONSTANTS
  Guests,      \* guids of the players who try to log in
  Staff,       \* those with CanAlwaysLogin or a gamemaster's account
  MaxOnline,   \* maxPlayers of the configuration; 0: no limit
  MaxSkew,     \* bound of the model: players let in from priorityWaitList
  Nobody

ASSUME WaitingListAssumption ==
  /\ IsFiniteSet(Guests) /\ Staff \subseteq Guests
  /\ {MaxOnline, MaxSkew} \subseteq Nat
  /\ Nobody \notin Guests

VARIABLES
  priorityWaitList, waitList,   \* the guids in the lists, first come first
  references,                   \* the keys of playerReferences
  lapsed,                       \* entries whose timeout has passed
  skew,
  premium,                      \* guests whose account is premium now
  online,                       \* players in the game
  stuck,                        \* the dispatcher thread never returns
  answer                        \* history: the last player refused, and his slot

waitVars == <<priorityWaitList, waitList, references, lapsed, skew, premium, online,
              stuck, answer>>

NoAnswer == [who |-> Nobody, slot |-> 0]

WaitingListInit ==
  /\ priorityWaitList = <<>> /\ waitList = <<>>
  /\ references = {} /\ lapsed = {}
  /\ skew = 0
  /\ premium \in SUBSET (Guests \ Staff)
  /\ online = {}
  /\ stuck = FALSE
  /\ answer = NoAnswer

-----------------------------------------------------------------------------
EmptyLists == priorityWaitList = <<>> /\ waitList = <<>>

\* std::list::size() of priorityWaitList and of waitList.
SizeOfPriority(p) == Len(p) + skew
SizeOfWaiting(w) == Len(w) - skew

\* The lists after cleanupList: the lapsed entries are gone.
Fresh(list) == Remaining(list, lapsed)

CleanedReferences ==
  references \ (lapsed \cap (ToSet(priorityWaitList) \cup ToSet(waitList)))

IndexOf(g, list) == CHOOSE i \in DOMAIN list : list[i] = g

SlotInOwnList(g, p, w) ==   \* mutant: those in priorityWaitList do not count
  IF g \in premium THEN IndexOf(g, p) ELSE IndexOf(g, w)

\* The slot of a guest who is in the lists p and w.
Slot(g, p, w) ==
  IF g \in premium THEN IndexOf(g, p) ELSE SizeOfPriority(p) + IndexOf(g, w)

\* The slot of a guest who has just been appended to a list: it comes from the
\* sizes before.
NewSlot(g, p, w) ==
  IF g \in premium THEN SizeOfPriority(p) + 1
  ELSE SizeOfPriority(p) + SizeOfWaiting(w) + 1

\* addPlayerToList measures the distance from the head of the list of the
\* account's present kind: from the head of the other list it has no end.
WrongList(g, p, w) ==
  \/ g \in premium /\ g \in ToSet(w)
  \/ g \notin premium /\ g \in ToSet(p)

\* clientLogin for a guest who needs a place.  p, w and r are the lists and the
\* references cleanupList leaves; then the guest is in the lists with the slot s.
Queued(g, p, w, r, s) ==
  \/ /\ Cardinality(online) + s <= MaxOnline
     /\ priorityWaitList' = Remaining(p, {g})
     /\ waitList' = Remaining(w, {g})
     /\ references' = r \ {g}
     /\ skew' = IF g \in premium THEN skew + 1 ELSE skew
     /\ skew' <= MaxSkew
     /\ online' \in {online \cup {g}, online}   \* loading the player may fail
     /\ answer' = NoAnswer
  \/ /\ Cardinality(online) + s > MaxOnline
     /\ priorityWaitList' = p /\ waitList' = w /\ references' = r
     /\ answer' = [who |-> g, slot |-> s]
     /\ UNCHANGED <<skew, online>>

CanAlwaysLogin(g) == g \in Staff \/ MaxOnline = 0

ClientLoginAtOnce(g) ==
  /\ ~stuck
  /\ g \in Guests \ online
  /\ CanAlwaysLogin(g) \/ (EmptyLists /\ Cardinality(online) < MaxOnline)
  /\ online' \in {online \cup {g}, online}
  /\ answer' = NoAnswer
  /\ UNCHANGED <<priorityWaitList, waitList, references, lapsed, skew, premium, stuck>>

ClientLoginQueued(g) ==
  /\ ~stuck
  /\ g \in Guests \ online
  /\ ~CanAlwaysLogin(g) /\ ~(EmptyLists /\ Cardinality(online) < MaxOnline)
  /\ LET p == Fresh(priorityWaitList)
         w == Fresh(waitList)
         r == CleanedReferences
     IN  \/ /\ g \in r /\ ~WrongList(g, p, w)
            /\ Queued(g, p, w, r, Slot(g, p, w))
            /\ stuck' = stuck
         \/ /\ g \in r /\ WrongList(g, p, w)
            /\ stuck' = TRUE
            /\ UNCHANGED <<priorityWaitList, waitList, references, skew, online, answer>>
         \/ /\ g \notin r
            /\ Queued(g, IF g \in premium THEN Append(p, g) ELSE p,
                         IF g \in premium THEN w ELSE Append(w, g),
                         r \cup {g}, NewSlot(g, p, w))
            /\ stuck' = stuck
  /\ lapsed' = {}
  /\ UNCHANGED premium

\* A guest does not retry in time.
Lapse(g) ==
  /\ ~stuck
  /\ g \in references \ lapsed
  /\ lapsed' = lapsed \cup {g}
  /\ UNCHANGED <<priorityWaitList, waitList, references, skew, premium, online, stuck,
                 answer>>

LeaveGame(g) ==
  /\ ~stuck
  /\ g \in online
  /\ online' = online \ {g}
  /\ UNCHANGED <<priorityWaitList, waitList, references, lapsed, skew, premium, stuck,
                 answer>>

\* Premium time ends, or is bought, between two attempts.
ChangePremium(g) ==
  /\ ~stuck
  /\ g \in Guests \ (Staff \cup online)
  /\ premium' = IF g \in premium THEN premium \ {g} ELSE premium \cup {g}
  /\ UNCHANGED <<priorityWaitList, waitList, references, lapsed, skew, online, stuck,
                 answer>>

WaitingListNext ==
  \E g \in Guests :
    ClientLoginAtOnce(g) \/ ClientLoginQueued(g) \/ Lapse(g) \/ LeaveGame(g)
      \/ ChangePremium(g)

WaitingListSpec == WaitingListInit /\ [][WaitingListNext]_waitVars

-----------------------------------------------------------------------------
(***************************************************************************)
(* Properties.                                                             *)
(***************************************************************************)

Waiting == priorityWaitList \o waitList

\* The references and the lists agree, and nobody waits twice: every iterator of
\* playerReferences points at the one entry of its player, whatever lapsed, was
\* let in or came back.
WaitTypeOK ==
  /\ references = ToSet(Waiting)
  /\ Cardinality(references) = Len(Waiting)
  /\ lapsed \subseteq Guests /\ premium \subseteq Guests /\ online \subseteq Guests
  /\ skew \in 0..MaxSkew
  /\ stuck \in BOOLEAN
  /\ answer \in [who : Guests \cup {Nobody}, slot : 0..(2 * Cardinality(Guests) + MaxSkew)]

\* The guests whose turn is before that of g, not counting the lapsed ones.
AheadOf(g) ==
  ToSet(IF g \in references \ lapsed THEN SubSeq(Waiting, 1, IndexOf(g, Waiting) - 1)
        ELSE IF g \in premium THEN priorityWaitList ELSE Waiting) \ (lapsed \cup {g})

\* Nobody takes a place that is kept for a guest ahead of him: who is let in
\* leaves a free place for everybody who waited before him and is not overdue.
\* The lost sizes of the lists only make the server more careful.
PlacesAreKept ==
  [][\A g \in (online' \ online) \ Staff :
       MaxOnline > 0 => Cardinality(online') + Cardinality(AheadOf(g)) <= MaxOnline]_waitVars

\* A refused guest is told his place in the queue, and is refused for it, as long
\* as nobody was let in from priorityWaitList: from then on the sizes of the lists
\* are wrong, the slot is too large, and a guest may be refused forever.
SlotIsThePlace ==
  [][answer' # answer /\ answer'.who # Nobody /\ skew = 0 =>
       answer'.slot = IndexOf(answer'.who, Waiting')]_waitVars

\* The queue is fair: the lists and references agree, no place is taken from
\* a guest ahead, and a guest is told his place.
QueueIsFair == []WaitTypeOK /\ PlacesAreKept /\ SlotIsThePlace
=============================================================================
