------------------------- MODULE ServerSessions_proofs -------------------------
(***************************************************************************)
(* Proofs about ServerSessions, for any finite sets of clients, accounts   *)
(* and worlds, with every failure of queries and maps.  The types hold     *)
(* whatever the clients do; the tables need clients that take turns.       *)
(***************************************************************************)
EXTENDS ServerSessions, FiniteSetTheorems, WellFoundedInduction, TLAPS

-----------------------------------------------------------------------------
(***************************************************************************)
(* The invariants.                                                         *)
(***************************************************************************)

\* Ids are handed out from below and there are enough of them.
IdsSuffice ==
  /\ idCount + Cardinality({c \in Clients : status[c] = "unknown"}) <= Cardinality(Clients)
  /\ \A a \in Accounts : savedId[a] + Cardinality({b \in Accounts : savedId[b] = 0}) <= MaxId

\* What the lists need: clients take turns, each has an account of its own, and
\* the accounts' ids are not those of sessions.
TakingTurns ==
  /\ Orderly
  /\ \A c, d \in Clients : AccountOf[c] = AccountOf[d] => c = d
  /\ \E a \in Accounts : SavedId[a] > 0
  /\ \A a \in Accounts : SavedId[a] = 0 \/ SavedId[a] > Cardinality(Clients)
  /\ \A a, b \in Accounts : SavedId[a] = SavedId[b] => a = b \/ SavedId[a] = 0

\* What the worlds need beside: no client's address changes.
OneAddress == MaxRebinds = 0

IsReady(c) == game.player[c].ready
IdOf(c) == game.player[c].id
InPlayers(c) == \E i \in DOMAIN players : players[i] = c

\* Each session is in one of the two lists, once.
Roster ==
  /\ \A i \in DOMAIN players :
       players[i] \in Clients /\ status[players[i]] # "unknown" /\ IsReady(players[i])
  /\ \A i \in DOMAIN unauthenticated :
       /\ unauthenticated[i] \in connected /\ status[unauthenticated[i]] # "unknown"
       /\ ~IsReady(unauthenticated[i])
  /\ \A i, j \in DOMAIN players : players[i] = players[j] => i = j
  /\ \A i, j \in DOMAIN unauthenticated : unauthenticated[i] = unauthenticated[j] => i = j
  /\ \A c \in Clients : status[c] = "live" /\ IsReady(c) => InPlayers(c)
  /\ \A c \in Clients : status[c] = "unknown" => ~IsReady(c)

\* A player has its account's id once it has logged in and a session's before.
IdsTellApart ==
  /\ \E a \in Accounts : savedId[a] > 0
  /\ \A a \in Accounts : savedId[a] = 0 \/ savedId[a] > Cardinality(Clients)
  /\ \A a, b \in Accounts : savedId[a] = savedId[b] => a = b \/ savedId[a] = 0
  /\ \A c \in Clients : IF IsReady(c) THEN IdOf(c) = savedId[AccountOf[c]] /\ savedId[AccountOf[c]] > 0
                        ELSE IdOf(c) <= Cardinality(Clients)

\* One client logs in at a time, and it is the last of those unauthenticated.
OneLogin ==
  /\ \A c \in Clients : c \notin connected => status[c] = "unknown"
  /\ \A c \in Clients : IsReady(c) <=> Told(c, "details")
  /\ \A c \in Clients : \A i \in DOMAIN game.sent[c] :
       game.sent[c][i][1] = "details" => game.sent[c][i][2] = IdOf(c)
  /\ \A c, d \in Clients : LoginUnderWay(c) /\ LoginUnderWay(d) => c = d
  /\ \A i \in DOMAIN unauthenticated :
       LoginUnderWay(unauthenticated[i]) => i = Len(unauthenticated)

\* A client presses the button once, is sent one hash and authenticates once.
AuthenticatesOnce ==
  \A c \in Clients :
    /\ handed[c] <= Len(written[c])
    /\ \A i, j \in DOMAIN written[c] :
         written[c][i] = written[c][j] /\ written[c][i] # "loaded" => i = j
    /\ \A i, j \in DOMAIN game.sent[c] :
         game.sent[c][i][1] = "hash" /\ game.sent[c][j][1] = "hash" => i = j
    /\ Told(c, "hash") => \E i \in 1..handed[c] : written[c][i] = "requestHash"
    /\ IsReady(c) => \E i \in 1..handed[c] : written[c][i] = "auth"

\* A datagram leads to the player of the client that sent it, or to nobody.
DatagramsFindTheirs ==
  \A d \in datagrams : \E c \in Clients :
    /\ \E k \in 0..MaxRebinds : d.addr = <<c, k>>
    /\ IsReady(c) /\ d.id = IdOf(c)
    /\ status[c] = "live" \/ ~InPlayers(c)

Sessions == Roster /\ IdsTellApart /\ OneLogin /\ AuthenticatesOnce /\ DatagramsFindTheirs

\* The clients whose players may be in a world.
Seated == {c \in Clients : status[c] = "live" /\ InPlayers(c)}

\* A player in a world is at its client's address, and its character its own.
Housed(g, seated) ==
  \A c \in Clients :
    LET p == g.player[c] IN
      /\ p.addr \in {NoAddress, <<c, 0>>}
      /\ p.addr = NoAddress => p.world = NoWorld
      /\ p.world # NoWorld => c \in seated
      /\ p.char > 0 => p.world # NoWorld
      /\ p.char < g.nextEntity
      /\ \A d \in Clients : p.char > 0 /\ g.player[d].char = p.char => c = d

\* ListedHasCharacter of any game, and that a character stays its owner's.
ListedOwn(g) ==
  \A w \in Worlds : \A id \in PlayerIds :
    g.listed[w][id] > 0 => \E e \in g.entities[w] : e.owner = id

OneOwner(g) ==
  \A w, v \in Worlds : \A e \in g.entities[w], f \in g.entities[v] :
    e.id = f.id => e.owner = f.owner

CharacterIsOwn(g) ==
  \A w \in Worlds : \A e \in g.entities[w] : \A c \in Clients :
    g.player[c].char = e.id => e.owner = g.player[c].id

\* Entity ids are handed out from below, to players that have logged in.
EntityIds(g) ==
  /\ 0 < g.nextEntity
  /\ \A w \in Worlds : \A e \in g.entities[w] : 0 < e.id /\ e.id < g.nextEntity
  /\ \A c \in Clients : g.player[c].char < g.nextEntity
  /\ \A c \in Clients : g.player[c].char > 0 => g.player[c].ready

Peopled(g) == ListedOwn(g) /\ OneOwner(g) /\ CharacterIsOwn(g) /\ EntityIds(g)

Members(g, w) == {c \in Clients : g.player[c].world = w /\ g.player[c].char > 0}

\* WorldMembership of any game.
Agree(g) ==
  \A w \in Worlds :
    /\ \A id \in PlayerIds :
         g.listed[w][id] = IF \E c \in Members(g, w) : g.player[c].id = id THEN 1 ELSE 0
    /\ g.entities[w] = {[id |-> g.player[c].char, owner |-> g.player[c].id] : c \in Members(g, w)}

\* World w is the last one that a client was told to load.
LastLoad(stream, w) ==
  \E l \in DOMAIN stream :
    /\ stream[l] = <<"load", w>>
    /\ \A k \in DOMAIN stream : k > l => stream[k][1] # "load"

Loaded(g) == \A w \in Worlds : \A c \in Members(g, w) : LastLoad(g.sent[c], w)

\* LoadWorldFirst of one stream.
LoadsFirst(stream) ==
  \A i \in DOMAIN stream : stream[i][1] = "char" =>
    \E l \in 1..i : /\ stream[l] = <<"load", stream[i][2]>>
                   /\ \A k \in l+1..i : stream[k][1] # "load"

Places ==
  /\ Housed(game, Seated) /\ Agree(game) /\ Loaded(game)
  /\ \A c \in Clients : LoadsFirst(game.sent[c])

-----------------------------------------------------------------------------
(***************************************************************************)
(* Finding players.                                                        *)
(***************************************************************************)

LEMMA LeastElement ==
  ASSUME NEW S, S \subseteq Nat, S # {}
  PROVE  Min(S) \in S /\ \A y \in S : Min(S) <= y
<1> DEFINE Less == {ss \in Nat \X Nat : ss[1] < ss[2]}
<1>1. IsWellFoundedOn(Less, Nat)
  BY NatLessThanWellFounded, Zenon DEF OpToRel
<1> HIDE DEF Less
<1>2. \E x \in S : \A y \in S : ~ (<<y, x>> \in Less)
  BY <1>1, WFMin
<1>3. ASSUME NEW x \in Nat, NEW y \in Nat, ~ (<<y, x>> \in Less)
      PROVE  x <= y
  <2>1. <<y, x>> \in Nat \X Nat /\ <<y, x>>[1] = y /\ <<y, x>>[2] = x
    OBVIOUS
  <2>2. ~ (y < x)
    BY <1>3, <2>1 DEF Less
  <2> QED BY <2>2
<1>4. \E x \in S : \A y \in S : x <= y
  BY <1>2, <1>3
<1> QED BY <1>4 DEF Min

LEMMA FirstOfMeans ==
  ASSUME NEW S, NEW list \in Seq(S), NEW these
  PROVE  \/ /\ FirstOf(list, these) = 0
            /\ \A i \in DOMAIN list : list[i] \notin these
         \/ /\ FirstOf(list, these) \in DOMAIN list
            /\ FirstOf(list, these) > 0
            /\ list[FirstOf(list, these)] \in these
<1> DEFINE at == {i \in DOMAIN list : list[i] \in these}
<1>1. CASE at = {}
  BY <1>1 DEF FirstOf
<1>2. CASE at # {}
  <2>1. at \subseteq Nat /\ at \subseteq DOMAIN list
    OBVIOUS
  <2>2. Min(at) \in at
    BY <1>2, <2>1, LeastElement
  <2>3. FirstOf(list, these) = Min(at)
    BY <1>2 DEF FirstOf
  <2> QED BY <2>1, <2>2, <2>3
<1> QED BY <1>1, <1>2

LEMMA FindPlayerMeans ==
  ASSUME TypeOK, NEW these, NEW p \in FindPlayer(these)
  PROVE  /\ p \in these
         /\ \/ \E i \in DOMAIN players : players[i] = p
            \/ /\ \A i \in DOMAIN players : players[i] \notin these
               /\ \E i \in DOMAIN unauthenticated : unauthenticated[i] = p
<1>1. players \in Seq(Clients \union {Dangling}) /\ unauthenticated \in Seq(Clients)
  BY DEF TypeOK
<1> DEFINE i == FirstOf(players, these)
           j == FirstOf(unauthenticated, these)
<1>2. p \in IF i > 0 THEN {players[i]} ELSE IF j > 0 THEN {unauthenticated[j]} ELSE {}
  BY DEF FindPlayer
<1>3. \/ i = 0 /\ \A k \in DOMAIN players : players[k] \notin these
      \/ i \in DOMAIN players /\ i > 0 /\ players[i] \in these
  BY <1>1, FirstOfMeans
<1>4. \/ j = 0
      \/ j \in DOMAIN unauthenticated /\ j > 0 /\ unauthenticated[j] \in these
  BY <1>1, FirstOfMeans
<1> HIDE DEF i, j
<1> QED BY <1>2, <1>3, <1>4

LEMMA GetPlayerByIdMeans ==
  ASSUME TypeOK, NEW g, NEW id
  PROVE  \/ /\ GetPlayerById(g, id) = {}
            /\ \A i \in DOMAIN players : players[i] \notin WithId(g, id)
         \/ \E p \in Clients : /\ GetPlayerById(g, id) = {p} /\ g.player[p].id = id
                               /\ \E i \in DOMAIN players : players[i] = p
<1>1. players \in Seq(Clients \union {Dangling})
  BY DEF TypeOK
<1> DEFINE i == FirstOf(players, WithId(g, id))
<1>2. \/ i = 0 /\ \A k \in DOMAIN players : players[k] \notin WithId(g, id)
      \/ i \in DOMAIN players /\ i > 0 /\ players[i] \in WithId(g, id)
  BY <1>1, FirstOfMeans
<1>3. GetPlayerById(g, id) = IF i > 0 THEN {players[i]} ELSE {}
  BY DEF GetPlayerById
<1> HIDE DEF i
<1> QED BY <1>2, <1>3 DEF WithId

-----------------------------------------------------------------------------
(***************************************************************************)
(* What the operators on worlds do to each field of the game.              *)
(***************************************************************************)

Lists    == [Worlds -> [PlayerIds -> Nat]]
Entities == [Worlds -> SUBSET [id : Nat, owner : PlayerIds]]
Saves    == [PlayerIds -> Worlds \union {NoWorld}]
Streams  == [Clients -> Seq(Notice)]

LEMMA GameFields ==
  ASSUME NEW g \in GameType
  PROVE  /\ g.player \in [Clients -> PlayerType] /\ g.listed \in Lists
         /\ g.entities \in Entities /\ g.nextEntity \in Nat
         /\ g.saved \in Saves /\ g.sent \in Streams
BY DEF GameType, Lists, Entities, Saves, Streams

LEMMA SentUpdate ==
  ASSUME NEW g \in GameType, NEW sent \in Streams
  PROVE  LET h == [g EXCEPT !.sent = sent] IN
           /\ h \in GameType /\ h.sent = sent
           /\ h.player = g.player /\ h.listed = g.listed /\ h.entities = g.entities
           /\ h.nextEntity = g.nextEntity /\ h.saved = g.saved
BY DEF GameType, Streams

\* Nothing but the streams has changed between two games.
OnlySent(g, h) ==
  /\ h \in GameType
  /\ h.player = g.player /\ h.listed = g.listed /\ h.entities = g.entities
  /\ h.nextEntity = g.nextEntity /\ h.saved = g.saved

SentTo(g, c, notice, h) ==
  OnlySent(g, h) /\ h.sent = [g.sent EXCEPT ![c] = Append(@, notice)]

LEMMA SendToMeans ==
  ASSUME NEW g \in GameType, NEW c \in Clients, NEW notice \in Notice
  PROVE  SentTo(g, c, notice, SendTo(g, c, notice))
<1> DEFINE sent == [g.sent EXCEPT ![c] = Append(@, notice)]
<1>1. g.sent[c] \in Seq(Notice) /\ g.sent \in Streams
  BY GameFields DEF Streams
<1>2. Append(g.sent[c], notice) \in Seq(Notice)
  BY <1>1
<1>3. sent \in Streams
  BY <1>1, <1>2 DEF Streams
<1>4. SendTo(g, c, notice) = [g EXCEPT !.sent = sent]
  BY DEF SendTo
<1> HIDE DEF sent
<1> QED BY <1>3, <1>4, SentUpdate DEF sent, SentTo, OnlySent

\* Whom the details of the characters of a world are sent to.
IsRecipient(g, w, c) ==
  /\ g.player[c].world = w
  /\ \E id \in ListedIds(g, w) : c \in GetPlayerById(g, id)

\* Details of characters are all that may have been added to the streams.
DetailsSent(g, w, sent) ==
  /\ sent \in Streams
  /\ \A c \in Clients :
       \/ sent[c] = g.sent[c]
       \/ sent[c] = Append(g.sent[c], <<"char", w>>) /\ IsRecipient(g, w, c)

LEMMA SendCharacterDetailsMeans ==
  ASSUME NEW g \in GameType, NEW w \in Worlds
  PROVE  /\ OnlySent(g, SendCharacterDetails(g, w))
         /\ DetailsSent(g, w, SendCharacterDetails(g, w).sent)
<1> DEFINE notice == <<"char", w>>
           recipients == {p \in UNION {GetPlayerById(g, id) : id \in ListedIds(g, w)} :
                            g.player[p].world = w}
           sent == [c \in Clients |->
                      IF c \in recipients /\ (g.sent[c] = <<>> \/ Last(g.sent[c]) # notice)
                      THEN Append(g.sent[c], notice) ELSE g.sent[c]]
<1>1. SendCharacterDetails(g, w) = [g EXCEPT !.sent = sent]
  BY DEF SendCharacterDetails
<1>2. \A c \in Clients : c \in recipients => IsRecipient(g, w, c)
  BY DEF IsRecipient
<1>3. notice \in Notice
  BY DEF Notice
<1>4. g.sent \in [Clients -> Seq(Notice)]
  BY GameFields DEF Streams
<1> HIDE DEF recipients, notice
<1>5. \A c \in Clients :
        \/ sent[c] = g.sent[c]
        \/ sent[c] = Append(g.sent[c], notice) /\ IsRecipient(g, w, c)
  BY <1>2
<1>6. \A c \in Clients : sent[c] \in Seq(Notice)
  BY <1>3, <1>4, <1>5
<1>7. sent \in Streams
  BY <1>6 DEF Streams
<1>8. DetailsSent(g, w, sent)
  BY <1>5, <1>7 DEF DetailsSent, notice
<1> HIDE DEF sent
<1> QED BY <1>1, <1>7, <1>8, SentUpdate DEF OnlySent

\* A character of player p has been placed in world w.
Placed(g, p, w, entity, h) ==
  LET id == g.player[p].id IN
    /\ h \in GameType
    /\ DetailsSent(g, w, h.sent)
    /\ h.player = [g.player EXCEPT ![p].char = entity]
    /\ h.listed = [g.listed EXCEPT ![w][id] = @ + 1]
    /\ h.entities = [g.entities EXCEPT ![w] = @ \union {[id |-> entity, owner |-> id]}]
    /\ h.nextEntity = g.nextEntity + 1

LEMMA PlaceCharacterMeans ==
  ASSUME NEW g \in GameType, NEW p \in Clients, NEW w \in Worlds, NEW entity \in Nat
  PROVE  Placed(g, p, w, entity, PlaceCharacter(g, p, w, entity))
<1> DEFINE id     == g.player[p].id
           ent    == [g.entities EXCEPT ![w] = @ \union {[id |-> entity, owner |-> id]}]
           next   == g.nextEntity + 1
           placed == [g EXCEPT !.entities = ent, !.nextEntity = next]
           sent   == SendCharacterDetails(placed, w)
           pl     == [g.player EXCEPT ![p].char = entity]
           li     == [g.listed EXCEPT ![w][id] = @ + 1]
<1>1. /\ g.player \in [Clients -> PlayerType] /\ g.listed \in Lists
      /\ g.entities \in Entities /\ g.nextEntity \in Nat
  BY GameFields
<1>2. id \in PlayerIds /\ g.player[p] \in PlayerType
  BY <1>1 DEF PlayerType
<1>3. ent \in Entities
  <2>1. [id |-> entity, owner |-> id] \in [id : Nat, owner : PlayerIds]
    BY <1>2
  <2> HIDE DEF id
  <2> QED BY <1>1, <2>1 DEF Entities
<1>4. /\ placed \in GameType /\ placed.entities = ent /\ placed.nextEntity = g.nextEntity + 1
      /\ placed.player = g.player /\ placed.listed = g.listed
      /\ placed.saved = g.saved /\ placed.sent = g.sent
  <2>1. next \in Nat /\ ent \in [Worlds -> SUBSET [id : Nat, owner : PlayerIds]]
    BY <1>1, <1>3 DEF Entities
  <2> HIDE DEF ent, next
  <2> QED BY <2>1 DEF GameType, next
<1>5. \A c \in Clients : IsRecipient(placed, w, c) <=> IsRecipient(g, w, c)
  <2>1. \A i : GetPlayerById(placed, i) = GetPlayerById(g, i)
    BY <1>4 DEF GetPlayerById, WithId
  <2>2. ListedIds(placed, w) = ListedIds(g, w)
    BY <1>4 DEF ListedIds
  <2> HIDE DEF placed
  <2> QED BY <1>4, <2>1, <2>2 DEF IsRecipient
<1> HIDE DEF placed
<1>6. /\ sent \in GameType /\ DetailsSent(placed, w, sent.sent)
      /\ sent.player = g.player /\ sent.listed = g.listed /\ sent.entities = ent
      /\ sent.nextEntity = g.nextEntity + 1 /\ sent.saved = g.saved
  BY <1>4, SendCharacterDetailsMeans DEF OnlySent
<1>7. DetailsSent(g, w, sent.sent)
  BY <1>4, <1>5, <1>6 DEF DetailsSent
<1>8. PlaceCharacter(g, p, w, entity) = [sent EXCEPT !.player = pl, !.listed = li]
  <2>1. PlaceCharacter(g, p, w, entity)
          = [sent EXCEPT !.player = [sent.player EXCEPT ![p].char = entity],
                         !.listed = [sent.listed EXCEPT ![w][id] = @ + 1]]
    BY DEF PlaceCharacter, placed
  <2> QED BY <1>6, <2>1
<1>9. pl \in [Clients -> PlayerType]
  <2>1. [g.player[p] EXCEPT !.char = entity] \in PlayerType
    BY <1>2 DEF PlayerType
  <2> QED BY <1>1, <2>1
<1>10. li \in Lists
  <2> HIDE DEF id
  <2> QED BY <1>1, <1>2 DEF Lists
<1> HIDE DEF sent, pl, li, ent, id
<1>11. [sent EXCEPT !.player = pl, !.listed = li] \in GameType
  BY <1>6, <1>9, <1>10 DEF GameType, Lists
<1>12. LET h == [sent EXCEPT !.player = pl, !.listed = li] IN
         /\ h.player = pl /\ h.listed = li /\ h.entities = sent.entities
         /\ h.nextEntity = sent.nextEntity /\ h.saved = sent.saved /\ h.sent = sent.sent
  BY <1>6 DEF GameType
<1> QED BY <1>6, <1>7, <1>8, <1>11, <1>12 DEF pl, li, ent, id, Placed

\* Player p has been added to world w: it belongs to the world, and either its
\* character is not there and nobody was told, or it is and everybody was.
Claimed(g, p, w) == [g.player EXCEPT ![p].world = w]

Added(g, p, w, entityId, h) ==
  LET id == g.player[p].id
      entity == IF entityId > 0 THEN entityId ELSE g.nextEntity
  IN  /\ h \in GameType
      /\ \/ /\ h.player = Claimed(g, p, w)
            /\ h.listed = g.listed /\ h.entities = g.entities
            /\ h.nextEntity = g.nextEntity /\ h.sent = g.sent
         \/ /\ h.player = [Claimed(g, p, w) EXCEPT ![p].char = entity]
            /\ h.listed = [g.listed EXCEPT ![w][id] = @ + 1]
            /\ h.entities = [g.entities EXCEPT ![w] = @ \union {[id |-> entity, owner |-> id]}]
            /\ h.nextEntity = g.nextEntity + 1
            /\ \E sent : /\ DetailsSent([g EXCEPT !.player = Claimed(g, p, w)], w, sent)
                         /\ h.sent = [sent EXCEPT ![p] = Append(@, <<"load", w>>)]

LEMMA AddPlayerMeans ==
  ASSUME NEW g \in GameType, NEW p \in Clients, NEW w \in Worlds, NEW entityId \in Nat,
         NEW outcome \in {"unsaved", "uncreated", "created"}
  PROVE  Added(g, p, w, entityId, AddPlayer(g, p, w, entityId, outcome))
<1> DEFINE id      == g.player[p].id
           entity  == IF entityId > 0 THEN entityId ELSE g.nextEntity
           cl      == [g.player EXCEPT ![p].world = w]
           sa      == [g.saved EXCEPT ![id] = w]
           claimed == [g EXCEPT !.player = cl]
           saved   == [claimed EXCEPT !.saved = sa]
           placed  == PlaceCharacter(saved, p, w, entity)
<1>1. /\ g.player \in [Clients -> PlayerType] /\ g.saved \in Saves /\ g.nextEntity \in Nat
  BY GameFields
<1>2. id \in PlayerIds /\ g.player[p] \in PlayerType /\ entity \in Nat
  BY <1>1 DEF PlayerType
<1>3. cl \in [Clients -> PlayerType]
  <2>1. [g.player[p] EXCEPT !.world = w] \in PlayerType
    BY <1>2 DEF PlayerType
  <2> QED BY <1>1, <2>1
<1>4. sa \in Saves
  <2> HIDE DEF id
  <2> QED BY <1>1, <1>2 DEF Saves
<1>5. cl[p].id = id
  BY <1>1, <1>2 DEF PlayerType
<1>6. AddPlayer(g, p, w, entityId, outcome) =
        CASE outcome = "unsaved"   -> claimed
          [] outcome = "uncreated" -> saved
          [] outcome = "created"   -> SendTo(placed, p, <<"load", w>>)
  BY DEF AddPlayer
<1> HIDE DEF cl, sa, id, entity
<1>7. /\ claimed \in GameType /\ claimed.player = cl /\ claimed.listed = g.listed
      /\ claimed.entities = g.entities /\ claimed.nextEntity = g.nextEntity
      /\ claimed.sent = g.sent /\ claimed.saved = g.saved
  BY <1>3 DEF GameType
<1>8. /\ saved \in GameType /\ saved.player = cl /\ saved.listed = g.listed
      /\ saved.entities = g.entities /\ saved.nextEntity = g.nextEntity /\ saved.sent = g.sent
  <2> HIDE DEF claimed
  <2> QED BY <1>4, <1>7 DEF GameType, Saves
<1>9. \A c \in Clients : IsRecipient(saved, w, c) => IsRecipient(claimed, w, c)
  <2>1. \A i : GetPlayerById(saved, i) = GetPlayerById(claimed, i)
    BY <1>7, <1>8 DEF GetPlayerById, WithId
  <2>2. ListedIds(saved, w) = ListedIds(claimed, w)
    BY <1>7, <1>8 DEF ListedIds
  <2> HIDE DEF saved, claimed
  <2> QED BY <1>7, <1>8, <2>1, <2>2 DEF IsRecipient
<1> HIDE DEF saved
<1>10. saved.player[p].id = id
  BY <1>5, <1>8
<1>11. Placed(saved, p, w, entity, placed)
  BY <1>2, <1>8, PlaceCharacterMeans
<1>12. /\ placed \in GameType
       /\ DetailsSent(saved, w, placed.sent)
       /\ placed.player = [cl EXCEPT ![p].char = entity]
       /\ placed.listed = [g.listed EXCEPT ![w][id] = @ + 1]
       /\ placed.entities = [g.entities EXCEPT ![w] = @ \union {[id |-> entity, owner |-> id]}]
       /\ placed.nextEntity = g.nextEntity + 1
  BY <1>8, <1>10, <1>11 DEF Placed
<1>13. DetailsSent(claimed, w, placed.sent)
  BY <1>7, <1>8, <1>9, <1>12 DEF DetailsSent
<1> HIDE DEF placed
<1>14. <<"load", w>> \in Notice
  BY DEF Notice
<1>15. SentTo(placed, p, <<"load", w>>, SendTo(placed, p, <<"load", w>>))
  BY <1>12, <1>14, SendToMeans
<1>16. cl = Claimed(g, p, w) /\ claimed = [g EXCEPT !.player = Claimed(g, p, w)]
  BY DEF Claimed, cl
<1> HIDE DEF claimed
<1>17. CASE outcome = "unsaved"
  BY <1>6, <1>7, <1>16, <1>17 DEF Added
<1>18. CASE outcome = "uncreated"
  BY <1>6, <1>8, <1>16, <1>18 DEF Added
<1>19. CASE outcome = "created"
  <2>1. AddPlayer(g, p, w, entityId, outcome) = SendTo(placed, p, <<"load", w>>)
    BY <1>6, <1>19
  <2> DEFINE h == SendTo(placed, p, <<"load", w>>)
  <2>2. \E sent : /\ DetailsSent([g EXCEPT !.player = Claimed(g, p, w)], w, sent)
                  /\ h.sent = [sent EXCEPT ![p] = Append(@, <<"load", w>>)]
    BY <1>13, <1>15, <1>16 DEF SentTo
  <2>3. /\ h \in GameType
        /\ h.player = [Claimed(g, p, w) EXCEPT ![p].char = entity]
        /\ h.listed = [g.listed EXCEPT ![w][id] = @ + 1]
        /\ h.entities = [g.entities EXCEPT ![w] = @ \union {[id |-> entity, owner |-> id]}]
        /\ h.nextEntity = g.nextEntity + 1
    BY <1>12, <1>15, <1>16 DEF OnlySent, SentTo
  <2> HIDE DEF h
  <2> QED BY <2>1, <2>2, <2>3 DEF Added, id, entity, h
<1> QED BY <1>17, <1>18, <1>19

\* Player p has left world w.
Left(g, w, p, h) ==
  /\ h \in GameType
  /\ h.player = [g.player EXCEPT ![p] = [@ EXCEPT !.world = NoWorld, !.char = 0]]
  /\ h.listed = [g.listed EXCEPT ![w][g.player[p].id] = 0]
  /\ h.entities = [g.entities EXCEPT ![w] = {e \in @ : e.id # g.player[p].char}]
  /\ h.nextEntity = g.nextEntity /\ h.sent = g.sent

LEMMA RemovePlayerMeans ==
  ASSUME TypeOK, NEW g \in GameType, NEW w \in Worlds, NEW id \in PlayerIds
  PROVE  \/ /\ RemovePlayer(g, w, id) = g
            /\ GetPlayerById(g, id) = {}
            /\ \A p \in Clients : InPlayers(p) => g.player[p].id # id
         \/ \E p \in Clients : /\ g.player[p].id = id /\ InPlayers(p)
                               /\ GetPlayerById(g, id) = {p}
                               /\ Left(g, w, p, RemovePlayer(g, w, id))
<1>1. CASE GetPlayerById(g, id) = {}
  <2>1. \A i \in DOMAIN players : players[i] \notin WithId(g, id)
    BY <1>1, GetPlayerByIdMeans
  <2> QED BY <1>1, <2>1 DEF RemovePlayer, InPlayers, WithId
<1>2. CASE GetPlayerById(g, id) # {}
  <2>1. PICK p \in Clients : /\ GetPlayerById(g, id) = {p} /\ g.player[p].id = id
                             /\ \E i \in DOMAIN players : players[i] = p
    BY <1>2, GetPlayerByIdMeans
  <2> DEFINE pl == [g.player EXCEPT ![p] = [@ EXCEPT !.world = NoWorld, !.char = 0]]
             li == [g.listed EXCEPT ![w][id] = 0]
             ent == [g.entities EXCEPT ![w] = {e \in @ : e.id # g.player[p].char}]
             h  == [g EXCEPT !.player = pl, !.listed = li, !.entities = ent]
  <2>2. /\ g.player \in [Clients -> PlayerType] /\ g.listed \in Lists /\ g.entities \in Entities
    BY GameFields
  <2>3. g.player[p] \in PlayerType
    BY <2>2
  <2>4. RemovePlayer(g, w, id) = h
    <3>1. (CHOOSE q \in {p} : TRUE) = p
      OBVIOUS
    <3>2. RemovePlayer(g, w, id) = [g EXCEPT !.listed = li, !.entities = ent, !.player = pl]
      <4> DEFINE q == CHOOSE q \in GetPlayerById(g, id) : TRUE
      <4>1. q = p
        BY <2>1, <3>1
      <4>2. RemovePlayer(g, w, id) =
              [g EXCEPT !.listed[w][id] = 0,
                        !.entities[w] = {e \in @ : e.id # g.player[q].char},
                        !.player[q] = [@ EXCEPT !.world = NoWorld, !.char = 0]]
        BY <1>2 DEF RemovePlayer
      <4> HIDE DEF q
      <4> QED BY <4>1, <4>2
    <3> HIDE DEF pl, li, ent
    <3> QED BY <3>2 DEF GameType
  <2>5. pl \in [Clients -> PlayerType]
    <3>1. [g.player[p] EXCEPT !.world = NoWorld, !.char = 0] \in PlayerType
      BY <2>3 DEF PlayerType
    <3> QED BY <2>2, <3>1
  <2>6. li \in [Worlds -> [PlayerIds -> Nat]]
    BY <2>2 DEF Lists
  <2>7. ent \in [Worlds -> SUBSET [id : Nat, owner : PlayerIds]]
    <3> DEFINE E == [id : Nat, owner : PlayerIds]
    <3>1. g.entities \in [Worlds -> SUBSET E]
      BY <2>2 DEF Entities
    <3> HIDE DEF E
    <3>2. {e \in g.entities[w] : e.id # g.player[p].char} \in SUBSET E
      BY <3>1
    <3>3. ent \in [Worlds -> SUBSET E]
      BY <3>1, <3>2
    <3> QED BY <3>3 DEF E
  <2> HIDE DEF pl, li, ent
  <2>8. /\ h \in GameType /\ h.player = pl /\ h.listed = li /\ h.entities = ent
        /\ h.nextEntity = g.nextEntity /\ h.sent = g.sent
    BY <2>5, <2>6, <2>7 DEF GameType
  <2>9. Left(g, w, p, h)
    BY <2>1, <2>8 DEF Left, pl, li, ent
  <2> QED BY <2>1, <2>4, <2>9 DEF InPlayers
<1> QED BY <1>1, <1>2

LEMMA TransferMeans ==
  ASSUME TypeOK, NEW g \in GameType, NEW w \in Worlds, NEW id \in PlayerIds, NEW entityId \in Nat,
         NEW destination \in Worlds \union {NoWorld},
         NEW outcome \in {"unsaved", "uncreated", "created"},
         NEW h, h = TransferPlayerToWorld(g, w, id, entityId, destination, outcome)
  PROVE  \/ h = g /\ \A p \in Clients : InPlayers(p) => g.player[p].id # id
         \/ \E p \in Clients, left \in GameType :
              /\ g.player[p].id = id /\ InPlayers(p)
              /\ Left(g, w, p, left)
              /\ \/ h = left
                 \/ destination \in Worlds /\ Added(left, p, destination, entityId, h)
<1> DEFINE left  == RemovePlayer(g, w, id)
           found == GetPlayerById(left, id)
<1>1. h = IF found = {} \/ destination = NoWorld THEN left
          ELSE AddPlayer(left, CHOOSE p \in found : TRUE, destination, entityId, outcome)
  BY DEF TransferPlayerToWorld
<1>2. CASE /\ left = g
           /\ GetPlayerById(g, id) = {}
           /\ \A p \in Clients : InPlayers(p) => g.player[p].id # id
  <2>1. found = {}
    BY <1>2
  <2> HIDE DEF left, found
  <2> QED BY <1>1, <1>2, <2>1
<1>3. ASSUME NEW p \in Clients, g.player[p].id = id, InPlayers(p),
             GetPlayerById(g, id) = {p}, Left(g, w, p, left)
      PROVE  /\ g.player[p].id = id /\ InPlayers(p)
             /\ Left(g, w, p, left) /\ left \in GameType
             /\ \/ h = left
                \/ destination \in Worlds /\ Added(left, p, destination, entityId, h)
  <2> HIDE DEF left
  <2>1. left \in GameType
    BY <1>3 DEF Left
  <2>2. g.player \in [Clients -> PlayerType]
    BY GameFields
  <2>3. \A c \in Clients : left.player[c].id = g.player[c].id
    BY <1>3, <2>2 DEF Left, PlayerType
  <2>4. WithId(left, id) = WithId(g, id)
    BY <2>3 DEF WithId
  <2>5. found = {p}
    BY <1>3, <2>4 DEF GetPlayerById
  <2>6. (CHOOSE q \in found : TRUE) = p
    BY <2>5
  <2> HIDE DEF found
  <2>7. CASE destination = NoWorld
    BY <1>1, <1>3, <2>1, <2>7
  <2>8. CASE destination # NoWorld
    <3>1. h = AddPlayer(left, p, destination, entityId, outcome)
      BY <1>1, <2>5, <2>6, <2>8
    <3>2. destination \in Worlds
      BY <2>8
    <3>3. Added(left, p, destination, entityId, h)
      BY <2>1, <3>1, <3>2, AddPlayerMeans
    <3> QED BY <1>3, <2>1, <3>2, <3>3
  <2> QED BY <2>7, <2>8
<1> QED BY <1>2, <1>3, RemovePlayerMeans

LEMMA PlayerUpdate ==
  ASSUME NEW g \in GameType, NEW c \in Clients, NEW player \in PlayerType
  PROVE  LET h == [g EXCEPT !.player[c] = player] IN
           /\ h \in GameType /\ h.player = [g.player EXCEPT ![c] = player]
           /\ h.sent = g.sent /\ h.listed = g.listed /\ h.entities = g.entities
           /\ h.nextEntity = g.nextEntity /\ h.saved = g.saved
<1> DEFINE pl == [g.player EXCEPT ![c] = player]
<1>1. pl \in [Clients -> PlayerType]
  BY GameFields
<1> HIDE DEF pl
<1>2. LET h == [g EXCEPT !.player = pl] IN
        /\ h \in GameType /\ h.player = pl
        /\ h.sent = g.sent /\ h.listed = g.listed /\ h.entities = g.entities
        /\ h.nextEntity = g.nextEntity /\ h.saved = g.saved
  BY <1>1 DEF GameType
<1> QED BY <1>2 DEF pl

-----------------------------------------------------------------------------
(***************************************************************************)
(* Type correctness.                                                       *)
(***************************************************************************)

Types == TypeOK /\ IdsSuffice

LEMMA GreatestElement ==
  ASSUME NEW n \in Nat, NEW S, S \subseteq 0..n, S # {}
  PROVE  Max(S) \in S /\ \A y \in S : y <= Max(S)
<1> DEFINE D == {n - x : x \in S}
<1>1. D \subseteq Nat /\ D # {}
  <2>1. \A x \in S : n - x \in Nat
    OBVIOUS
  <2>2. PICK x \in S : TRUE
    OBVIOUS
  <2>3. n - x \in D
    BY <2>2
  <2> QED BY <2>1, <2>3
<1>2. Min(D) \in D /\ \A y \in D : Min(D) <= y
  BY <1>1, LeastElement
<1>3. PICK x \in S : Min(D) = n - x
  BY <1>2
<1>4. \A y \in S : y <= x
  <2> SUFFICES ASSUME NEW y \in S PROVE y <= x
    OBVIOUS
  <2>1. n - y \in D
    OBVIOUS
  <2>2. n - x <= n - y
    BY <1>2, <1>3, <2>1
  <2> QED BY <2>2
<1> HIDE DEF D
<1> QED BY <1>4 DEF Max

LEMMA RemoveAtMeans ==
  ASSUME NEW S, NEW s \in Seq(S), NEW i \in DOMAIN s
  PROVE  /\ RemoveAt(s, i) \in Seq(S)
         /\ Len(RemoveAt(s, i)) = Len(s) - 1
         /\ \A j \in DOMAIN RemoveAt(s, i) :
              RemoveAt(s, i)[j] = IF j < i THEN s[j] ELSE s[j + 1]
<1> DEFINE before == SubSeq(s, 1, i - 1)
           after  == SubSeq(s, i + 1, Len(s))
<1>1. /\ before \in Seq(S) /\ Len(before) = i - 1
      /\ \A j \in DOMAIN before : before[j] = s[j]
  OBVIOUS
<1>2. /\ after \in Seq(S) /\ Len(after) = Len(s) - i
      /\ \A j \in DOMAIN after : after[j] = s[i + j]
  OBVIOUS
<1>3. RemoveAt(s, i) = before \o after
  BY DEF RemoveAt
<1> HIDE DEF before, after
<1>4. before \o after \in Seq(S) /\ Len(before \o after) = Len(s) - 1
  BY <1>1, <1>2
<1>5. ASSUME NEW j \in DOMAIN (before \o after)
      PROVE  (before \o after)[j] = IF j < i THEN s[j] ELSE s[j + 1]
  <2>1. CASE j < i
    BY <1>1, <1>2, <2>1
  <2>2. CASE ~ (j < i)
    <3>1. (before \o after)[j] = after[j - (i - 1)] /\ j - (i - 1) \in DOMAIN after
      BY <1>1, <1>2, <1>4, <2>2
    <3>2. i + (j - (i - 1)) = j + 1
      BY <1>4, <2>2
    <3> QED BY <1>2, <2>2, <3>1, <3>2
  <2> QED BY <2>1, <2>2
<1> QED BY <1>3, <1>4, <1>5

\* A new account's id is above all others, and there is room for one more.
LEMMA IdOfAccountMeans ==
  ASSUME Types, NEW a \in Accounts
  PROVE  /\ IdOfAccount(a) \in PlayerIds /\ IdOfAccount(a) > 0
         /\ savedId[a] > 0 => IdOfAccount(a) = savedId[a]
         /\ savedId[a] = 0 => \A b \in Accounts : savedId[b] < IdOfAccount(a)
         /\ LET s == [savedId EXCEPT ![a] = IdOfAccount(a)] IN
              /\ s \in [Accounts -> PlayerIds]
              /\ \A b \in Accounts : s[b] + Cardinality({d \in Accounts : s[d] = 0}) <= MaxId
<1> DEFINE new == {b \in Accounts : savedId[b] = 0}
<1>1. savedId \in [Accounts -> 0..MaxId] /\ MaxId \in Nat /\ IsFiniteSet(Accounts)
  BY SessionsAssumption DEF Types, TypeOK, PlayerIds, SessionsAssumption
<1>2. \A b \in Accounts : savedId[b] + Cardinality(new) <= MaxId
  BY DEF Types, IdsSuffice
<1>3. IsFiniteSet(new) /\ Cardinality(new) \in Nat
  BY <1>1, FS_Subset, FS_CardinalityType
<1>4. CASE savedId[a] > 0
  <2>1. IdOfAccount(a) = savedId[a]
    BY <1>4 DEF IdOfAccount
  <2>2. [savedId EXCEPT ![a] = savedId[a]] = savedId
    BY <1>1
  <2> QED BY <1>1, <1>2, <1>4, <2>1, <2>2 DEF PlayerIds
<1>5. CASE savedId[a] = 0
  <2> DEFINE ids == {savedId[b] : b \in Accounts} \union {0}
             Top(m) == /\ m = 0 \/ \E b \in Accounts : savedId[b] = m
                       /\ \A b \in Accounts : savedId[b] <= m
             m == CHOOSE m \in PlayerIds : Top(m)
  <2>1. ids \subseteq 0..MaxId /\ ids # {}
    BY <1>1
  <2>2. Max(ids) \in ids /\ \A y \in ids : y <= Max(ids)
    BY <1>1, <2>1, GreatestElement
  <2>3. Max(ids) \in PlayerIds /\ Top(Max(ids))
    BY <2>1, <2>2 DEF PlayerIds
  <2>4. m \in PlayerIds /\ Top(m)
    BY <2>3
  <2>5. IdOfAccount(a) = 1 + m
    BY <1>1, <1>5 DEF IdOfAccount
  <2> HIDE DEF m, ids
  <2> DEFINE s == [savedId EXCEPT ![a] = 1 + m]
  <2>6. /\ Cardinality(new \ {a}) = Cardinality(new) - 1
        /\ Cardinality(new \ {a}) \in Nat
    <3>1. a \in new
      BY <1>5
    <3> HIDE DEF new
    <3> QED BY <1>3, <3>1, FS_RemoveElement, FS_CardinalityType
  <2>7. m + Cardinality(new) <= MaxId
    BY <1>1, <1>2, <1>5, <2>4 DEF PlayerIds
  <2>8. {d \in Accounts : s[d] = 0} = new \ {a}
    BY <1>1, <1>5, <2>4 DEF PlayerIds
  <2>9. 1 + m \in PlayerIds /\ 1 + m > 0
    BY <1>1, <1>3, <2>4, <2>6, <2>7 DEF PlayerIds
  <2>10. s \in [Accounts -> PlayerIds]
    BY <1>1, <2>9 DEF PlayerIds
  <2>11. \A b \in Accounts : s[b] + Cardinality(new \ {a}) <= MaxId
    BY <1>1, <1>2, <1>3, <2>4, <2>6, <2>7 DEF PlayerIds
  <2> HIDE DEF new
  <2> QED BY <1>1, <1>5, <2>4, <2>5, <2>8, <2>9, <2>10, <2>11 DEF PlayerIds
<1> QED BY <1>1, <1>4, <1>5

\* A client puts an id in its datagrams that it was told.
LEMMA ToldIdMeans ==
  ASSUME TypeOK, NEW c \in Clients, Told(c, "details")
  PROVE  /\ ToldId(c) \in PlayerIds
         /\ \E i \in DOMAIN game.sent[c] :
              game.sent[c][i][1] = "details" /\ game.sent[c][i][2] = ToldId(c)
<1> DEFINE s  == game.sent[c]
           at == {i \in DOMAIN s : s[i][1] = "details"}
<1>1. s \in Seq(Notice)
  BY GameFields DEF TypeOK, Streams
<1>2. at # {} /\ at \subseteq 0..Len(s) /\ Len(s) \in Nat
  BY <1>1 DEF Told
<1>3. Max(at) \in at
  BY <1>2, GreatestElement
<1> DEFINE m == Max(at)
           n == s[m]
<1>4. m \in DOMAIN s /\ n[1] = "details"
  <2> HIDE DEF m
  <2> QED BY <1>3 DEF m
<1>5. n \in Notice
  <2> HIDE DEF m, s
  <2> QED BY <1>1, <1>4
<1> HIDE DEF n
<1>6. n \in {<<"hash">>} \union ({"details"} \X PlayerIds) \union ({"load", "char"} \X Worlds)
  BY <1>5 DEF Notice
<1>7. n \in {"details"} \X PlayerIds
  BY <1>4, <1>6
<1>8. n[2] \in PlayerIds
  BY <1>7
<1>9. ToldId(c) = n[2]
  BY DEF ToldId, n
<1> HIDE DEF m, s
<1> QED BY <1>4, <1>8, <1>9 DEF n, s

Unknown == {c \in Clients : status[c] = "unknown"}

LEMMA InitTypes == Init => Types
<1> SUFFICES ASSUME Init PROVE Types
  OBVIOUS
<1> USE SessionsAssumption DEF SessionsAssumption
<1>1. Feed!FeedTypeOK
  BY DEF Init, Feed!FeedInit, Feed!FeedTypeOK, Feed!Phases, Feed!Statuses
<1>2. game \in GameType
  <2>1. [id |-> 0, addr |-> NoAddress, ready |-> FALSE, world |-> NoWorld, char |-> 0] \in PlayerType
    BY DEF PlayerType, PlayerIds, Addresses
  <2>2. \A c \in Clients : <<>> \in Seq(Notice)
    OBVIOUS
  <2> HIDE DEF PlayerType
  <2> QED BY <2>1, <2>2 DEF Init, GameType, PlayerIds
<1>3. /\ written \in [Clients -> Seq(TcpMessages)] /\ port \in [Clients -> 0..MaxRebinds]
      /\ idCount \in PlayerIds /\ savedId \in [Accounts -> PlayerIds]
      /\ unauthenticated \in Seq(Clients) /\ players \in Seq(Clients \union {Dangling})
      /\ warps \in 0..MaxWarps
  BY DEF Init, PlayerIds
<1>4. Cardinality({c \in Clients : status[c] = "unknown"}) = Cardinality(Clients)
  <2>1. {c \in Clients : status[c] = "unknown"} = Clients
    BY DEF Init, Feed!FeedInit
  <2> QED BY <2>1
<1>5. IdsSuffice
  <2>1. Cardinality(Clients) \in Nat
    BY FS_CardinalityType
  <2> QED BY <1>4, <2>1 DEF Init, IdsSuffice
<1> QED BY <1>1, <1>2, <1>3, <1>5 DEF Init, Types, TypeOK

LEMMA FeedStepTypes ==
  ASSUME Feed!FeedTypeOK,
         \/ Feed!BeginBatch \/ Feed!BeginRemoves \/ Feed!BeginPackets \/ Feed!EndBatch
         \/ \E c \in Clients : Feed!HandAdd(c) \/ Feed!HandRemove(c) \/ Feed!HandPacket(c)
  PROVE  /\ Feed!FeedTypeOK'
         /\ \/ \A c \in Clients : status'[c] = "unknown" <=> status[c] = "unknown"
            \/ \E c \in Clients : Feed!HandAdd(c)
<1> USE DEF Feed!FeedTypeOK, Feed!Phases, Feed!Statuses
<1>1. CASE Feed!BeginBatch \/ Feed!BeginRemoves \/ Feed!BeginPackets
  BY <1>1 DEF Feed!BeginBatch, Feed!BeginRemoves, Feed!BeginPackets
<1>2. CASE Feed!EndBatch
  BY <1>2 DEF Feed!EndBatch
<1>3. ASSUME NEW c \in Clients, Feed!HandAdd(c)
      PROVE  Feed!FeedTypeOK'
  BY <1>3 DEF Feed!HandAdd
<1>4. ASSUME NEW c \in Clients, Feed!HandRemove(c)
      PROVE  Feed!FeedTypeOK' /\ \A d \in Clients : status'[d] = "unknown" <=> status[d] = "unknown"
  BY <1>4 DEF Feed!HandRemove
<1>5. ASSUME NEW c \in Clients, Feed!HandPacket(c)
      PROVE  Feed!FeedTypeOK' /\ UNCHANGED status
  BY <1>5, SessionsAssumption DEF Feed!HandPacket, SessionsAssumption
<1> QED BY <1>1, <1>2, <1>3, <1>4, <1>5

LEMMA ClientStepTypes == Types /\ ClientStep => Types'
<1> SUFFICES ASSUME Types, ClientStep PROVE Types'
  OBVIOUS
<1> USE DEF Types
<1>1. /\ connected \subseteq Clients /\ written \in [Clients -> Seq(TcpMessages)]
      /\ port \in [Clients -> 0..MaxRebinds] /\ datagrams \subseteq [id : PlayerIds, addr : Addresses]
  BY DEF TypeOK
<1> DEFINE ClientTypes == /\ connected' \subseteq Clients /\ written' \in [Clients -> Seq(TcpMessages)]
                          /\ port' \in [Clients -> 0..MaxRebinds]
                          /\ datagrams' \subseteq [id : PlayerIds, addr : Addresses]
<1>2. ASSUME NEW c \in Clients, Connect(c) PROVE ClientTypes
  BY <1>1, <1>2 DEF Connect
<1>3. ASSUME NEW c \in Clients, WriteUdpTest(c) PROVE ClientTypes
  <2>1. ToldId(c) \in PlayerIds
    BY <1>3, ToldIdMeans DEF WriteUdpTest
  <2>2. <<c, port[c]>> \in Addresses
    BY <1>1 DEF Addresses
  <2> DEFINE addr == <<c, port[c]>>
             d    == [id |-> ToldId(c), addr |-> addr]
  <2>3. d \in [id : PlayerIds, addr : Addresses]
    <3> HIDE DEF addr
    <3> QED BY <2>1, <2>2 DEF addr
  <2>4. /\ datagrams' = datagrams \union {d}
        /\ UNCHANGED <<connected, written, port>>
    BY <1>3 DEF WriteUdpTest
  <2> HIDE DEF d
  <2> QED BY <1>1, <2>3, <2>4
<1>4. ASSUME NEW c \in Clients, Rebind(c) PROVE ClientTypes
  BY <1>1, <1>4, SessionsAssumption DEF Rebind, SessionsAssumption
<1>5. ASSUME NEW c \in Clients, NEW m \in TcpMessages, WriteTcp(c, m) PROVE ClientTypes
  BY <1>1, <1>5 DEF WriteTcp
<1>6. ClientTypes
  BY <1>2, <1>3, <1>4, <1>5 DEF ClientStep
<1> HIDE DEF ClientTypes
<1>7. UNCHANGED <<phase, status, handed, idCount, savedId, unauthenticated, players, game, nullDereferenced, warps>>
  BY DEF ClientStep, feedVars, listVars
<1> QED BY <1>6, <1>7 DEF ClientTypes, TypeOK, IdsSuffice, Feed!FeedTypeOK

LEMMA BatchTypes == Types /\ Batch => Types'
<1> SUFFICES ASSUME Types, Batch PROVE Types'
  OBVIOUS
<1>1. Feed!FeedTypeOK
  BY DEF Types, TypeOK
<1>2. /\ Feed!FeedTypeOK'
      /\ \/ \A c \in Clients : status'[c] = "unknown" <=> status[c] = "unknown"
         \/ \E c \in Clients : Feed!HandAdd(c)
  BY <1>1, FeedStepTypes DEF Batch
<1>3. ~ \E c \in Clients : Feed!HandAdd(c)
  BY DEF Batch, Feed!BeginBatch, Feed!BeginRemoves, Feed!BeginPackets, Feed!EndBatch, Feed!HandAdd
<1>4. Unknown' = Unknown
  BY <1>2, <1>3 DEF Unknown
<1>5. UNCHANGED <<connected, written, port, datagrams, idCount, savedId, unauthenticated,
                  players, game, nullDereferenced, warps>>
  BY DEF Batch, clientVars, listVars
<1>6. IdsSuffice'
  BY <1>4, <1>5 DEF Types, IdsSuffice, Unknown
<1> QED BY <1>2, <1>5, <1>6 DEF Types, TypeOK

LEMMA OnClientAddTypes ==
  ASSUME Types, NEW c \in Clients, OnClientAdd(c)
  PROVE  Types' /\ idCount' <= Cardinality(Clients)
<1>1. /\ idCount \in Nat /\ Cardinality(Clients) \in Nat /\ IsFiniteSet(Clients)
      /\ MaxId \in Nat /\ Cardinality(Clients) <= MaxId
  BY SessionsAssumption, FS_CardinalityType DEF Types, TypeOK, PlayerIds, SessionsAssumption
<1>2. /\ c \in Unknown /\ Unknown' = Unknown \ {c} /\ Feed!FeedTypeOK'
  BY FeedStepTypes DEF OnClientAdd, Types, TypeOK, Feed!HandAdd, Feed!FeedTypeOK, Unknown
<1>3. IsFiniteSet(Unknown)
  BY <1>1, FS_Subset DEF Unknown
<1>4. /\ Cardinality(Unknown) \in Nat /\ Cardinality(Unknown') \in Nat
      /\ Cardinality(Unknown') = Cardinality(Unknown) - 1
  <2>1. /\ Cardinality(Unknown \ {c}) = Cardinality(Unknown) - 1 /\ IsFiniteSet(Unknown \ {c})
    BY <1>2, <1>3, FS_RemoveElement
  <2> QED BY <1>2, <1>3, <2>1, FS_CardinalityType
<1>5. idCount + Cardinality(Unknown) <= Cardinality(Clients)
  BY DEF Types, IdsSuffice, Unknown
<1>6. idCount' = idCount + 1
  BY DEF OnClientAdd
<1>7. /\ idCount' + Cardinality(Unknown') <= Cardinality(Clients)
      /\ idCount' <= Cardinality(Clients) /\ idCount' \in PlayerIds
  BY <1>1, <1>4, <1>5, <1>6 DEF PlayerIds
<1>8. game' \in GameType
  <2>1. game \in GameType /\ game.player[c] \in PlayerType
    BY GameFields DEF Types, TypeOK
  <2>2. [game.player[c] EXCEPT !.id = idCount'] \in PlayerType
    BY <1>7, <2>1 DEF PlayerType
  <2>3. game' = [game EXCEPT !.player[c] = [game.player[c] EXCEPT !.id = idCount']]
    BY <1>6 DEF OnClientAdd
  <2> QED BY <2>1, <2>2, <2>3, PlayerUpdate
<1>9. unauthenticated' \in Seq(Clients)
  BY DEF OnClientAdd, Types, TypeOK
<1>10. UNCHANGED <<connected, written, port, datagrams, savedId, players, nullDereferenced, warps>>
  BY DEF OnClientAdd, clientVars
<1>11. IdsSuffice'
  BY <1>7, <1>10 DEF Types, IdsSuffice, Unknown
<1> QED BY <1>2, <1>7, <1>8, <1>9, <1>10, <1>11 DEF Types, TypeOK

LEMMA OnClientRemoveTypes ==
  ASSUME Types, NEW c \in Clients, OnClientRemove(c)
  PROVE  Types'
<1> DEFINE i == FirstOf(players, {c})
<1>1. /\ players \in Seq(Clients \union {Dangling}) /\ game \in GameType
      /\ game.player[c] \in PlayerType
  BY GameFields DEF Types, TypeOK
<1>2. Feed!FeedTypeOK' /\ Unknown' = Unknown
  BY FeedStepTypes DEF OnClientRemove, Types, TypeOK, Feed!HandRemove, Feed!FeedTypeOK, Unknown
<1>3. players' \in Seq(Clients \union {Dangling})
  <2>1. i = 0 \/ i \in DOMAIN players
    BY <1>1, FirstOfMeans
  <2>2. players' = IF i = 0 THEN players ELSE RemoveAt(players, i)
    BY DEF OnClientRemove
  <2> HIDE DEF i
  <2> QED BY <1>1, <2>1, <2>2, RemoveAtMeans
<1>4. game' \in GameType
  <2> DEFINE w == game.player[c].world
             id == game.player[c].id
  <2>1. game' = game \/ (w # NoWorld /\ game' = RemovePlayer(game, w, id))
    BY DEF OnClientRemove
  <2>2. id \in PlayerIds /\ (w # NoWorld => w \in Worlds)
    BY <1>1 DEF PlayerType
  <2> HIDE DEF w, id
  <2>3. ASSUME w \in Worlds PROVE RemovePlayer(game, w, id) \in GameType
    BY <1>1, <2>2, <2>3, RemovePlayerMeans DEF Left, Types
  <2> QED BY <1>1, <2>1, <2>2, <2>3
<1>5. UNCHANGED <<connected, written, port, datagrams, idCount, savedId, unauthenticated,
                  nullDereferenced, warps>>
  BY DEF OnClientRemove, clientVars
<1>6. IdsSuffice'
  BY <1>2, <1>5 DEF Types, IdsSuffice, Unknown
<1> QED BY <1>2, <1>3, <1>4, <1>5, <1>6 DEF Types, TypeOK

\* After the push there is a player or a dangling pointer at the end.
LEMMA PushedAfterEraseTypes ==
  ASSUME NEW list \in Seq(Clients), NEW i \in Nat, i = 0 \/ i \in DOMAIN list, NEW p \in Clients
  PROVE  PushedAfterErase(list, i, p) \in Clients \union {Dangling}
BY DEF PushedAfterErase

\* What the handlers of a TCP packet share.
TcpTypes ==
  /\ game \in GameType /\ players \in Seq(Clients \union {Dangling})
  /\ unauthenticated \in Seq(Clients) /\ idCount \in PlayerIds
  /\ savedId \in [Accounts -> PlayerIds] /\ nullDereferenced \in BOOLEAN
  /\ \A a \in Accounts : savedId[a] + Cardinality({b \in Accounts : savedId[b] = 0}) <= MaxId

\* The game of a player that has logged in, told its id.
LoggedIn(p, id, h) ==
  /\ h \in GameType
  /\ h.player = [game.player EXCEPT ![p] = [@ EXCEPT !.ready = TRUE, !.id = id]]
  /\ h.sent = [game.sent EXCEPT ![p] = Append(@, <<"details", id>>)]
  /\ h.listed = game.listed /\ h.entities = game.entities /\ h.nextEntity = game.nextEntity

LEMMA LoggedInMeans ==
  ASSUME TypeOK, NEW p \in Clients, NEW id \in PlayerIds
  PROVE  LET g == [game EXCEPT !.player[p] = [@ EXCEPT !.ready = TRUE, !.id = id]]
         IN  /\ LoggedIn(p, id, SendTo(g, p, <<"details", id>>))
             /\ g.player = [game.player EXCEPT ![p] = [@ EXCEPT !.ready = TRUE, !.id = id]]
<1> DEFINE pl == [game.player[p] EXCEPT !.ready = TRUE, !.id = id]
           g  == [game EXCEPT !.player[p] = pl]
<1>1. game \in GameType /\ game.player[p] \in PlayerType
  BY GameFields DEF TypeOK
<1>2. pl \in PlayerType
  BY <1>1 DEF PlayerType
<1>3. <<"details", id>> \in Notice
  <2>1. <<"details", id>> \in {"details"} \X PlayerIds
    OBVIOUS
  <2> QED BY <2>1 DEF Notice
<1> HIDE DEF pl
<1>4. /\ g \in GameType /\ g.player = [game.player EXCEPT ![p] = pl]
      /\ g.sent = game.sent /\ g.listed = game.listed /\ g.entities = game.entities
      /\ g.nextEntity = game.nextEntity
  BY <1>1, <1>2, PlayerUpdate
<1> HIDE DEF g
<1>5. SentTo(g, p, <<"details", id>>, SendTo(g, p, <<"details", id>>))
  BY <1>3, <1>4, SendToMeans
<1>6. LoggedIn(p, id, SendTo(g, p, <<"details", id>>))
  BY <1>4, <1>5 DEF LoggedIn, SentTo, OnlySent, pl
<1> QED BY <1>4, <1>6 DEF g, pl

LEMMA AuthenticateTypes ==
  ASSUME Types, NEW p \in Clients, HandlePlayerAuthenticate(p)
  PROVE  TcpTypes'
<1> DEFINE id == IdOfAccount(AccountOf[p])
           g  == [game EXCEPT !.player[p] = [@ EXCEPT !.ready = TRUE, !.id = id]]
           i  == FirstOf(unauthenticated, WithId(g, id))
<1>1. AccountOf[p] \in Accounts /\ unauthenticated \in Seq(Clients)
      /\ players \in Seq(Clients \union {Dangling})
  BY SessionsAssumption DEF SessionsAssumption, Types, TypeOK
<1>2. /\ id \in PlayerIds
      /\ LET s == [savedId EXCEPT ![AccountOf[p]] = id] IN
           /\ s \in [Accounts -> PlayerIds]
           /\ \A b \in Accounts : s[b] + Cardinality({d \in Accounts : s[d] = 0}) <= MaxId
  BY <1>1, IdOfAccountMeans
<1>3. /\ savedId' = [savedId EXCEPT ![AccountOf[p]] = id]
      /\ game' = SendTo(g, p, <<"details", id>>)
      /\ unauthenticated' = IF i = 0 THEN unauthenticated ELSE RemoveAt(unauthenticated, i)
      /\ players' = Append(players, PushedAfterErase(unauthenticated, i, p))
      /\ UNCHANGED <<idCount, nullDereferenced>>
  BY DEF HandlePlayerAuthenticate
<1> HIDE DEF id
<1>4. LoggedIn(p, id, SendTo(g, p, <<"details", id>>))
  BY <1>2, LoggedInMeans DEF Types
<1> HIDE DEF g
<1>5. i = 0 \/ i \in DOMAIN unauthenticated
  BY <1>1, FirstOfMeans
<1> HIDE DEF i
<1>6. unauthenticated' \in Seq(Clients)
  BY <1>1, <1>3, <1>5, RemoveAtMeans
<1>7. PushedAfterErase(unauthenticated, i, p) \in Clients \union {Dangling}
  BY <1>1, <1>5, PushedAfterEraseTypes
<1> HIDE DEF i
<1>8. players' \in Seq(Clients \union {Dangling})
  BY <1>1, <1>3, <1>7
<1> QED BY <1>2, <1>3, <1>4, <1>6, <1>8 DEF TcpTypes, LoggedIn, Types, TypeOK

LEMMA AuthenticateFailsTypes ==
  ASSUME Types, NEW p \in Clients, AuthenticateFails(p)
  PROVE  TcpTypes'
<1>1. AccountOf[p] \in Accounts
  BY SessionsAssumption DEF SessionsAssumption
<1>2. CASE UNCHANGED savedId
  BY <1>2 DEF AuthenticateFails, TcpTypes, Types, TypeOK, IdsSuffice
<1>3. CASE savedId' = [savedId EXCEPT ![AccountOf[p]] = IdOfAccount(AccountOf[p])]
  BY <1>1, <1>3, IdOfAccountMeans DEF AuthenticateFails, TcpTypes, Types, TypeOK
<1> QED BY <1>2, <1>3 DEF AuthenticateFails

LEMMA HashTypes ==
  ASSUME Types, NEW p \in Clients, HandleRequestHashedPassword(p)
  PROVE  TcpTypes'
<1>1. <<"hash">> \in Notice
  BY DEF Notice
<1>2. game' \in GameType
  <2>1. game \in GameType
    BY DEF Types, TypeOK
  <2>2. SentTo(game, p, <<"hash">>, SendTo(game, p, <<"hash">>))
    BY <1>1, <2>1, SendToMeans
  <2> QED BY <2>1, <2>2 DEF HandleRequestHashedPassword, SentTo, OnlySent
<1> QED BY <1>2 DEF HandleRequestHashedPassword, listVars, TcpTypes, Types, TypeOK, IdsSuffice

LEMMA WorldLoadedTypes ==
  ASSUME Types, NEW p \in Clients, HandleWorldLoaded(p)
  PROVE  TcpTypes'
<1> DEFINE w == game.player[p].world
<1>1. game \in GameType /\ w \in Worlds \union {NoWorld}
  BY GameFields DEF Types, TypeOK, PlayerType
<1>2. /\ game' = IF w = NoWorld THEN game ELSE SendCharacterDetails(game, w)
      /\ nullDereferenced' \in BOOLEAN
  BY DEF HandleWorldLoaded
<1> HIDE DEF w
<1>3. game' \in GameType
  BY <1>1, <1>2, SendCharacterDetailsMeans DEF OnlySent
<1> QED BY <1>2, <1>3 DEF HandleWorldLoaded, listVars, TcpTypes, Types, TypeOK, IdsSuffice

\* One packet of c, if any player is found: it is c's own.
HandleTcp(c, m) ==
  CASE m = "requestHash" -> HandleRequestHashedPassword(c)
    [] m = "auth"        -> HandlePlayerAuthenticate(c) \/ AuthenticateFails(c)
    [] m = "loaded"      -> HandleWorldLoaded(c)

LEMMA OnReceiveTcpMeans ==
  ASSUME TypeOK, NEW c \in Clients, OnReceiveTcp(c)
  PROVE  /\ ~Crashed /\ handed[c] < Len(written[c]) /\ Feed!HandPacket(c)
         /\ UNCHANGED <<connected, written, port, datagrams, warps>>
         /\ written[c][handed[c] + 1] \in TcpMessages
         /\ \/ UNCHANGED <<idCount, savedId, unauthenticated, players, game, nullDereferenced>>
            \/ /\ HandleTcp(c, written[c][handed[c] + 1])
               /\ \/ InPlayers(c)
                  \/ ~InPlayers(c) /\ \E i \in DOMAIN unauthenticated : unauthenticated[i] = c
<1> DEFINE m == written[c][handed[c] + 1]
<1>1. \A p \in FindPlayer({c}) :
        /\ p = c
        /\ \/ InPlayers(c)
           \/ ~InPlayers(c) /\ \E i \in DOMAIN unauthenticated : unauthenticated[i] = c
  BY FindPlayerMeans DEF InPlayers
<1>2. m \in TcpMessages
  <2>1. written[c] \in Seq(TcpMessages) /\ handed[c] \in Nat
    BY DEF TypeOK, Feed!FeedTypeOK
  <2>2. handed[c] + 1 \in DOMAIN written[c]
    BY <2>1 DEF OnReceiveTcp
  <2> QED BY <2>1, <2>2
<1>3. /\ ~Crashed /\ handed[c] < Len(written[c]) /\ Feed!HandPacket(c)
      /\ UNCHANGED <<connected, written, port, datagrams, warps>>
  BY DEF OnReceiveTcp, clientVars
<1>4. \/ UNCHANGED <<idCount, savedId, unauthenticated, players, game, nullDereferenced>>
      \/ \E p \in FindPlayer({c}) : HandleTcp(p, m)
  BY DEF OnReceiveTcp, listVars, HandleTcp
<1> HIDE DEF m
<1> QED BY <1>1, <1>2, <1>3, <1>4 DEF m

LEMMA OnReceiveTcpTypes ==
  ASSUME Types, NEW c \in Clients, OnReceiveTcp(c)
  PROVE  Types'
<1> DEFINE m == written[c][handed[c] + 1]
<1>1. /\ Feed!HandPacket(c) /\ m \in TcpMessages
      /\ UNCHANGED <<connected, written, port, datagrams, warps>>
      /\ \/ UNCHANGED <<idCount, savedId, unauthenticated, players, game, nullDereferenced>>
         \/ HandleTcp(c, m)
  BY OnReceiveTcpMeans DEF Types
<1>2. Feed!FeedTypeOK' /\ Unknown' = Unknown
  <2>1. Feed!FeedTypeOK' /\ UNCHANGED status
    BY <1>1, FeedStepTypes DEF Types, TypeOK, Feed!HandPacket
  <2> QED BY <2>1 DEF Unknown
<1>3. TcpTypes'
  <2>1. CASE UNCHANGED <<idCount, savedId, unauthenticated, players, game, nullDereferenced>>
    BY <2>1 DEF TcpTypes, Types, TypeOK, IdsSuffice
  <2>2. CASE HandleTcp(c, m)
    <3> HIDE DEF m
    <3> QED BY <1>1, <2>2, HashTypes, AuthenticateTypes, AuthenticateFailsTypes, WorldLoadedTypes
            DEF HandleTcp, TcpMessages
  <2> QED BY <1>1, <2>1, <2>2
<1>4. idCount' = idCount
  <2>1. ASSUME HandleTcp(c, m) PROVE idCount' = idCount
    <3> HIDE DEF m
    <3> QED BY <1>1, <2>1 DEF HandleTcp, TcpMessages, HandleRequestHashedPassword,
               HandlePlayerAuthenticate, AuthenticateFails, HandleWorldLoaded, listVars
  <2> QED BY <1>1, <2>1
<1>5. IdsSuffice'
  BY <1>2, <1>3, <1>4 DEF Types, IdsSuffice, Unknown, TcpTypes
<1> QED BY <1>1, <1>2, <1>3, <1>5 DEF Types, TypeOK, TcpTypes

\* The player a datagram leads to has its address, and the world added it or not.
UdpTested(p, addr, h) ==
  \E g \in GameType :
    /\ g.player = [game.player EXCEPT ![p].addr = addr]
    /\ g.sent = game.sent /\ g.listed = game.listed /\ g.entities = game.entities
    /\ g.nextEntity = game.nextEntity /\ g.saved = game.saved
    /\ h = g \/ \E w \in Worlds : Added(g, p, w, 0, h)

LEMMA OnReceiveUdpTestMeans ==
  ASSUME TypeOK, NEW d \in datagrams, OnReceiveUdpTest(d)
  PROVE  /\ ~Crashed
         /\ UNCHANGED <<feedVars, clientVars, listVars, nullDereferenced, warps>>
         /\ \E p \in Clients :
              /\ IdOf(p) = d.id /\ game.player[p].addr # d.addr
              /\ \/ InPlayers(p)
                 \/ /\ \A q \in Clients : IdOf(q) = d.id => ~InPlayers(q)
                    /\ \E i \in DOMAIN unauthenticated : unauthenticated[i] = p
              /\ UdpTested(p, d.addr, game')
<1>1. PICK p \in FindPlayer(WithId(game, d.id)) :
        /\ game.player[p].addr # d.addr
        /\ LET g    == [game EXCEPT !.player[p].addr = d.addr]
               last == game.saved[game.player[p].id]
               w    == IF last = NoWorld THEN StartingWorld ELSE last
           IN \/ \E outcome \in Outcomes : game' = AddPlayer(g, p, w, 0, outcome)
              \/ Faults /\ game' = g
  BY DEF OnReceiveUdpTest
<1>2. /\ p \in Clients /\ IdOf(p) = d.id
      /\ \/ InPlayers(p)
         \/ /\ \A q \in Clients : IdOf(q) = d.id => ~InPlayers(q)
            /\ \E i \in DOMAIN unauthenticated : unauthenticated[i] = p
  BY <1>1, FindPlayerMeans DEF WithId, InPlayers, IdOf
<1> DEFINE pl   == [game.player[p] EXCEPT !.addr = d.addr]
           g    == [game EXCEPT !.player[p] = pl]
           last == game.saved[game.player[p].id]
           w    == IF last = NoWorld THEN StartingWorld ELSE last
<1>3. game \in GameType /\ game.player[p] \in PlayerType /\ game.saved \in Saves
  BY <1>2, GameFields DEF TypeOK
<1>4. d.addr \in Addresses
  BY DEF TypeOK
<1>5. pl \in PlayerType
  BY <1>3, <1>4 DEF PlayerType
<1>6. w \in Worlds
  <2>1. game.player[p].id \in PlayerIds
    BY <1>3 DEF PlayerType
  <2>2. last \in Worlds \union {NoWorld}
    BY <1>3, <2>1 DEF Saves
  <2> QED BY <2>2, SessionsAssumption DEF SessionsAssumption
<1>7. (\E outcome \in Outcomes : game' = AddPlayer(g, p, w, 0, outcome)) \/ game' = g
  BY <1>1
<1>8. Outcomes \subseteq {"unsaved", "uncreated", "created"}
  BY DEF Outcomes
<1> HIDE DEF pl, w
<1>9. /\ g \in GameType /\ g.player = [game.player EXCEPT ![p] = pl]
      /\ g.sent = game.sent /\ g.listed = game.listed /\ g.entities = game.entities
      /\ g.nextEntity = game.nextEntity /\ g.saved = game.saved
  BY <1>2, <1>3, <1>5, PlayerUpdate
<1> HIDE DEF g
<1>10. game' = g \/ \E v \in Worlds : Added(g, p, v, 0, game')
  BY <1>2, <1>6, <1>7, <1>8, <1>9, AddPlayerMeans
<1>11. UdpTested(p, d.addr, game')
  BY <1>9, <1>10 DEF UdpTested, pl
<1>12. ~Crashed /\ UNCHANGED <<feedVars, clientVars, listVars, nullDereferenced, warps>>
  BY DEF OnReceiveUdpTest
<1> QED BY <1>1, <1>2, <1>11, <1>12

LEMMA OnReceiveUdpTestTypes ==
  ASSUME Types, NEW d \in datagrams, OnReceiveUdpTest(d)
  PROVE  Types'
<1>1. /\ UNCHANGED <<feedVars, clientVars, listVars, nullDereferenced, warps>>
      /\ \E p \in Clients : UdpTested(p, d.addr, game')
  BY OnReceiveUdpTestMeans DEF Types
<1>2. game' \in GameType
  BY <1>1 DEF UdpTested, Added
<1> QED BY <1>1, <1>2 DEF Types, TypeOK, IdsSuffice, Feed!FeedTypeOK, feedVars, clientVars, listVars

LEMMA WarpPlayerMeans ==
  ASSUME TypeOK, NEW w \in Worlds, NEW v \in Destinations, NEW e \in game.entities[w],
         WarpPlayer(w, e, v)
  PROVE  /\ ~Crashed /\ phase = "idle" /\ v # w /\ warps < MaxWarps /\ warps' = warps + 1
         /\ UNCHANGED <<feedVars, clientVars, listVars, nullDereferenced>>
         /\ \/ game' = game
            \/ \E p \in Clients, left \in GameType :
                 /\ IdOf(p) = e.owner /\ InPlayers(p)
                 /\ Left(game, w, p, left)
                 /\ game' = left \/ (v \in Worlds /\ Added(left, p, v, e.id, game'))
<1>1. game \in GameType /\ game.entities \in Entities
  BY GameFields DEF TypeOK
<1>2. e.owner \in PlayerIds /\ e.id \in Nat
  BY <1>1 DEF Entities
<1>3. v \in Worlds \union {NoWorld}
  BY DEF Destinations
<1>4. Outcomes \subseteq {"unsaved", "uncreated", "created"}
  BY DEF Outcomes
<1>5. PICK outcome \in Outcomes :
        game' = TransferPlayerToWorld(game, w, e.owner, e.id, v, outcome)
  BY DEF WarpPlayer
<1>6. \/ game' = game
      \/ \E p \in Clients, left \in GameType :
           /\ IdOf(p) = e.owner /\ InPlayers(p)
           /\ Left(game, w, p, left)
           /\ game' = left \/ (v \in Worlds /\ Added(left, p, v, e.id, game'))
  BY <1>1, <1>2, <1>3, <1>4, <1>5, TransferMeans DEF IdOf
<1> QED BY <1>6 DEF WarpPlayer

LEMMA WarpPlayerTypes ==
  ASSUME Types, NEW w \in Worlds, NEW v \in Destinations, NEW e \in game.entities[w],
         WarpPlayer(w, e, v)
  PROVE  Types'
<1>1. /\ warps < MaxWarps /\ warps' = warps + 1
      /\ UNCHANGED <<feedVars, clientVars, listVars, nullDereferenced>>
      /\ \/ game' = game
         \/ \E p \in Clients, left \in GameType :
              game' = left \/ (v \in Worlds /\ Added(left, p, v, e.id, game'))
  BY WarpPlayerMeans DEF Types
<1>2. game' \in GameType
  BY <1>1 DEF Added, Types, TypeOK
<1>3. warps' \in 0..MaxWarps
  BY <1>1, SessionsAssumption DEF Types, TypeOK, SessionsAssumption
<1> QED BY <1>1, <1>2, <1>3
        DEF Types, TypeOK, IdsSuffice, Feed!FeedTypeOK, feedVars, clientVars, listVars

\* Everything stays of its type whatever the clients, the network and the
\* database do: player ids never run out, and a player's world, character and
\* messages are always such (Server::OnClientAdd to World::TransferPlayerToWorld).
THEOREM TypeCorrect == Spec => []TypeOK
<1>1. Init => Types
  BY InitTypes
<1>2. Types /\ [Next]_vars => Types'
  <2> SUFFICES ASSUME Types, [Next]_vars PROVE Types'
    OBVIOUS
  <2>1. CASE Next
    BY <2>1, ClientStepTypes, BatchTypes, OnClientAddTypes, OnClientRemoveTypes,
       OnReceiveTcpTypes, OnReceiveUdpTestTypes, WarpPlayerTypes DEF Next
  <2>2. CASE UNCHANGED vars
    BY <2>2 DEF vars, feedVars, clientVars, listVars, Types, TypeOK, IdsSuffice, Feed!FeedTypeOK
  <2> QED BY <2>1, <2>2
<1> QED BY <1>1, <1>2, PTL DEF Spec, Types

-----------------------------------------------------------------------------
(***************************************************************************)
(* Streams: what a message more does to the order of loads and details.    *)
(***************************************************************************)

LEMMA NoticeKinds ==
  \A n \in Notice : n[1] \in {"hash", "details", "load", "char"}
<1> SUFFICES ASSUME NEW n \in Notice PROVE n[1] \in {"hash", "details", "load", "char"}
  OBVIOUS
<1> QED BY DEF Notice

LEMMA LoadIsLast ==
  ASSUME NEW s \in Seq(Notice), NEW w \in Worlds
  PROVE  LastLoad(Append(s, <<"load", w>>), w)
<1> DEFINE n == <<"load", w>>
           t == Append(s, n)
<1>1. n \in Notice
  <2>1. n \in {"load", "char"} \X Worlds
    OBVIOUS
  <2> QED BY <2>1 DEF Notice
<1> HIDE DEF n
<1>2. Len(t) = Len(s) + 1 /\ DOMAIN t = 1..Len(t) /\ t[Len(t)] = n /\ Len(s) \in Nat
  BY <1>1
<1> HIDE DEF t
<1>3. \A k \in DOMAIN t : ~ (k > Len(t))
  BY <1>2
<1>4. Len(t) \in DOMAIN t
  BY <1>2
<1> QED BY <1>2, <1>3, <1>4 DEF LastLoad, t, n

LEMMA LastLoadStays ==
  ASSUME NEW s \in Seq(Notice), NEW n \in Notice, NEW w, LastLoad(s, w), n[1] # "load"
  PROVE  LastLoad(Append(s, n), w)
<1> DEFINE t == Append(s, n)
<1>1. PICK l \in DOMAIN s : /\ s[l] = <<"load", w>>
                            /\ \A k \in DOMAIN s : k > l => s[k][1] # "load"
  BY DEF LastLoad
<1>2. /\ DOMAIN t = 1..(Len(s) + 1) /\ t[Len(s) + 1] = n /\ DOMAIN s = 1..Len(s) /\ Len(s) \in Nat
      /\ \A k \in DOMAIN s : t[k] = s[k]
  OBVIOUS
<1> HIDE DEF t
<1>3. ASSUME NEW k \in DOMAIN t, k > l PROVE t[k][1] # "load"
  BY <1>1, <1>2, <1>3
<1>4. l \in DOMAIN t /\ t[l] = <<"load", w>>
  BY <1>1, <1>2
<1> QED BY <1>3, <1>4 DEF LastLoad, t

LEMMA LoadsFirstStays ==
  ASSUME NEW s \in Seq(Notice), NEW n \in Notice, LoadsFirst(s),
         n[1] = "char" => LastLoad(s, n[2])
  PROVE  LoadsFirst(Append(s, n))
<1> DEFINE t == Append(s, n)
<1>1. /\ DOMAIN t = 1..(Len(s) + 1) /\ t[Len(s) + 1] = n /\ DOMAIN s = 1..Len(s) /\ Len(s) \in Nat
      /\ \A k \in DOMAIN s : t[k] = s[k]
  OBVIOUS
<1> HIDE DEF t
<1> SUFFICES ASSUME NEW i \in DOMAIN t, t[i][1] = "char"
             PROVE  \E l \in 1..i : /\ t[l] = <<"load", t[i][2]>>
                                    /\ \A k \in l+1..i : t[k][1] # "load"
  BY DEF LoadsFirst, t
<1>2. CASE i \in DOMAIN s
  <2>1. PICK l \in 1..i : /\ s[l] = <<"load", s[i][2]>>
                          /\ \A k \in l+1..i : s[k][1] # "load"
    BY <1>1, <1>2 DEF LoadsFirst
  <2>2. \A k \in 1..i : t[k] = s[k]
    BY <1>1, <1>2
  <2>3. \A k \in l+1..i : t[k] = s[k]
    BY <1>1, <1>2
  <2> QED BY <2>1, <2>2, <2>3, <1>2, <1>1
<1>3. CASE i \notin DOMAIN s
  <2>1. i = Len(s) + 1 /\ t[i] = n
    BY <1>1, <1>3
  <2>2. PICK l \in DOMAIN s : /\ s[l] = <<"load", n[2]>>
                              /\ \A k \in DOMAIN s : k > l => s[k][1] # "load"
    BY <2>1 DEF LastLoad
  <2>3. l \in 1..i /\ t[l] = <<"load", t[i][2]>>
    BY <1>1, <2>1, <2>2
  <2>4. ASSUME NEW k \in l+1..i PROVE t[k][1] # "load"
    <3>1. CASE k = i
      BY <2>1, <3>1
    <3>2. CASE k # i
      <4>1. k \in DOMAIN s /\ k > l
        BY <1>1, <2>1, <2>2, <3>2
      <4> QED BY <1>1, <2>2, <4>1
    <3> QED BY <3>1, <3>2
  <2> QED BY <2>3, <2>4
<1> QED BY <1>2, <1>3

-----------------------------------------------------------------------------
(***************************************************************************)
(* Leaving and entering worlds keeps lists, characters and players in      *)
(* agreement, as long as no two listed players share an id.                *)
(***************************************************************************)
Distinct(g) ==
  \A c, d \in Clients :
    InPlayers(c) /\ InPlayers(d) /\ g.player[c].id = g.player[d].id => c = d

Settled(g, seated) ==
  /\ g \in GameType
  /\ Housed(g, seated) /\ Agree(g) /\ Loaded(g)
  /\ \A c \in Clients : LoadsFirst(g.sent[c])

LEMMA RecipientsAreMembers ==
  ASSUME TypeOK, NEW g \in GameType, NEW seated, Settled(g, seated), Distinct(g),
         \A c \in seated : InPlayers(c),
         NEW h \in GameType, h.listed = g.listed,
         \A c \in Clients : h.player[c].id = g.player[c].id,
         NEW w \in Worlds, NEW c \in Clients, IsRecipient(h, w, c)
  PROVE  c \in Members(g, w)
<1>1. PICK id \in PlayerIds : /\ h.listed[w][id] > 0 /\ c \in GetPlayerById(h, id)
  BY DEF IsRecipient, ListedIds
<1>2. h.player[c].id = id /\ InPlayers(c)
  BY <1>1, GetPlayerByIdMeans DEF InPlayers
<1>3. PICK e \in Members(g, w) : g.player[e].id = id
  BY <1>1 DEF Settled, Agree
<1>4. e \in Clients /\ g.player[e].world = w /\ w # NoWorld
  BY <1>3, SessionsAssumption DEF Members, SessionsAssumption
<1>5. InPlayers(e)
  BY <1>4 DEF Settled, Housed
<1>6. e = c
  BY <1>2, <1>3, <1>4, <1>5 DEF Distinct
<1> QED BY <1>3, <1>6

\* Details go to those who were told last to load that very world.
LEMMA DetailsKeep ==
  ASSUME NEW g \in GameType, NEW seated, Settled(g, seated),
         NEW h \in GameType, h.sent = g.sent, NEW w \in Worlds,
         \A c \in Clients : IsRecipient(h, w, c) => c \in Members(g, w),
         NEW sent, DetailsSent(h, w, sent)
  PROVE  /\ sent \in Streams
         /\ \A c \in Clients : LoadsFirst(sent[c])
         /\ \A v \in Worlds : \A c \in Members(g, v) : LastLoad(sent[c], v)
<1> DEFINE n == <<"char", w>>
<1>1. n \in Notice /\ n[1] = "char" /\ n[2] = w
  <2>1. n \in {"load", "char"} \X Worlds
    OBVIOUS
  <2> QED BY <2>1 DEF Notice
<1> HIDE DEF n
<1>2. /\ sent \in Streams
      /\ \A c \in Clients :
           \/ sent[c] = g.sent[c]
           \/ sent[c] = Append(g.sent[c], n) /\ c \in Members(g, w)
  BY DEF DetailsSent, n
<1>3. g.sent \in [Clients -> Seq(Notice)]
  BY GameFields DEF Streams
<1>4. ASSUME NEW c \in Clients
      PROVE  /\ LoadsFirst(sent[c])
             /\ \A v \in Worlds : c \in Members(g, v) => LastLoad(sent[c], v)
  <2>1. /\ LoadsFirst(g.sent[c]) /\ g.sent[c] \in Seq(Notice)
        /\ \A v \in Worlds : c \in Members(g, v) => LastLoad(g.sent[c], v)
    BY <1>3 DEF Settled, Loaded
  <2>2. CASE sent[c] = g.sent[c]
    BY <2>1, <2>2
  <2>3. CASE sent[c] = Append(g.sent[c], n) /\ c \in Members(g, w)
    <3>1. LoadsFirst(Append(g.sent[c], n))
      BY <1>1, <2>1, <2>3, LoadsFirstStays
    <3>2. \A v \in Worlds : c \in Members(g, v) => LastLoad(Append(g.sent[c], n), v)
      BY <1>1, <2>1, LastLoadStays
    <3> QED BY <2>3, <3>1, <3>2
  <2> QED BY <1>2, <2>2, <2>3
<1> QED BY <1>2, <1>4 DEF Members

LEMMA LeftFields ==
  ASSUME NEW g \in GameType, NEW w, NEW p \in Clients, NEW h, Left(g, w, p, h)
  PROVE  /\ h.player[p].world = NoWorld /\ h.player[p].char = 0
         /\ \A c \in Clients : /\ h.player[c].id = g.player[c].id
                               /\ h.player[c].addr = g.player[c].addr
                               /\ h.player[c].ready = g.player[c].ready
                               /\ c # p => h.player[c] = g.player[c]
<1>1. g.player \in [Clients -> PlayerType]
  BY GameFields
<1> QED BY <1>1 DEF Left, PlayerType

LEMMA LeftKeeps ==
  ASSUME NEW g \in GameType, NEW seated, Settled(g, seated), Distinct(g),
         \A c \in seated : InPlayers(c),
         NEW w \in Worlds, NEW p \in Clients, g.player[p].world = w,
         NEW h, Left(g, w, p, h)
  PROVE  Settled(h, seated)
<1>1. /\ g.player \in [Clients -> PlayerType] /\ g.listed \in Lists
      /\ g.entities \in Entities /\ w # NoWorld
  BY GameFields, SessionsAssumption DEF SessionsAssumption
<1>2. /\ h.player[p].world = NoWorld /\ h.player[p].char = 0
      /\ \A c \in Clients : /\ h.player[c].id = g.player[c].id
                            /\ h.player[c].addr = g.player[c].addr
                            /\ c # p => h.player[c] = g.player[c]
  BY LeftFields
<1>3. \A c \in Clients : g.player[c].char \in Nat /\ g.player[c].id \in PlayerIds
  BY <1>1 DEF PlayerType
<1>4. /\ h \in GameType /\ h.nextEntity = g.nextEntity /\ h.sent = g.sent
      /\ h.listed = [g.listed EXCEPT ![w][g.player[p].id] = 0]
      /\ h.entities = [g.entities EXCEPT ![w] = {e \in @ : e.id # g.player[p].char}]
  BY DEF Left
<1>5. \A v \in Worlds : Members(h, v) = Members(g, v) \ {p}
  BY <1>2 DEF Members
<1>6. \A v \in Worlds : v # w => Members(h, v) = Members(g, v)
  BY <1>2, <1>5 DEF Members
<1>7. Housed(h, seated)
  <2> SUFFICES ASSUME NEW c \in Clients
               PROVE  LET q == h.player[c] IN
                        /\ q.addr \in {NoAddress, <<c, 0>>}
                        /\ q.addr = NoAddress => q.world = NoWorld
                        /\ q.world # NoWorld => c \in seated
                        /\ q.char > 0 => q.world # NoWorld
                        /\ q.char < h.nextEntity
                        /\ \A d \in Clients : q.char > 0 /\ h.player[d].char = q.char => c = d
    BY DEF Housed
  <2>1. /\ g.player[c].addr \in {NoAddress, <<c, 0>>}
        /\ g.player[c].addr = NoAddress => g.player[c].world = NoWorld
        /\ g.player[c].world # NoWorld => c \in seated
        /\ g.player[c].char > 0 => g.player[c].world # NoWorld
        /\ g.player[c].char < g.nextEntity
        /\ \A d \in Clients : g.player[c].char > 0 /\ g.player[d].char = g.player[c].char => c = d
    BY DEF Settled, Housed
  <2>2. g.nextEntity \in Nat
    BY GameFields
  <2>3. CASE c = p
    BY <1>2, <1>3, <1>4, <2>1, <2>2, <2>3
  <2>4. CASE c # p
    BY <1>2, <1>3, <1>4, <2>1, <2>4
  <2> QED BY <2>3, <2>4
<1>8. ASSUME NEW v \in Worlds, NEW id \in PlayerIds
      PROVE  h.listed[v][id] = IF \E c \in Members(h, v) : h.player[c].id = id THEN 1 ELSE 0
  <2>1. g.listed[v][id] = IF \E c \in Members(g, v) : g.player[c].id = id THEN 1 ELSE 0
    BY DEF Settled, Agree
  <2>2. \A c \in Members(h, v) : h.player[c].id = g.player[c].id
    BY <1>2 DEF Members
  <2>3. CASE v = w /\ id = g.player[p].id
    <3>1. h.listed[v][id] = 0
      BY <1>1, <1>4, <2>3 DEF Lists
    <3>2. ASSUME NEW c \in Members(h, v), h.player[c].id = id PROVE FALSE
      <4>1. c \in Clients /\ c # p /\ g.player[c].world = w
        BY <1>5, <2>3, <3>2 DEF Members
      <4>2. InPlayers(c) /\ InPlayers(p)
        BY <1>1, <4>1 DEF Settled, Housed
      <4> QED BY <1>2, <2>3, <3>2, <4>1, <4>2 DEF Distinct
    <3> QED BY <3>1, <3>2
  <2>4. CASE v # w
    <3>1. h.listed[v] = g.listed[v]
      BY <1>1, <1>4, <2>4 DEF Lists
    <3> QED BY <1>6, <2>1, <2>2, <2>4, <3>1
  <2>5. CASE v = w /\ id # g.player[p].id
    <3>1. h.listed[v][id] = g.listed[v][id]
      BY <1>1, <1>4, <2>5 DEF Lists
    <3> QED BY <1>5, <2>1, <2>2, <2>5, <3>1
  <2> QED BY <2>3, <2>4, <2>5
<1>9. ASSUME NEW v \in Worlds
      PROVE  h.entities[v] = {[id |-> h.player[c].char, owner |-> h.player[c].id] : c \in Members(h, v)}
  <2> DEFINE Character(game_, c) == [id |-> game_.player[c].char, owner |-> game_.player[c].id]
  <2>1. g.entities[v] = {Character(g, c) : c \in Members(g, v)}
    BY DEF Settled, Agree
  <2>2. \A c \in Members(h, v) : Character(h, c) = Character(g, c)
    BY <1>2, <1>5 DEF Members
  <2>3. CASE v # w
    <3>1. h.entities[v] = g.entities[v]
      BY <1>1, <1>4, <2>3 DEF Entities
    <3>2. {Character(h, c) : c \in Members(h, v)} = {Character(g, c) : c \in Members(g, v)}
      BY <1>6, <2>2, <2>3
    <3> QED BY <2>1, <3>1, <3>2
  <2>4. CASE v = w
    <3>1. h.entities[v] = {e \in g.entities[v] : e.id # g.player[p].char}
      BY <1>1, <1>4, <2>4 DEF Entities
    <3>2. \A c \in Members(g, v) : c # p => g.player[c].char # g.player[p].char
      BY <1>3 DEF Members, Settled, Housed
    <3>3. \A c : Character(g, c).id = g.player[c].char
      OBVIOUS
    <3> HIDE DEF Character
    <3>4. h.entities[v] = {Character(g, c) : c \in Members(g, v) \ {p}}
      BY <2>1, <3>1, <3>2, <3>3
    <3>5. h.entities[v] = {Character(h, c) : c \in Members(h, v)}
      BY <1>5, <2>2, <3>4
    <3> QED BY <3>5 DEF Character
  <2> QED BY <2>3, <2>4
<1>10. Loaded(h)
  BY <1>4, <1>5 DEF Loaded, Settled
<1> QED BY <1>4, <1>7, <1>8, <1>9, <1>10 DEF Settled, Agree

LEMMA AddedFields ==
  ASSUME NEW g \in GameType, NEW w \in Worlds, NEW p \in Clients, NEW entityId, NEW h,
         Added(g, p, w, entityId, h)
  PROVE  /\ h.player[p].world = w
         /\ h.player[p].char \in {g.player[p].char, IF entityId > 0 THEN entityId ELSE g.nextEntity}
         /\ \A c \in Clients : /\ h.player[c].id = g.player[c].id
                               /\ h.player[c].addr = g.player[c].addr
                               /\ h.player[c].ready = g.player[c].ready
                               /\ c # p => h.player[c] = g.player[c]
<1>1. g.player \in [Clients -> PlayerType]
  BY GameFields
<1>2. Claimed(g, p, w) \in [Clients -> PlayerType]
  <2>1. [g.player[p] EXCEPT !.world = w] \in PlayerType
    BY <1>1 DEF PlayerType
  <2> QED BY <1>1, <2>1 DEF Claimed
<1>3. /\ Claimed(g, p, w)[p].world = w /\ Claimed(g, p, w)[p].char = g.player[p].char
      /\ \A c \in Clients : /\ Claimed(g, p, w)[c].id = g.player[c].id
                            /\ Claimed(g, p, w)[c].addr = g.player[c].addr
                            /\ Claimed(g, p, w)[c].ready = g.player[c].ready
                            /\ c # p => Claimed(g, p, w)[c] = g.player[c]
  BY <1>1 DEF Claimed, PlayerType
<1> DEFINE entity == IF entityId > 0 THEN entityId ELSE g.nextEntity
<1>4. h.player = Claimed(g, p, w) \/ h.player = [Claimed(g, p, w) EXCEPT ![p].char = entity]
  BY DEF Added
<1> HIDE DEF entity
<1>5. CASE h.player = Claimed(g, p, w)
  BY <1>3, <1>5 DEF entity
<1>6. CASE h.player = [Claimed(g, p, w) EXCEPT ![p].char = entity]
  BY <1>2, <1>3, <1>6 DEF PlayerType, entity
<1> QED BY <1>4, <1>5, <1>6

LEMMA AddedKeeps ==
  ASSUME TypeOK,
         NEW g \in GameType, NEW seated, Settled(g, seated), Distinct(g),
         \A c \in seated : InPlayers(c),
         NEW w \in Worlds, NEW p \in Clients, p \in seated,
         g.player[p].world = NoWorld, g.player[p].addr # NoAddress,
         NEW entityId \in Nat, entityId < g.nextEntity,
         \A c \in Clients : entityId > 0 => g.player[c].char # entityId,
         NEW h, Added(g, p, w, entityId, h)
  PROVE  Settled(h, seated)
<1> DEFINE id     == g.player[p].id
           entity == IF entityId > 0 THEN entityId ELSE g.nextEntity
<1>1. /\ g.player \in [Clients -> PlayerType] /\ g.listed \in Lists
      /\ g.entities \in Entities /\ g.nextEntity \in Nat /\ w # NoWorld
      /\ g.sent \in [Clients -> Seq(Notice)]
  BY GameFields, SessionsAssumption DEF SessionsAssumption, Streams
<1>2. /\ h.player[p].world = w
      /\ h.player[p].char \in {g.player[p].char, entity}
      /\ \A c \in Clients : /\ h.player[c].id = g.player[c].id
                            /\ h.player[c].addr = g.player[c].addr
                            /\ c # p => h.player[c] = g.player[c]
  BY AddedFields
<1>3. \A c \in Clients : g.player[c].char \in Nat /\ g.player[c].id \in PlayerIds
  BY <1>1 DEF PlayerType
<1>4. g.player[p].char = 0
  BY <1>3 DEF Settled, Housed
<1>5. entity > 0 /\ \A c \in Clients : g.player[c].char # entity
  BY <1>1, <1>3, <1>4 DEF Settled, Housed
<1>6. h \in GameType
  BY DEF Added
<1>7. ASSUME h.nextEntity \in {g.nextEntity, g.nextEntity + 1},
             h.player[p].char = entity => h.nextEntity = g.nextEntity + 1
      PROVE  Housed(h, seated)
  <2> SUFFICES ASSUME NEW c \in Clients
               PROVE  LET q == h.player[c] IN
                        /\ q.addr \in {NoAddress, <<c, 0>>}
                        /\ q.addr = NoAddress => q.world = NoWorld
                        /\ q.world # NoWorld => c \in seated
                        /\ q.char > 0 => q.world # NoWorld
                        /\ q.char < h.nextEntity
                        /\ \A d \in Clients : q.char > 0 /\ h.player[d].char = q.char => c = d
    BY DEF Housed
  <2>1. \A d \in Clients :
          /\ g.player[d].addr \in {NoAddress, <<d, 0>>}
          /\ g.player[d].addr = NoAddress => g.player[d].world = NoWorld
          /\ g.player[d].world # NoWorld => d \in seated
          /\ g.player[d].char > 0 => g.player[d].world # NoWorld
          /\ g.player[d].char < g.nextEntity
    BY DEF Settled, Housed
  <2>2. \A d \in Clients : g.player[c].char > 0 /\ g.player[d].char = g.player[c].char => c = d
    BY DEF Settled, Housed
  <2> HIDE DEF entity
  <2>3. entity <= g.nextEntity
    BY <1>1 DEF entity
  <2>4. entity \in Nat
    BY <1>1 DEF entity
  <2>5. \A d \in Clients : h.player[c].char > 0 /\ h.player[d].char = h.player[c].char => c = d
    BY <1>2, <1>3, <1>4, <1>5, <2>2
  <2>6. h.player[c].char < h.nextEntity
    BY <1>1, <1>2, <1>3, <1>4, <1>7, <2>1, <2>3, <2>4
  <2>7. CASE c = p
    BY <1>1, <1>2, <2>1, <2>5, <2>6, <2>7
  <2>8. CASE c # p
    BY <1>2, <2>1, <2>5, <2>6, <2>8
  <2> QED BY <2>7, <2>8
<1>8. \A v \in Worlds : p \notin Members(g, v)
  BY <1>4 DEF Members
<1>9. CASE /\ h.player = Claimed(g, p, w)
           /\ h.listed = g.listed /\ h.entities = g.entities
           /\ h.nextEntity = g.nextEntity /\ h.sent = g.sent
  <2>1. h.player[p].char = 0
    BY <1>1, <1>4, <1>9 DEF Claimed, PlayerType
  <2>2. Housed(h, seated)
    BY <1>5, <1>7, <1>9, <1>4, <2>1
  <2>3. \A v \in Worlds : Members(h, v) = Members(g, v)
    BY <1>2, <1>4, <2>1 DEF Members
  <2>4. \A v \in Worlds : \A c \in Members(g, v) : h.player[c] = g.player[c]
    BY <1>2, <1>8 DEF Members
  <2>5. Agree(h)
    <3>1. \A v \in Worlds :
            {[id |-> h.player[c].char, owner |-> h.player[c].id] : c \in Members(h, v)}
              = {[id |-> g.player[c].char, owner |-> g.player[c].id] : c \in Members(g, v)}
      BY <2>3, <2>4
    <3> QED BY <1>9, <2>3, <2>4, <3>1 DEF Agree, Settled
  <2>6. Loaded(h)
    BY <1>9, <2>3 DEF Loaded, Settled
  <2> QED BY <1>6, <1>9, <2>2, <2>5, <2>6 DEF Settled
<1>10. CASE /\ h.player = [Claimed(g, p, w) EXCEPT ![p].char = entity]
            /\ h.listed = [g.listed EXCEPT ![w][id] = @ + 1]
            /\ h.entities = [g.entities EXCEPT ![w] = @ \union {[id |-> entity, owner |-> id]}]
            /\ h.nextEntity = g.nextEntity + 1
            /\ \E sent : /\ DetailsSent([g EXCEPT !.player = Claimed(g, p, w)], w, sent)
                         /\ h.sent = [sent EXCEPT ![p] = Append(@, <<"load", w>>)]
  <2>1. Claimed(g, p, w) \in [Clients -> PlayerType]
    <3>1. [g.player[p] EXCEPT !.world = w] \in PlayerType
      BY <1>1 DEF PlayerType
    <3> QED BY <1>1, <3>1 DEF Claimed
  <2>2. h.player[p].char = entity
    BY <1>10, <2>1 DEF PlayerType
  <2>3. Housed(h, seated)
    BY <1>7, <1>10
  <2> HIDE DEF entity
  <2>4. Members(h, w) = Members(g, w) \union {p}
    BY <1>2, <1>5, <2>2 DEF Members
  <2>5. \A v \in Worlds : v # w => Members(h, v) = Members(g, v)
    BY <1>2, <1>8 DEF Members
  <2>6. \A v \in Worlds : \A c \in Members(g, v) : h.player[c] = g.player[c]
    BY <1>2, <1>8 DEF Members
  <2>7. \A c \in Members(g, w) : g.player[c].id # id
    <3>1. ASSUME NEW c \in Members(g, w) PROVE g.player[c].id # id
      <4>1. InPlayers(c) /\ InPlayers(p) /\ c # p
        BY <1>1, <1>8 DEF Members, Settled, Housed
      <4> QED BY <4>1 DEF Distinct, Members
    <3> QED BY <3>1
  <2>8. ASSUME NEW v \in Worlds, NEW i \in PlayerIds
        PROVE  h.listed[v][i] = IF \E c \in Members(h, v) : h.player[c].id = i THEN 1 ELSE 0
    <3>1. g.listed[v][i] = IF \E c \in Members(g, v) : g.player[c].id = i THEN 1 ELSE 0
      BY DEF Settled, Agree
    <3>2. CASE v = w /\ i = id
      <4>1. h.listed[v][i] = g.listed[v][i] + 1
        BY <1>1, <1>10, <3>2 DEF Lists
      <4>2. p \in Members(h, v) /\ h.player[p].id = i
        BY <1>2, <2>4, <3>2
      <4> QED BY <2>7, <3>1, <3>2, <4>1, <4>2
    <3>3. CASE v # w
      <4>1. h.listed[v] = g.listed[v]
        BY <1>1, <1>10, <3>3 DEF Lists
      <4> QED BY <2>5, <2>6, <3>1, <3>3, <4>1
    <3>4. CASE v = w /\ i # id
      <4>1. h.listed[v][i] = g.listed[v][i]
        BY <1>1, <1>10, <3>4 DEF Lists
      <4>2. h.player[p].id # i
        BY <1>2, <3>4
      <4> QED BY <2>4, <2>6, <3>1, <3>4, <4>1, <4>2
    <3> QED BY <3>2, <3>3, <3>4
  <2>9. ASSUME NEW v \in Worlds
        PROVE  h.entities[v] = {[id |-> h.player[c].char, owner |-> h.player[c].id] : c \in Members(h, v)}
    <3> DEFINE Character(game_, c) == [id |-> game_.player[c].char, owner |-> game_.player[c].id]
    <3>1. g.entities[v] = {Character(g, c) : c \in Members(g, v)}
      BY DEF Settled, Agree
    <3>2. \A c \in Members(g, v) : Character(h, c) = Character(g, c)
      BY <2>6
    <3>3. CASE v # w
      <4>1. h.entities[v] = g.entities[v]
        BY <1>1, <1>10, <3>3 DEF Entities
      <4>2. {Character(h, c) : c \in Members(h, v)} = {Character(g, c) : c \in Members(g, v)}
        BY <2>5, <3>2, <3>3
      <4> QED BY <3>1, <4>1, <4>2
    <3>4. CASE v = w
      <4>1. h.entities[v] = g.entities[v] \union {[id |-> entity, owner |-> id]}
        BY <1>1, <1>10, <3>4 DEF Entities
      <4>2. Character(h, p) = [id |-> entity, owner |-> id]
        BY <1>2, <2>2
      <4> HIDE DEF Character, id
      <4>3. h.entities[v] = {Character(h, c) : c \in Members(h, v)}
        BY <2>4, <3>1, <3>2, <3>4, <4>1, <4>2
      <4> QED BY <4>3 DEF Character
    <3> QED BY <3>3, <3>4
  <2>10. PICK sent : /\ DetailsSent([g EXCEPT !.player = Claimed(g, p, w)], w, sent)
                     /\ h.sent = [sent EXCEPT ![p] = Append(@, <<"load", w>>)]
    BY <1>10
  <2> DEFINE claimed == [g EXCEPT !.player = Claimed(g, p, w)]
  <2>11. /\ claimed \in GameType /\ claimed.sent = g.sent /\ claimed.listed = g.listed
         /\ \A c \in Clients : claimed.player[c].id = g.player[c].id
    <3>1. \A c \in Clients : Claimed(g, p, w)[c].id = g.player[c].id
      BY <1>1 DEF Claimed, PlayerType
    <3> QED BY <2>1, <3>1 DEF GameType
  <2> HIDE DEF claimed
  <2>12. \A c \in Clients : IsRecipient(claimed, w, c) => c \in Members(g, w)
    BY <2>11, RecipientsAreMembers
  <2>13. /\ sent \in Streams
         /\ \A c \in Clients : LoadsFirst(sent[c])
         /\ \A v \in Worlds : \A c \in Members(g, v) : LastLoad(sent[c], v)
    BY <2>10, <2>11, <2>12, DetailsKeep DEF claimed
  <2> DEFINE n == <<"load", w>>
  <2>14. n \in Notice /\ n[1] = "load"
    <3>1. n \in {"load", "char"} \X Worlds
      OBVIOUS
    <3> QED BY <3>1 DEF Notice
  <2>15. sent[p] \in Seq(Notice) /\ LastLoad(Append(sent[p], n), w)
    BY <2>13, LoadIsLast DEF Streams
  <2> HIDE DEF n
  <2>16. LoadsFirst(Append(sent[p], n))
    BY <2>13, <2>14, <2>15, LoadsFirstStays
  <2>17. \A c \in Clients : h.sent[c] = IF c = p THEN Append(sent[p], n) ELSE sent[c]
    BY <2>10, <2>13 DEF Streams, n
  <2>18. \A c \in Clients : LoadsFirst(h.sent[c])
    BY <2>13, <2>16, <2>17
  <2>19. Loaded(h)
    <3>1. ASSUME NEW v \in Worlds, NEW c \in Members(h, v) PROVE LastLoad(h.sent[c], v)
      <4>1. CASE c = p
        BY <1>8, <2>5, <2>15, <2>17, <4>1, <3>1
      <4>2. CASE c # p
        <5>1. c \in Members(g, v) /\ c \in Clients
          BY <2>4, <2>5, <4>2 DEF Members
        <5> QED BY <2>13, <2>17, <4>2, <5>1
      <4> QED BY <4>1, <4>2
    <3> QED BY <3>1 DEF Loaded
  <2> QED BY <1>6, <2>3, <2>8, <2>9, <2>18, <2>19 DEF Settled, Agree
<1> QED BY <1>9, <1>10 DEF Added

-----------------------------------------------------------------------------
(***************************************************************************)
(* Who is listed has a character, however often the addresses change.      *)
(***************************************************************************)

\* Whoever changes in its login has no character yet.
LEMMA PeopledKept ==
  ASSUME NEW g \in GameType, NEW h \in GameType, Peopled(g),
         \A c \in Clients : /\ h.player[c].char = g.player[c].char
                            /\ g.player[c].ready => h.player[c].ready
                                 /\ h.player[c].id = g.player[c].id,
         h.listed = g.listed, h.entities = g.entities, h.nextEntity = g.nextEntity
  PROVE  Peopled(h)
<1>1. ListedOwn(h) /\ OneOwner(h)
  BY DEF Peopled, ListedOwn, OneOwner
<1>2. EntityIds(h)
  BY DEF Peopled, EntityIds
<1>3. CharacterIsOwn(h)
  <2> SUFFICES ASSUME NEW w \in Worlds, NEW e \in g.entities[w], NEW c \in Clients,
                      g.player[c].char = e.id
               PROVE  e.owner = h.player[c].id
    BY DEF CharacterIsOwn
  <2>1. g.player[c].ready
    BY DEF Peopled, EntityIds
  <2> QED BY <2>1 DEF Peopled, CharacterIsOwn
<1> QED BY <1>1, <1>2, <1>3 DEF Peopled

LEMMA LeftPeopled ==
  ASSUME NEW g \in GameType, Peopled(g), NEW w \in Worlds, NEW p \in Clients,
         NEW h, Left(g, w, p, h)
  PROVE  Peopled(h) /\ \A v \in Worlds : h.entities[v] \subseteq g.entities[v]
<1> DEFINE id == g.player[p].id
<1>1. /\ g.player \in [Clients -> PlayerType] /\ g.listed \in Lists /\ g.entities \in Entities
      /\ g.nextEntity \in Nat
  BY GameFields
<1>2. id \in PlayerIds /\ g.player[p].char \in Nat
  BY <1>1 DEF PlayerType
<1>3. /\ h.player[p].char = 0
      /\ \A c \in Clients : /\ h.player[c].id = g.player[c].id
                            /\ h.player[c].ready = g.player[c].ready
                            /\ c # p => h.player[c] = g.player[c]
  BY LeftFields
<1>4. /\ h.nextEntity = g.nextEntity
      /\ h.listed = [g.listed EXCEPT ![w][id] = 0]
      /\ h.entities = [g.entities EXCEPT ![w] = {e \in @ : e.id # g.player[p].char}]
  BY DEF Left
<1>5. \A v \in Worlds : h.entities[v] = IF v = w THEN {e \in g.entities[w] : e.id # g.player[p].char}
                                       ELSE g.entities[v]
  BY <1>1, <1>4 DEF Entities
<1> HIDE DEF id
<1>6. \A v \in Worlds : \A i \in PlayerIds :
        h.listed[v][i] = IF v = w /\ i = id THEN 0 ELSE g.listed[v][i]
  BY <1>1, <1>2, <1>4 DEF Lists
<1>7. ListedOwn(h)
  <2> SUFFICES ASSUME NEW v \in Worlds, NEW i \in PlayerIds, h.listed[v][i] > 0
               PROVE  \E e \in h.entities[v] : e.owner = i
    BY DEF ListedOwn
  <2>1. ~(v = w /\ i = id) /\ g.listed[v][i] > 0
    BY <1>6
  <2>2. PICK e \in g.entities[v] : e.owner = i
    BY <2>1 DEF Peopled, ListedOwn
  <2>3. v = w => e.id # g.player[p].char
    BY <2>1, <2>2 DEF Peopled, CharacterIsOwn, id
  <2> QED BY <1>5, <2>2, <2>3
<1>8. \A v \in Worlds : h.entities[v] \subseteq g.entities[v]
  BY <1>5
<1>9. OneOwner(h)
  BY <1>8 DEF Peopled, OneOwner
<1>10. EntityIds(h)
  <2>1. 0 < h.nextEntity
    BY <1>4 DEF Peopled, EntityIds
  <2>2. \A v \in Worlds : \A e \in h.entities[v] : 0 < e.id /\ e.id < h.nextEntity
    BY <1>4, <1>8 DEF Peopled, EntityIds
  <2>3. \A c \in Clients : h.player[c].char < h.nextEntity
    BY <1>3, <1>4 DEF Peopled, EntityIds
  <2>4. \A c \in Clients : h.player[c].char > 0 => h.player[c].ready
    BY <1>3 DEF Peopled, EntityIds
  <2> QED BY <2>1, <2>2, <2>3, <2>4 DEF EntityIds
<1>11. CharacterIsOwn(h)
  <2> SUFFICES ASSUME NEW v \in Worlds, NEW e \in h.entities[v], NEW c \in Clients,
                      h.player[c].char = e.id
               PROVE  e.owner = g.player[c].id
    BY <1>3 DEF CharacterIsOwn
  <2>1. e \in g.entities[v] /\ e.id # 0
    BY <1>8 DEF Peopled, EntityIds
  <2>2. g.player[c].char = e.id
    BY <1>3, <2>1
  <2> QED BY <2>1, <2>2 DEF Peopled, CharacterIsOwn
<1> QED BY <1>7, <1>8, <1>9, <1>10, <1>11 DEF Peopled

LEMMA AddedPeopled ==
  ASSUME NEW g \in GameType, Peopled(g), NEW w \in Worlds, NEW p \in Clients, g.player[p].ready,
         NEW entityId \in Nat, entityId < g.nextEntity,
         \A v \in Worlds : \A e \in g.entities[v] : e.id = entityId => e.owner = g.player[p].id,
         \A c \in Clients : entityId > 0 /\ g.player[c].char = entityId => g.player[c].id = g.player[p].id,
         NEW h, Added(g, p, w, entityId, h)
  PROVE  Peopled(h)
<1> DEFINE id     == g.player[p].id
           entity == IF entityId > 0 THEN entityId ELSE g.nextEntity
           new    == [id |-> entity, owner |-> id]
<1>1. /\ g.player \in [Clients -> PlayerType] /\ g.listed \in Lists /\ g.entities \in Entities
      /\ g.nextEntity \in Nat
  BY GameFields
<1>2. /\ id \in PlayerIds
      /\ \A c \in Clients : g.player[c].char \in Nat
  BY <1>1 DEF PlayerType
<1>3. /\ 0 < g.nextEntity
      /\ \A v \in Worlds : \A e \in g.entities[v] : 0 < e.id /\ e.id < g.nextEntity
      /\ \A c \in Clients : g.player[c].char < g.nextEntity
      /\ \A c \in Clients : g.player[c].char > 0 => g.player[c].ready
  BY DEF Peopled, EntityIds
<1>4. \A c \in Clients : /\ h.player[c].id = g.player[c].id
                         /\ h.player[c].ready = g.player[c].ready
                         /\ c # p => h.player[c] = g.player[c]
  BY AddedFields
<1>5. h.player[p].char \in {g.player[p].char, entity}
  BY AddedFields
<1>6. CASE /\ h.player = Claimed(g, p, w)
           /\ h.listed = g.listed /\ h.entities = g.entities
           /\ h.nextEntity = g.nextEntity /\ h.sent = g.sent
  <2>1. h.player[p].char = g.player[p].char
    BY <1>1, <1>6 DEF Claimed, PlayerType
  <2>2. h \in GameType
    BY DEF Added
  <2> QED BY <1>4, <1>6, <2>1, <2>2, PeopledKept
<1>7. CASE /\ h.listed = [g.listed EXCEPT ![w][id] = @ + 1]
           /\ h.entities = [g.entities EXCEPT ![w] = @ \union {new}]
           /\ h.nextEntity = g.nextEntity + 1
  <2>1. new.id = entity /\ new.owner = id
    OBVIOUS
  <2> HIDE DEF new
  <2>2. \A v \in Worlds : h.entities[v] = IF v = w THEN g.entities[w] \union {new} ELSE g.entities[v]
    BY <1>1, <1>7 DEF Entities
  <2> HIDE DEF id
  <2>3. \A v \in Worlds : \A i \in PlayerIds :
          h.listed[v][i] = IF v = w /\ i = id THEN g.listed[v][i] + 1 ELSE g.listed[v][i]
    BY <1>1, <1>7 DEF Lists
  <2>4. \A v \in Worlds : \A e \in h.entities[v] : e = new \/ e \in g.entities[v]
    BY <2>2
  <2>5. entity \in Nat /\ 0 < entity /\ entity < h.nextEntity
    BY <1>1, <1>3, <1>7
  <2>6. \A v \in Worlds : \A e \in g.entities[v] : e.id = entity => e.owner = id
    <3>1. ASSUME NEW v \in Worlds, NEW e \in g.entities[v], e.id = g.nextEntity PROVE FALSE
      <4>1. e.id < g.nextEntity
        BY <1>3
      <4> QED BY <1>1, <3>1, <4>1
    <3> QED BY <3>1 DEF id
  <2>7. \A c \in Clients : g.player[c].char = entity => g.player[c].id = id
    <3>1. ASSUME NEW c \in Clients, g.player[c].char = g.nextEntity PROVE FALSE
      <4>1. g.player[c].char < g.nextEntity
        BY <1>3
      <4> QED BY <1>1, <3>1, <4>1
    <3> QED BY <3>1 DEF id
  <2> HIDE DEF entity
  <2>8. ListedOwn(h)
    <3> SUFFICES ASSUME NEW v \in Worlds, NEW i \in PlayerIds, h.listed[v][i] > 0
                 PROVE  \E e \in h.entities[v] : e.owner = i
      BY DEF ListedOwn
    <3>1. CASE v = w /\ i = id
      BY <2>1, <2>2, <3>1
    <3>2. CASE ~(v = w /\ i = id)
      <4>1. \E e \in g.entities[v] : e.owner = i
        BY <2>3, <3>2 DEF Peopled, ListedOwn
      <4> QED BY <2>2, <4>1
    <3> QED BY <3>1, <3>2
  <2>9. \A v \in Worlds : \A e \in g.entities[v] : e.id \in Nat
    BY <1>1 DEF Entities
  <2>10. OneOwner(h)
    <3> SUFFICES ASSUME NEW v \in Worlds, NEW u \in Worlds,
                        NEW e \in h.entities[v], NEW f \in h.entities[u], e.id = f.id
                 PROVE  e.owner = f.owner
      BY DEF OneOwner
    <3>1. CASE e = new
      BY <2>1, <2>4, <2>6, <3>1
    <3>2. CASE f = new
      BY <2>1, <2>4, <2>6, <3>2
    <3>3. CASE e \in g.entities[v] /\ f \in g.entities[u]
      BY <3>3 DEF Peopled, OneOwner
    <3> QED BY <2>4, <3>1, <3>2, <3>3
  <2>11. CharacterIsOwn(h)
    <3> SUFFICES ASSUME NEW v \in Worlds, NEW e \in h.entities[v], NEW c \in Clients,
                        h.player[c].char = e.id
                 PROVE  e.owner = g.player[c].id
      BY <1>4 DEF CharacterIsOwn
    <3>1. CASE g.player[c].char = e.id
      BY <2>1, <2>4, <2>7, <3>1 DEF Peopled, CharacterIsOwn
    <3>2. CASE g.player[c].char # e.id
      <4>1. c = p /\ e.id = entity
        BY <1>4, <1>5, <3>2
      <4> QED BY <2>1, <2>4, <2>6, <4>1 DEF id
    <3> QED BY <3>1, <3>2
  <2>12. \A v \in Worlds : \A e \in h.entities[v] : 0 < e.id /\ e.id < h.nextEntity
    <3> SUFFICES ASSUME NEW v \in Worlds, NEW e \in h.entities[v]
                 PROVE  0 < e.id /\ e.id < h.nextEntity
      OBVIOUS
    <3>1. CASE e = new
      BY <2>1, <2>5, <3>1
    <3>2. CASE e \in g.entities[v]
      <4>1. 0 < e.id /\ e.id < g.nextEntity /\ e.id \in Nat
        BY <1>3, <2>9, <3>2
      <4> QED BY <1>1, <1>7, <4>1
    <3> QED BY <2>4, <3>1, <3>2
  <2>13. ASSUME NEW c \in Clients
         PROVE  h.player[c].char < h.nextEntity /\ (h.player[c].char > 0 => h.player[c].ready)
    <3>1. g.player[c].char < g.nextEntity /\ g.player[c].char \in Nat
      BY <1>2, <1>3
    <3>2. h.player[c].char > 0 => h.player[c].ready
      <4>1. CASE c = p
        BY <1>4, <4>1
      <4>2. CASE c # p
        BY <1>3, <1>4, <4>2
      <4> QED BY <4>1, <4>2
    <3>3. h.player[c].char = g.player[c].char \/ h.player[c].char = entity
      BY <1>4, <1>5
    <3>4. g.player[c].char < h.nextEntity
      BY <1>1, <1>7, <3>1
    <3> QED BY <2>5, <3>2, <3>3, <3>4
  <2>14. 0 < h.nextEntity
    BY <1>1, <1>7
  <2>15. EntityIds(h)
    BY <2>12, <2>13, <2>14 DEF EntityIds
  <2> QED BY <2>8, <2>10, <2>11, <2>15 DEF Peopled
<1> QED BY <1>6, <1>7 DEF Added

-----------------------------------------------------------------------------
(***************************************************************************)
(* Sessions: what worlds do leaves them alone.                             *)
(***************************************************************************)

\* Between two streams nothing about the login was sent.
SameLogin(s, t) ==
  /\ DOMAIN s \subseteq DOMAIN t /\ \A i \in DOMAIN s : t[i] = s[i]
  /\ \A i \in DOMAIN t : i \in DOMAIN s \/ t[i][1] \in {"load", "char"}

LoginKept(g, h) ==
  \A c \in Clients : /\ h.player[c].ready = g.player[c].ready
                     /\ h.player[c].id = g.player[c].id
                     /\ SameLogin(g.sent[c], h.sent[c])

LEMMA SameLoginAppend ==
  ASSUME NEW s \in Seq(Notice), NEW w \in Worlds, NEW kind \in {"load", "char"}
  PROVE  SameLogin(s, Append(s, <<kind, w>>)) /\ Append(s, <<kind, w>>) \in Seq(Notice)
<1> DEFINE n == <<kind, w>>
           t == Append(s, n)
<1>1. n \in Notice /\ n[1] \in {"load", "char"}
  <2>1. n \in {"load", "char"} \X Worlds
    OBVIOUS
  <2> QED BY <2>1 DEF Notice
<1> HIDE DEF n
<1>2. /\ DOMAIN t = 1..(Len(s) + 1) /\ t[Len(s) + 1] = n /\ DOMAIN s = 1..Len(s) /\ Len(s) \in Nat
      /\ \A k \in DOMAIN s : t[k] = s[k]
  BY <1>1
<1>3. t \in Seq(Notice)
  BY <1>1
<1> HIDE DEF t
<1>4. SameLogin(s, t)
  BY <1>1, <1>2 DEF SameLogin
<1> QED BY <1>3, <1>4 DEF t, n

LEMMA DetailsLogin ==
  ASSUME NEW g \in GameType, NEW w \in Worlds, NEW sent, DetailsSent(g, w, sent)
  PROVE  \A c \in Clients : sent[c] \in Seq(Notice) /\ SameLogin(g.sent[c], sent[c])
<1> SUFFICES ASSUME NEW c \in Clients PROVE sent[c] \in Seq(Notice) /\ SameLogin(g.sent[c], sent[c])
  OBVIOUS
<1>1. g.sent[c] \in Seq(Notice)
  BY GameFields DEF Streams
<1>2. SameLogin(g.sent[c], g.sent[c])
  BY DEF SameLogin
<1>3. /\ SameLogin(g.sent[c], Append(g.sent[c], <<"char", w>>))
      /\ Append(g.sent[c], <<"char", w>>) \in Seq(Notice)
  BY <1>1, SameLoginAppend
<1> QED BY <1>1, <1>2, <1>3 DEF DetailsSent

LEMMA AddedLogin ==
  ASSUME NEW g \in GameType, NEW w \in Worlds, NEW p \in Clients, NEW entityId, NEW h,
         Added(g, p, w, entityId, h)
  PROVE  LoginKept(g, h)
<1>1. \A c \in Clients : SameLogin(g.sent[c], h.sent[c])
  <2> SUFFICES ASSUME NEW c \in Clients PROVE SameLogin(g.sent[c], h.sent[c])
    OBVIOUS
  <2>1. CASE h.sent = g.sent
    BY <2>1 DEF SameLogin
  <2>2. CASE \E sent : /\ DetailsSent([g EXCEPT !.player = Claimed(g, p, w)], w, sent)
                       /\ h.sent = [sent EXCEPT ![p] = Append(@, <<"load", w>>)]
    <3>1. PICK sent : /\ DetailsSent([g EXCEPT !.player = Claimed(g, p, w)], w, sent)
                      /\ h.sent = [sent EXCEPT ![p] = Append(@, <<"load", w>>)]
      BY <2>2
    <3> DEFINE claimed == [g EXCEPT !.player = Claimed(g, p, w)]
    <3>2. claimed \in GameType /\ claimed.sent = g.sent
      <4>1. Claimed(g, p, w) \in [Clients -> PlayerType]
        <5>1. g.player \in [Clients -> PlayerType]
          BY GameFields
        <5>2. [g.player[p] EXCEPT !.world = w] \in PlayerType
          BY <5>1 DEF PlayerType
        <5> QED BY <5>1, <5>2 DEF Claimed
      <4> QED BY <4>1 DEF GameType
    <3> HIDE DEF claimed
    <3>3. \A d \in Clients : sent[d] \in Seq(Notice) /\ SameLogin(g.sent[d], sent[d])
      BY <3>1, <3>2, DetailsLogin DEF claimed
    <3>4. SameLogin(sent[c], Append(sent[c], <<"load", w>>))
      BY <3>3, SameLoginAppend
    <3>5. SameLogin(g.sent[c], Append(sent[c], <<"load", w>>))
      BY <3>3, <3>4 DEF SameLogin
    <3>6. sent \in Streams
      BY <3>1 DEF DetailsSent
    <3>7. h.sent[c] = sent[c] \/ h.sent[c] = Append(sent[c], <<"load", w>>)
      BY <3>1, <3>6 DEF Streams
    <3> QED BY <3>3, <3>5, <3>7
  <2> QED BY <2>1, <2>2 DEF Added
<1> QED BY <1>1, AddedFields DEF LoginKept

LEMMA SessionsKept ==
  ASSUME Types, Types', Sessions, LoginKept(game, game'),
         UNCHANGED <<connected, datagrams, written, status, idCount, unauthenticated, players>>,
         UNCHANGED savedId \/ IdsTellApart',
         \A c \in Clients : handed[c] <= handed'[c] /\ handed'[c] <= Len(written[c])
  PROVE  Sessions'
<1>1. \A c \in Clients : /\ IsReady(c)' = IsReady(c) /\ IdOf(c)' = IdOf(c)
                         /\ InPlayers(c)' = InPlayers(c)
  BY DEF LoginKept, IsReady, IdOf, InPlayers
<1>2. Roster'
  <2>1. players \in Seq(Clients \union {Dangling}) /\ unauthenticated \in Seq(Clients)
    BY DEF Types, TypeOK
  <2>2. \A i \in DOMAIN players : players[i] \in Clients /\ IsReady(players[i])'
    BY <1>1, <2>1 DEF Sessions, Roster
  <2>3. \A i \in DOMAIN unauthenticated : ~IsReady(unauthenticated[i])'
    BY <1>1, <2>1 DEF Sessions, Roster
  <2> QED BY <1>1, <2>2, <2>3 DEF Sessions, Roster, IsReady
<1>3. IdsTellApart'
  BY <1>1 DEF Sessions, IdsTellApart
<1>4. \A c \in Clients : /\ Told(c, "details")' <=> Told(c, "details")
                         /\ Told(c, "hash")' <=> Told(c, "hash")
  BY DEF LoginKept, SameLogin, Told
<1>5. \A c \in Clients : LoginUnderWay(c)' <=> LoginUnderWay(c)
  BY <1>4 DEF LoginUnderWay
<1>6. OneLogin'
  <2>1. \A c \in Clients : \A i \in DOMAIN game'.sent[c] :
          game'.sent[c][i][1] = "details" => game'.sent[c][i][2] = IdOf(c)'
    BY <1>1 DEF LoginKept, SameLogin, Sessions, OneLogin
  <2>2. \A i \in DOMAIN unauthenticated : unauthenticated[i] \in Clients
    BY DEF Types, TypeOK
  <2>3. \A i \in DOMAIN unauthenticated :
          LoginUnderWay(unauthenticated[i])' => i = Len(unauthenticated)
    BY <1>5, <2>2 DEF Sessions, OneLogin
  <2>4. \A c \in Clients : IsReady(c)' <=> Told(c, "details")'
    BY <1>1, <1>4 DEF Sessions, OneLogin
  <2>5. \A c, d \in Clients : LoginUnderWay(c)' /\ LoginUnderWay(d)' => c = d
    BY <1>5 DEF Sessions, OneLogin
  <2>6. \A c \in Clients : c \notin connected => status[c] = "unknown"
    BY DEF Sessions, OneLogin
  <2> HIDE DEF Sessions
  <2> QED BY <2>1, <2>3, <2>4, <2>5, <2>6 DEF OneLogin, LoginUnderWay
<1>7. AuthenticatesOnce'
  <2> SUFFICES ASSUME NEW c \in Clients
               PROVE  /\ handed'[c] <= Len(written[c])
                      /\ \A i, j \in DOMAIN written[c] :
                           written[c][i] = written[c][j] /\ written[c][i] # "loaded" => i = j
                      /\ \A i, j \in DOMAIN game'.sent[c] :
                           game'.sent[c][i][1] = "hash" /\ game'.sent[c][j][1] = "hash" => i = j
                      /\ Told(c, "hash")' => \E i \in 1..handed'[c] : written[c][i] = "requestHash"
                      /\ IsReady(c)' => \E i \in 1..handed'[c] : written[c][i] = "auth"
    BY DEF AuthenticatesOnce
  <2>1. 1..handed[c] \subseteq 1..handed'[c]
    BY DEF Types, TypeOK, Feed!FeedTypeOK
  <2>2. \A i, j \in DOMAIN game'.sent[c] :
          game'.sent[c][i][1] = "hash" /\ game'.sent[c][j][1] = "hash" => i = j
    BY DEF LoginKept, SameLogin, Sessions, AuthenticatesOnce
  <2> QED BY <1>1, <1>4, <2>1, <2>2 DEF Sessions, AuthenticatesOnce
<1>8. DatagramsFindTheirs'
  <2>1. \A c \in Clients : /\ IsReady(c)' <=> IsReady(c)
                           /\ IdOf(c)' = IdOf(c) /\ (InPlayers(c)' <=> InPlayers(c))
    BY <1>1
  <2> QED BY <2>1 DEF Sessions, DatagramsFindTheirs
<1> QED BY <1>2, <1>3, <1>6, <1>7, <1>8 DEF Sessions

-----------------------------------------------------------------------------
(***************************************************************************)
(* Every step keeps the sessions and the places.                           *)
(***************************************************************************)
Inv == Types /\ Sessions /\ Peopled(game)

\* A player that has a character keeps it, or loses it, but gets no other.
CharactersKept ==
  \A c \in Clients : game.player[c].char > 0 /\ game'.player[c].char > 0
     => game'.player[c].char = game.player[c].char

\* What becomes of the worlds, if no address changes.
Steady == OneAddress /\ Places => Places' /\ CharactersKept

LEMMA SessionFacts ==
  ASSUME TakingTurns, Types, Sessions
  PROVE  /\ \A c \in Clients : InPlayers(c) => IsReady(c)
         /\ \A c \in Clients : IsReady(c) => IdOf(c) > Cardinality(Clients)
         /\ \A c, d \in Clients : IsReady(c) /\ IsReady(d) /\ IdOf(c) = IdOf(d) => c = d
         /\ Distinct(game)
         /\ \A c \in Seated : InPlayers(c)
<1>1. \A c \in Clients : InPlayers(c) => IsReady(c)
  BY DEF InPlayers, Sessions, Roster
<1>2. \A c \in Clients : AccountOf[c] \in Accounts
  BY SessionsAssumption DEF SessionsAssumption
<1>3. \A a \in Accounts : savedId[a] \in Nat
  BY SessionsAssumption DEF Types, TypeOK, PlayerIds, SessionsAssumption
<1>4. \A c \in Clients : IsReady(c) => IdOf(c) > Cardinality(Clients)
  BY <1>2, <1>3 DEF Sessions, IdsTellApart
<1>5. \A c, d \in Clients : IsReady(c) /\ IsReady(d) /\ IdOf(c) = IdOf(d) => c = d
  BY <1>2, <1>3 DEF Sessions, IdsTellApart, TakingTurns
<1>6. Distinct(game)
  BY <1>1, <1>5 DEF Distinct, IdOf
<1> QED BY <1>1, <1>4, <1>5, <1>6 DEF Seated

LEMMA PlacesAreSettled ==
  ASSUME Types
  PROVE  Places <=> Settled(game, Seated)
BY DEF Types, TypeOK, Places, Settled

LEMMA WarpPlayerKeeps ==
  ASSUME TakingTurns, Inv, Types',
         NEW w \in Worlds, NEW v \in Destinations, NEW e \in game.entities[w], WarpPlayer(w, e, v)
  PROVE  Inv' /\ Steady
<1>1. /\ UNCHANGED <<feedVars, clientVars, listVars, nullDereferenced>>
      /\ \/ game' = game
         \/ \E p \in Clients, left \in GameType :
              /\ IdOf(p) = e.owner /\ InPlayers(p)
              /\ Left(game, w, p, left)
              /\ game' = left \/ (v \in Worlds /\ Added(left, p, v, e.id, game'))
  BY WarpPlayerMeans DEF Inv, Types
<1>2. Seated' = Seated /\ game \in GameType /\ TypeOK
  BY <1>1 DEF Seated, InPlayers, feedVars, listVars, Inv, Types, TypeOK
<1>3. Places => Settled(game, Seated)
  BY PlacesAreSettled DEF Inv
<1>4. Distinct(game) /\ \A c \in Seated : InPlayers(c)
  BY SessionFacts DEF Inv
<1>5. \A c \in Clients : handed[c] <= handed'[c] /\ handed'[c] <= Len(written[c])
  BY <1>1 DEF feedVars, Inv, Types, TypeOK, Feed!FeedTypeOK, Sessions, AuthenticatesOnce
<1>6. ASSUME LoginKept(game, game'), Peopled(game')
      PROVE  Inv' /\ (Settled(game', Seated) => Places')
  <2>1. Sessions'
    BY <1>1, <1>5, <1>6, SessionsKept DEF Inv, feedVars, clientVars, listVars
  <2>2. Settled(game', Seated) => Places'
    BY <1>2 DEF Places, Settled
  <2> QED BY <1>6, <2>1, <2>2 DEF Inv
<1>7. CASE game' = game
  <2>1. LoginKept(game, game')
    BY <1>7 DEF LoginKept, SameLogin
  <2>2. Inv' /\ (Places => Places')
    BY <1>3, <1>6, <1>7, <2>1 DEF Inv
  <2> QED BY <1>7, <2>2 DEF CharactersKept, Steady
<1>8. ASSUME NEW p \in Clients, NEW left \in GameType,
             IdOf(p) = e.owner, InPlayers(p),
             Left(game, w, p, left),
             game' = left \/ (v \in Worlds /\ Added(left, p, v, e.id, game'))
      PROVE  Inv' /\ Steady
  <2>1. /\ left.player[p].world = NoWorld /\ left.player[p].char = 0
        /\ \A d \in Clients : /\ left.player[d].id = game.player[d].id
                              /\ left.player[d].addr = game.player[d].addr
                              /\ left.player[d].ready = game.player[d].ready
                              /\ d # p => left.player[d] = game.player[d]
    BY <1>2, <1>8, LeftFields
  <2>2. LoginKept(game, left)
    BY <1>8, <2>1 DEF LoginKept, SameLogin, Left
  <2>3. game.player \in [Clients -> PlayerType] /\ game.entities \in Entities
    BY <1>2, GameFields
  <2>4. Peopled(left) /\ \A u \in Worlds : left.entities[u] \subseteq game.entities[u]
    BY <1>2, <1>8, LeftPeopled DEF Inv
  <2>5. /\ left.nextEntity = game.nextEntity /\ left.sent = game.sent
        /\ e.id \in Nat /\ 0 < e.id /\ e.id < left.nextEntity
    BY <1>8, <2>3 DEF Left, Inv, Peopled, EntityIds, Entities
  <2>6. ASSUME Settled(game, Seated)
        PROVE  /\ Settled(left, Seated) /\ p \in Seated /\ game.player[p].addr # NoAddress
               /\ game.player[p].char = e.id
    <3>1. PICK c \in Members(game, w) : e = [id |-> game.player[c].char, owner |-> game.player[c].id]
      BY <2>6 DEF Settled, Agree
    <3>2. /\ c \in Clients /\ game.player[c].world = w /\ game.player[c].char > 0
          /\ e.id = game.player[c].char /\ e.owner = game.player[c].id
      BY <3>1 DEF Members
    <3>3. w # NoWorld /\ c \in Seated /\ game.player[c].addr # NoAddress
      BY <2>6, <3>2, SessionsAssumption DEF SessionsAssumption, Settled, Housed
    <3>4. c = p
      BY <1>4, <1>8, <3>2, <3>3 DEF Distinct, IdOf
    <3>5. Settled(left, Seated)
      BY <1>2, <1>4, <1>8, <2>6, <3>2, <3>4, LeftKeeps
    <3> QED BY <3>2, <3>3, <3>4, <3>5
  <2>7. CASE game' = left
    <3>1. Inv' /\ (Settled(left, Seated) => Places')
      BY <1>6, <2>2, <2>4, <2>7
    <3>2. CharactersKept
      BY <2>1, <2>7 DEF CharactersKept
    <3> QED BY <1>3, <2>6, <3>1, <3>2 DEF Steady
  <2>8. CASE v \in Worlds /\ Added(left, p, v, e.id, game')
    <3>1. Distinct(left)
      BY <1>4, <2>1 DEF Distinct
    <3>2. Peopled(game')
      <4>1. left.player[p].ready
        BY <1>8, <2>1, SessionFacts DEF Inv, IsReady
      <4>2. \A u \in Worlds : \A f \in left.entities[u] : f.id = e.id => f.owner = left.player[p].id
        BY <1>8, <2>1, <2>4 DEF Inv, Peopled, OneOwner, IdOf
      <4>3. \A d \in Clients : e.id > 0 /\ left.player[d].char = e.id => left.player[d].id = left.player[p].id
        <5> SUFFICES ASSUME NEW d \in Clients, left.player[d].char = e.id
                     PROVE  game.player[d].id = game.player[p].id
          BY <2>1
        <5>1. d # p
          BY <2>1, <2>5
        <5>2. game.player[d].char = e.id
          BY <2>1, <5>1
        <5>3. e.owner = game.player[d].id
          BY <5>2 DEF Inv, Peopled, CharacterIsOwn
        <5> QED BY <1>8, <5>3 DEF IdOf
      <4> QED BY <2>4, <2>5, <2>8, <4>1, <4>2, <4>3, AddedPeopled
    <3>3. LoginKept(left, game')
      BY <2>8, AddedLogin
    <3>4. LoginKept(game, game')
      BY <2>1, <2>5, <3>3 DEF LoginKept
    <3>5. Inv' /\ (Settled(game', Seated) => Places')
      BY <1>6, <3>2, <3>4
    <3>6. ASSUME Settled(game, Seated) PROVE Settled(game', Seated)
      <4>1. \A d \in Clients : left.player[d].char # e.id
        BY <2>1, <2>3, <2>5, <2>6, <3>6 DEF Settled, Housed, PlayerType
      <4> QED BY <1>2, <1>4, <2>1, <2>5, <2>6, <2>8, <3>1, <3>6, <4>1, AddedKeeps
    <3>7. ASSUME Settled(game, Seated) PROVE CharactersKept
      <4>1. /\ game'.player[p].char \in {left.player[p].char, e.id}
            /\ \A d \in Clients : d # p => game'.player[d] = left.player[d]
        BY <2>5, <2>8, AddedFields
      <4> QED BY <2>1, <2>6, <3>7, <4>1 DEF CharactersKept
    <3> QED BY <1>3, <3>5, <3>6, <3>7 DEF Steady
  <2> QED BY <1>8, <2>7, <2>8
<1> QED BY <1>1, <1>7, <1>8

LEMMA OnReceiveUdpTestKeeps ==
  ASSUME TakingTurns, Inv, Types', NEW d \in datagrams, OnReceiveUdpTest(d)
  PROVE  Inv' /\ Steady
<1>1. /\ UNCHANGED <<feedVars, clientVars, listVars, nullDereferenced, warps>>
      /\ \E p \in Clients :
           /\ IdOf(p) = d.id /\ game.player[p].addr # d.addr
           /\ \/ InPlayers(p)
              \/ /\ \A q \in Clients : IdOf(q) = d.id => ~InPlayers(q)
                 /\ \E i \in DOMAIN unauthenticated : unauthenticated[i] = p
           /\ UdpTested(p, d.addr, game')
  BY OnReceiveUdpTestMeans DEF Inv, Types
<1>2. PICK p \in Clients :
        /\ IdOf(p) = d.id /\ game.player[p].addr # d.addr
        /\ InPlayers(p) \/ \E i \in DOMAIN unauthenticated : unauthenticated[i] = p
        /\ UdpTested(p, d.addr, game')
  BY <1>1
<1>3. PICK c \in Clients : /\ \E k \in 0..MaxRebinds : d.addr = <<c, k>>
                           /\ IsReady(c) /\ d.id = IdOf(c)
                           /\ status[c] = "live" \/ ~InPlayers(c)
  BY DEF Inv, Sessions, DatagramsFindTheirs
<1>4. /\ \A q \in Clients : InPlayers(q) => IsReady(q)
      /\ \A q \in Clients : IsReady(q) => IdOf(q) > Cardinality(Clients)
      /\ \A q, r \in Clients : IsReady(q) /\ IsReady(r) /\ IdOf(q) = IdOf(r) => q = r
      /\ Distinct(game)
      /\ \A q \in Seated : InPlayers(q)
  BY SessionFacts DEF Inv
<1>5. game \in GameType /\ game.player \in [Clients -> PlayerType] /\ TypeOK
  BY GameFields DEF Inv, Types, TypeOK
<1>6. IsReady(p)
  <2>1. ~IsReady(p) => IdOf(p) <= Cardinality(Clients)
    BY DEF Inv, Sessions, IdsTellApart
  <2>2. IdOf(p) > Cardinality(Clients)
    BY <1>2, <1>3, <1>4
  <2>3. IdOf(p) \in Nat /\ Cardinality(Clients) \in Nat
    BY <1>5, SessionsAssumption, FS_CardinalityType DEF PlayerType, PlayerIds, IdOf, SessionsAssumption
  <2> QED BY <2>1, <2>2, <2>3
<1>7. p = c
  BY <1>2, <1>3, <1>4, <1>6
<1>8. InPlayers(p)
  BY <1>2, <1>6 DEF Inv, Sessions, Roster
<1>9. p \in Seated
  BY <1>3, <1>7, <1>8 DEF Seated
<1>10. PICK g \in GameType :
         /\ g.player = [game.player EXCEPT ![p].addr = d.addr]
         /\ g.sent = game.sent /\ g.listed = game.listed /\ g.entities = game.entities
         /\ g.nextEntity = game.nextEntity /\ g.saved = game.saved
         /\ game' = g \/ \E w \in Worlds : Added(g, p, w, 0, game')
  BY <1>2 DEF UdpTested
<1>11. /\ g.player[p].addr = d.addr
       /\ \A q \in Clients : /\ g.player[q].id = game.player[q].id
                             /\ g.player[q].ready = game.player[q].ready
                             /\ g.player[q].world = game.player[q].world
                             /\ g.player[q].char = game.player[q].char
                             /\ q # p => g.player[q] = game.player[q]
  BY <1>5, <1>10 DEF PlayerType
<1>12. Seated' = Seated
  BY <1>1 DEF Seated, InPlayers, feedVars, listVars
<1>13. \A q \in Clients : handed[q] <= handed'[q] /\ handed'[q] <= Len(written[q])
  BY <1>1, <1>5 DEF feedVars, TypeOK, Feed!FeedTypeOK, Inv, Sessions, AuthenticatesOnce
<1>14. ASSUME LoginKept(game, game'), Peopled(game')
       PROVE  Inv' /\ (Settled(game', Seated) => Places')
  <2>1. Sessions'
    BY <1>1, <1>13, <1>14, SessionsKept DEF Inv, feedVars, clientVars, listVars
  <2>2. Settled(game', Seated) => Places'
    BY <1>12 DEF Places, Settled
  <2> QED BY <1>14, <2>1, <2>2 DEF Inv
<1>15. LoginKept(game, g) /\ Peopled(g)
  <2>1. LoginKept(game, g)
    BY <1>10, <1>11 DEF LoginKept, SameLogin
  <2> QED BY <1>5, <1>10, <1>11, <2>1, PeopledKept DEF Inv
<1>16. ASSUME OneAddress, Settled(game, Seated)
       PROVE  /\ g.player[p].addr = <<p, 0>> /\ g.player[p].world = NoWorld /\ g.player[p].char = 0
              /\ Settled(g, Seated)
  <2>1. d.addr = <<p, 0>>
    BY <1>3, <1>7, <1>16 DEF OneAddress
  <2>2. game.player[p].world = NoWorld /\ game.player[p].char = 0
    BY <1>2, <1>5, <1>16, <2>1 DEF Settled, Housed, PlayerType
  <2>3. \A w \in Worlds : Members(g, w) = Members(game, w)
    BY <1>11 DEF Members
  <2>4. Housed(g, Seated)
    <3> SUFFICES ASSUME NEW q \in Clients
                 PROVE  LET r == g.player[q] IN
                          /\ r.addr \in {NoAddress, <<q, 0>>}
                          /\ r.addr = NoAddress => r.world = NoWorld
                          /\ r.world # NoWorld => q \in Seated
                          /\ r.char > 0 => r.world # NoWorld
                          /\ r.char < g.nextEntity
                          /\ \A s \in Clients : r.char > 0 /\ g.player[s].char = r.char => q = s
      BY DEF Housed
    <3>1. /\ game.player[q].addr \in {NoAddress, <<q, 0>>}
          /\ game.player[q].addr = NoAddress => game.player[q].world = NoWorld
          /\ game.player[q].world # NoWorld => q \in Seated
          /\ game.player[q].char > 0 => game.player[q].world # NoWorld
          /\ game.player[q].char < game.nextEntity
          /\ \A s \in Clients : game.player[q].char > 0 /\ game.player[s].char = game.player[q].char => q = s
      BY <1>16 DEF Settled, Housed
    <3> QED BY <1>10, <1>11, <2>1, <2>2, <3>1
  <2>5. Agree(g)
    <3>1. \A w \in Worlds : {[id |-> g.player[q].char, owner |-> g.player[q].id] : q \in Members(g, w)}
                        = {[id |-> game.player[q].char, owner |-> game.player[q].id] : q \in Members(game, w)}
      BY <1>11, <2>3 DEF Members
    <3>2. \A w \in Worlds : \A q \in Members(game, w) : g.player[q].id = game.player[q].id
      BY <1>11 DEF Members
    <3> QED BY <1>10, <1>16, <2>3, <3>1, <3>2 DEF Agree, Settled
  <2>6. Settled(g, Seated)
    BY <1>10, <1>16, <2>3, <2>4, <2>5 DEF Settled, Loaded
  <2> QED BY <1>11, <2>1, <2>2, <2>6
<1>17. Places => Settled(game, Seated)
  BY PlacesAreSettled DEF Inv
<1>18. CASE game' = g
  <2>1. Inv' /\ (Settled(g, Seated) => Places')
    BY <1>14, <1>15, <1>18
  <2>2. CharactersKept
    BY <1>11, <1>18 DEF CharactersKept
  <2> QED BY <1>16, <1>17, <2>1, <2>2 DEF Steady
<1>19. ASSUME NEW w \in Worlds, Added(g, p, w, 0, game') PROVE Inv' /\ Steady
  <2>1. 0 < g.nextEntity /\ \A v \in Worlds : \A e \in g.entities[v] : e.id # 0
    BY <1>15 DEF Peopled, EntityIds
  <2>2. Peopled(game')
    <3>1. g.player[p].ready
      BY <1>6, <1>11 DEF IsReady
    <3>2. \A q \in Clients : 0 > 0 /\ g.player[q].char = 0 => g.player[q].id = g.player[p].id
      OBVIOUS
    <3>3. \A v \in Worlds : \A e \in g.entities[v] : e.id = 0 => e.owner = g.player[p].id
      BY <2>1
    <3>4. 0 \in Nat
      OBVIOUS
    <3> QED BY <1>15, <1>19, <2>1, <3>1, <3>2, <3>3, <3>4, AddedPeopled
  <2>3. LoginKept(g, game')
    BY <1>19, AddedLogin
  <2>4. LoginKept(game, game')
    BY <1>10, <1>11, <2>3 DEF LoginKept
  <2>5. Inv' /\ (Settled(game', Seated) => Places')
    BY <1>14, <2>2, <2>4
  <2>6. ASSUME OneAddress, Settled(game, Seated) PROVE Settled(game', Seated) /\ CharactersKept
    <3>1. Distinct(g)
      BY <1>4, <1>11 DEF Distinct
    <3>2. /\ g.player[p].addr = <<p, 0>> /\ g.player[p].world = NoWorld /\ g.player[p].char = 0
          /\ Settled(g, Seated)
      BY <1>16, <2>6
    <3>3. g.player[p].addr # NoAddress
      BY <3>2 DEF NoAddress
    <3>4. \A q \in Clients : 0 > 0 => g.player[q].char # 0
      OBVIOUS
    <3>5. 0 \in Nat
      OBVIOUS
    <3>6. Settled(game', Seated)
      BY <1>4, <1>5, <1>9, <1>19, <2>1, <3>1, <3>2, <3>3, <3>4, <3>5, AddedKeeps
    <3>7. \A q \in Clients : q # p => game'.player[q] = g.player[q]
      BY <1>19, AddedFields
    <3>8. CharactersKept
      BY <1>11, <3>2, <3>7 DEF CharactersKept
    <3> QED BY <3>6, <3>8
  <2> QED BY <1>17, <2>5, <2>6 DEF Steady
<1> QED BY <1>10, <1>18, <1>19

\* The details that a report of a loaded world sets off.
LEMMA WorldLoadedKeeps ==
  ASSUME TakingTurns, Inv, NEW c \in Clients, HandleWorldLoaded(c)
  PROVE  /\ Settled(game, Seated) => Settled(game', Seated)
         /\ LoginKept(game, game') /\ Peopled(game') /\ game'.player = game.player
<1> DEFINE w == game.player[c].world
<1>1. game \in GameType /\ game.player \in [Clients -> PlayerType] /\ TypeOK
  BY GameFields DEF Inv, Types, TypeOK
<1>2. w \in Worlds \union {NoWorld}
  BY <1>1 DEF PlayerType
<1>3. game' = IF w = NoWorld THEN game ELSE SendCharacterDetails(game, w)
  BY DEF HandleWorldLoaded
<1>5. Distinct(game) /\ \A q \in Seated : InPlayers(q)
  BY SessionFacts DEF Inv
<1> HIDE DEF w
<1>6. CASE w = NoWorld
  BY <1>3, <1>6 DEF LoginKept, SameLogin, Inv
<1>7. CASE w \in Worlds
  <2> DEFINE h == SendCharacterDetails(game, w)
  <2>1. OnlySent(game, h) /\ DetailsSent(game, w, h.sent)
    BY <1>1, <1>7, SendCharacterDetailsMeans
  <2>2. game' = h
    BY <1>3, <1>7, SessionsAssumption DEF SessionsAssumption
  <2> HIDE DEF h
  <2>3. /\ h \in GameType
        /\ h.player = game.player /\ h.listed = game.listed /\ h.entities = game.entities
        /\ h.nextEntity = game.nextEntity
    BY <2>1 DEF OnlySent
  <2>4. ASSUME Settled(game, Seated) PROVE Settled(h, Seated)
    <3>1. \A q \in Clients : IsRecipient(game, w, q) => q \in Members(game, w)
      BY <1>1, <1>5, <1>7, <2>4, RecipientsAreMembers
    <3>2. /\ \A q \in Clients : LoadsFirst(h.sent[q])
          /\ \A v \in Worlds : \A q \in Members(game, v) : LastLoad(h.sent[q], v)
      BY <1>1, <1>7, <2>1, <2>4, <3>1, DetailsKeep
    <3>3. \A v \in Worlds : Members(h, v) = Members(game, v)
      BY <2>3 DEF Members
    <3>4. Housed(h, Seated) /\ Agree(h) /\ Loaded(h)
      BY <2>3, <2>4, <3>2, <3>3 DEF Settled, Housed, Agree, Loaded
    <3> QED BY <2>3, <3>2, <3>4 DEF Settled
  <2>5. LoginKept(game, h)
    BY <1>1, <1>7, <2>1, <2>3, DetailsLogin DEF LoginKept
  <2>6. Peopled(h)
    BY <1>1, <2>3, PeopledKept DEF Inv
  <2> QED BY <2>2, <2>3, <2>4, <2>5, <2>6
<1> QED BY <1>2, <1>6, <1>7

\* A login, a hash, an id: none of it disturbs the worlds.
LEMMA PlacesKept ==
  ASSUME NEW g \in GameType, NEW h \in GameType, NEW seated, NEW seats, Settled(g, seated),
         \A c \in Clients : /\ h.player[c].world = g.player[c].world
                            /\ h.player[c].char = g.player[c].char
                            /\ h.player[c].addr = g.player[c].addr
                            /\ g.player[c].world # NoWorld
                                 => c \in seats /\ h.player[c].id = g.player[c].id,
         h.listed = g.listed, h.entities = g.entities, h.nextEntity = g.nextEntity,
         \A c \in Clients : \/ h.sent[c] = g.sent[c]
                            \/ \E n \in Notice : /\ n[1] \in {"hash", "details"}
                                                 /\ h.sent[c] = Append(g.sent[c], n)
  PROVE  Settled(h, seats)
<1>1. \A w \in Worlds : Members(h, w) = Members(g, w)
  BY DEF Members
<1>2. \A w \in Worlds : \A c \in Members(g, w) : h.player[c].id = g.player[c].id
  BY SessionsAssumption DEF Members, SessionsAssumption
<1>3. Housed(h, seats)
  BY DEF Settled, Housed
<1>4. Agree(h)
  <2>1. \A w \in Worlds : {[id |-> h.player[c].char, owner |-> h.player[c].id] : c \in Members(h, w)}
                      = {[id |-> g.player[c].char, owner |-> g.player[c].id] : c \in Members(g, w)}
    BY <1>1, <1>2 DEF Members
  <2> QED BY <1>1, <1>2, <2>1 DEF Agree, Settled
<1>5. ASSUME NEW c \in Clients
      PROVE  /\ LoadsFirst(h.sent[c])
             /\ \A w \in Worlds : c \in Members(g, w) => LastLoad(h.sent[c], w)
  <2>1. /\ LoadsFirst(g.sent[c]) /\ g.sent[c] \in Seq(Notice)
        /\ \A w \in Worlds : c \in Members(g, w) => LastLoad(g.sent[c], w)
    BY GameFields DEF Settled, Loaded, Streams
  <2>2. ASSUME NEW n \in Notice, n[1] \in {"hash", "details"}, h.sent[c] = Append(g.sent[c], n)
        PROVE  /\ LoadsFirst(h.sent[c])
               /\ \A w \in Worlds : c \in Members(g, w) => LastLoad(h.sent[c], w)
    BY <2>1, <2>2, LoadsFirstStays, LastLoadStays
  <2> QED BY <2>1, <2>2
<1>6. Loaded(h)
  BY <1>1, <1>5 DEF Loaded, Members
<1> QED BY <1>3, <1>4, <1>5, <1>6 DEF Settled

LEMMA ClientStepPlaces ==
  ASSUME UNCHANGED <<game, status, players>>
  PROVE  Places' <=> Places
<1>1. Seated' = Seated
  BY DEF Seated, InPlayers
<1> QED BY <1>1 DEF Places

LEMMA ConnectKeeps ==
  ASSUME TakingTurns, Inv, Types', NEW c \in Clients, Connect(c),
         UNCHANGED <<feedVars, listVars, game, nullDereferenced, warps>>
  PROVE  Sessions'
<1> USE DEF Inv
<1>1. UNCHANGED <<status, handed, idCount, savedId, unauthenticated, players, game, written, port>>
  BY DEF Connect, feedVars, listVars
<1>2. /\ connected' = connected \union {c} /\ datagrams' \subseteq datagrams /\ c \notin connected
      /\ \A d \in Clients : ~LoginUnderWay(d)
  BY DEF Connect, TakingTurns
<1>3. \A d \in Clients : /\ (IsReady(d)' <=> IsReady(d)) /\ IdOf(d)' = IdOf(d)
                         /\ (InPlayers(d)' <=> InPlayers(d))
                         /\ (LoginUnderWay(d)' => d = c)
  BY <1>1, <1>2 DEF IsReady, IdOf, InPlayers, LoginUnderWay, Told
<1>4. unauthenticated \in Seq(Clients) /\ players \in Seq(Clients \union {Dangling})
  BY DEF Types, TypeOK
<1>5. Roster'
  BY <1>1, <1>2 DEF Sessions, Roster, IsReady, InPlayers
<1>6. IdsTellApart'
  BY <1>1 DEF Sessions, IdsTellApart, IsReady, IdOf
<1>7. OneLogin'
  <2>1. \A i \in DOMAIN unauthenticated : unauthenticated[i] # c
    BY <1>2 DEF Sessions, Roster
  <2>2. \A i \in DOMAIN unauthenticated : ~LoginUnderWay(unauthenticated[i])'
    BY <1>1, <1>3, <1>4, <2>1
  <2>3. /\ \A d \in Clients : d \notin connected' => status[d] = "unknown"
        /\ \A d, e \in Clients : LoginUnderWay(d)' /\ LoginUnderWay(e)' => d = e
    BY <1>2, <1>3 DEF Sessions, OneLogin
  <2> QED BY <1>1, <2>2, <2>3 DEF Sessions, OneLogin, IsReady, IdOf, Told, LoginUnderWay
<1>8. AuthenticatesOnce'
  BY <1>1 DEF Sessions, AuthenticatesOnce, Told, IsReady
<1>9. DatagramsFindTheirs'
  BY <1>1, <1>2, <1>3 DEF Sessions, DatagramsFindTheirs
<1> QED BY <1>5, <1>6, <1>7, <1>8, <1>9 DEF Sessions

LEMMA WriteUdpTestKeeps ==
  ASSUME TakingTurns, Inv, Types', NEW c \in Clients, WriteUdpTest(c),
         UNCHANGED <<feedVars, listVars, game, nullDereferenced, warps>>
  PROVE  Sessions'
<1> USE DEF Inv
<1>1. UNCHANGED <<status, handed, idCount, savedId, unauthenticated, players, game, written,
                  port, connected>>
  BY DEF WriteUdpTest, feedVars, listVars
<1>2. /\ datagrams' = datagrams \union {[id |-> ToldId(c), addr |-> <<c, port[c]>>]}
      /\ status[c] = "live" /\ Told(c, "details")
  BY DEF WriteUdpTest
<1>3. Roster' /\ IdsTellApart' /\ OneLogin' /\ AuthenticatesOnce'
  BY <1>1 DEF Sessions, Roster, IdsTellApart, OneLogin, AuthenticatesOnce, IsReady, IdOf,
              InPlayers, Told, LoginUnderWay
<1>4. ToldId(c) = IdOf(c) /\ IsReady(c)
  BY <1>2, ToldIdMeans DEF Sessions, OneLogin, Types
<1>5. port[c] \in 0..MaxRebinds
  BY DEF Types, TypeOK
<1>6. DatagramsFindTheirs'
  <2> DEFINE addr == <<c, port[c]>>
             d    == [id |-> ToldId(c), addr |-> addr]
  <2>1. d.addr = <<c, port[c]>> /\ d.id = IdOf(c)
    BY <1>4
  <2> HIDE DEF d
  <2>2. datagrams' = datagrams \union {d}
    BY <1>2 DEF d
  <2>3. \A e \in Clients : (IsReady(e)' <=> IsReady(e)) /\ IdOf(e)' = IdOf(e)
                           /\ (InPlayers(e)' <=> InPlayers(e)) /\ status'[e] = status[e]
    BY <1>1 DEF IsReady, IdOf, InPlayers
  <2>4. \E k \in 0..MaxRebinds : d.addr = <<c, k>>
    BY <1>5, <2>1
  <2> QED BY <1>2, <1>4, <2>1, <2>2, <2>3, <2>4 DEF Sessions, DatagramsFindTheirs
<1> QED BY <1>3, <1>6 DEF Sessions

\* At most one of each: then counting tells whether there is one.
LEMMA CountingOne ==
  ASSUME NEW S, IsFiniteSet(S), \A x, y \in S : x = y
  PROVE  Cardinality(S) \in {0, 1} /\ (Cardinality(S) = 0 <=> S = {})
<1>1. CASE S = {}
  BY <1>1, FS_EmptySet
<1>2. CASE S # {}
  <2>1. PICK x \in S : TRUE
    BY <1>2
  <2>2. S = {x}
    BY <2>1
  <2>3. Cardinality({x}) = 1
    BY FS_Singleton
  <2> QED BY <1>2, <2>2, <2>3
<1> QED BY <1>1, <1>2

LEMMA AuthIsNew ==
  ASSUME Inv, NEW c \in Clients, Written(c, "auth") < NoticesOf(c, "hash")
  PROVE  \A i \in DOMAIN written[c] : written[c][i] # "auth"
<1> DEFINE auths  == {i \in DOMAIN written[c] : written[c][i] = "auth"}
           hashes == {i \in DOMAIN game.sent[c] : game.sent[c][i][1] = "hash"}
<1>1. written[c] \in Seq(TcpMessages) /\ game.sent[c] \in Seq(Notice)
  BY GameFields DEF Inv, Types, TypeOK, Streams
<1>2. /\ auths \subseteq 1..Len(written[c]) /\ hashes \subseteq 1..Len(game.sent[c])
      /\ Len(written[c]) \in Nat /\ Len(game.sent[c]) \in Nat
  BY <1>1
<1>3. IsFiniteSet(auths) /\ IsFiniteSet(hashes)
  <2> HIDE DEF auths, hashes
  <2>1. \A n \in Nat : IsFiniteSet(1..n)
    BY FS_Interval
  <2> QED BY <1>2, <2>1, FS_Subset
<1>4. /\ \A i, j \in auths : i = j
      /\ \A i, j \in hashes : i = j
  BY DEF Inv, Sessions, AuthenticatesOnce
<1>5. Cardinality(auths) < Cardinality(hashes)
  BY DEF Written, NoticesOf
<1> HIDE DEF auths, hashes
<1>6. Cardinality(auths) = 0
  BY <1>3, <1>4, <1>5, CountingOne
<1>7. auths = {}
  BY <1>3, <1>4, <1>6, CountingOne
<1> QED BY <1>7 DEF auths

LEMMA WriteTcpKeeps ==
  ASSUME TakingTurns, Inv, Types', NEW c \in Clients, NEW m \in TcpMessages, WriteTcp(c, m),
         UNCHANGED <<feedVars, listVars, game, nullDereferenced, warps>>
  PROVE  Sessions'
<1> USE DEF Inv
<1>1. UNCHANGED <<status, handed, idCount, savedId, unauthenticated, players, game, datagrams,
                  port, connected>>
  BY DEF WriteTcp, feedVars, listVars
<1>2. /\ written' = [written EXCEPT ![c] = Append(@, m)]
      /\ CASE m = "requestHash" -> ~Told(c, "load") /\ (Orderly => ~Contains(written[c], m))
           [] m = "auth"        -> Written(c, m) < NoticesOf(c, "hash")
           [] m = "loaded"      -> Written(c, m) < NoticesOf(c, "load")
  BY DEF WriteTcp
<1>3. Roster' /\ IdsTellApart' /\ OneLogin' /\ DatagramsFindTheirs'
  BY <1>1 DEF Sessions, Roster, IdsTellApart, OneLogin, DatagramsFindTheirs, IsReady, IdOf,
              InPlayers, Told, LoginUnderWay
<1>4. m # "loaded" => \A i \in DOMAIN written[c] : written[c][i] # m
  <2>1. CASE m = "requestHash"
    <3>1. ~Contains(written[c], m)
      BY <1>2, <2>1 DEF TakingTurns
    <3>2. written[c] \in Seq(TcpMessages)
      BY DEF Types, TypeOK
    <3> QED BY <3>1, <3>2 DEF Contains
  <2>2. CASE m = "auth"
    BY <1>2, <2>2, AuthIsNew
  <2> QED BY <2>1, <2>2 DEF TcpMessages
<1>5. AuthenticatesOnce'
  <2> SUFFICES ASSUME NEW d \in Clients
               PROVE  /\ handed[d] <= Len(written'[d])
                      /\ \A i, j \in DOMAIN written'[d] :
                           written'[d][i] = written'[d][j] /\ written'[d][i] # "loaded" => i = j
                      /\ \A i, j \in DOMAIN game.sent[d] :
                           game.sent[d][i][1] = "hash" /\ game.sent[d][j][1] = "hash" => i = j
                      /\ Told(d, "hash") => \E i \in 1..handed[d] : written'[d][i] = "requestHash"
                      /\ IsReady(d) => \E i \in 1..handed[d] : written'[d][i] = "auth"
    BY <1>1 DEF AuthenticatesOnce, Told, IsReady
  <2>1. /\ handed[d] <= Len(written[d])
        /\ \A i, j \in DOMAIN written[d] :
             written[d][i] = written[d][j] /\ written[d][i] # "loaded" => i = j
        /\ \A i, j \in DOMAIN game.sent[d] :
             game.sent[d][i][1] = "hash" /\ game.sent[d][j][1] = "hash" => i = j
        /\ Told(d, "hash") => \E i \in 1..handed[d] : written[d][i] = "requestHash"
        /\ IsReady(d) => \E i \in 1..handed[d] : written[d][i] = "auth"
    BY DEF Sessions, AuthenticatesOnce
  <2>2. written \in [Clients -> Seq(TcpMessages)] /\ handed[d] \in Nat
    BY DEF Types, TypeOK, Feed!FeedTypeOK
  <2>3. CASE d # c
    BY <1>2, <2>1, <2>2, <2>3
  <2>4. CASE d = c
    <3> DEFINE s == written[c]
               t == Append(s, m)
    <3>1. /\ written'[c] = t /\ s \in Seq(TcpMessages)
      BY <1>2, <2>2
    <3>2. /\ DOMAIN t = 1..(Len(s) + 1) /\ t[Len(s) + 1] = m /\ DOMAIN s = 1..Len(s)
          /\ Len(s) \in Nat /\ Len(t) = Len(s) + 1
          /\ \A k \in DOMAIN s : t[k] = s[k]
      BY <3>1
    <3> HIDE DEF s, t
    <3>3. \A i, j \in DOMAIN t : t[i] = t[j] /\ t[i] # "loaded" => i = j
      <4>1. \A i, j \in DOMAIN s : s[i] = s[j] /\ s[i] # "loaded" => i = j
        BY <2>1, <2>4 DEF s
      <4>2. m # "loaded" => \A i \in DOMAIN s : s[i] # m
        BY <1>4 DEF s
      <4> QED BY <3>2, <4>1, <4>2
    <3>4. handed[c] <= Len(t) /\ \A k \in 1..handed[c] : t[k] = s[k]
      BY <2>1, <2>2, <2>4, <3>2 DEF s
    <3> QED BY <2>1, <2>4, <3>1, <3>3, <3>4 DEF s
  <2> QED BY <2>3, <2>4
<1> QED BY <1>3, <1>5 DEF Sessions

LEMMA ClientStepKeeps ==
  ASSUME TakingTurns, Inv, Types', ClientStep
  PROVE  Inv' /\ Steady
<1>1. UNCHANGED <<feedVars, listVars, game, nullDereferenced, warps>>
  BY DEF ClientStep
<1>2. ASSUME NEW c \in Clients, Rebind(c) PROVE Sessions'
  <2>1. UNCHANGED <<connected, written, datagrams>>
    BY <1>2 DEF Rebind
  <2>2. LoginKept(game, game')
    BY <1>1 DEF LoginKept, SameLogin
  <2>3. \A d \in Clients : handed[d] <= handed'[d] /\ handed'[d] <= Len(written[d])
    BY <1>1 DEF feedVars, Inv, Types, TypeOK, Feed!FeedTypeOK, Sessions, AuthenticatesOnce
  <2> QED BY <1>1, <2>1, <2>2, <2>3, SessionsKept DEF Inv, feedVars, listVars
<1>3. Sessions'
  BY <1>1, <1>2, ConnectKeeps, WriteUdpTestKeeps, WriteTcpKeeps DEF ClientStep
<1>4. Places' <=> Places
  BY <1>1, ClientStepPlaces DEF feedVars, listVars
<1> QED BY <1>1, <1>3, <1>4 DEF Inv, CharactersKept, Steady

\* Sessions only end: a player may be taken off the list, a client be gone.
LEMMA SessionsEnd ==
  ASSUME Types, Types', Sessions,
         UNCHANGED <<connected, datagrams, written, idCount, savedId, unauthenticated, handed>>,
         game'.sent = game.sent,
         \A c \in Clients : game'.player[c].ready = game.player[c].ready
                            /\ game'.player[c].id = game.player[c].id,
         \A c \in Clients : /\ status'[c] = "unknown" <=> status[c] = "unknown"
                            /\ status'[c] = "live" => status[c] = "live"
                            /\ status[c] = "gone" => status'[c] = "gone"
                            /\ status[c] = "live" => status'[c] = "live" \/ ~InPlayers(c)',
         \A i \in DOMAIN players' : \E j \in DOMAIN players : players'[i] = players[j],
         \A i, j \in DOMAIN players' : players'[i] = players'[j] => i = j,
         \A c \in Clients : status'[c] = "live" /\ InPlayers(c) => InPlayers(c)'
  PROVE  Sessions'
<1>1. \A c \in Clients : /\ IsReady(c)' <=> IsReady(c)
                         /\ IdOf(c)' = IdOf(c)
                         /\ InPlayers(c)' => InPlayers(c)
  BY DEF IsReady, IdOf, InPlayers
<1>2. unauthenticated \in Seq(Clients)
  BY DEF Types, TypeOK
<1>3. Roster'
  <2>1. \A i \in DOMAIN players' : /\ players'[i] \in Clients /\ status'[players'[i]] # "unknown"
                                   /\ game'.player[players'[i]].ready
    BY DEF Sessions, Roster, IsReady
  <2>2. \A i \in DOMAIN unauthenticated :
          /\ unauthenticated[i] \in connected /\ status'[unauthenticated[i]] # "unknown"
          /\ ~game'.player[unauthenticated[i]].ready
    BY <1>2 DEF Sessions, Roster, IsReady
  <2>3. \A c \in Clients : status'[c] = "live" /\ IsReady(c)' => InPlayers(c)'
    BY <1>1 DEF Sessions, Roster
  <2>4. \A c \in Clients : status'[c] = "unknown" => ~IsReady(c)'
    BY <1>1 DEF Sessions, Roster
  <2>5. \A i, j \in DOMAIN unauthenticated : unauthenticated[i] = unauthenticated[j] => i = j
    BY DEF Sessions, Roster
  <2> QED BY <2>1, <2>2, <2>3, <2>4, <2>5 DEF Roster, IsReady
<1>4. IdsTellApart'
  BY <1>1 DEF Sessions, IdsTellApart
<1>5. OneLogin'
  <2>1. \A c \in Clients : Told(c, "details")' <=> Told(c, "details")
    BY DEF Told
  <2>2. \A c \in Clients : LoginUnderWay(c)' => LoginUnderWay(c)
    BY <2>1 DEF LoginUnderWay
  <2>3. \A i \in DOMAIN unauthenticated :
          LoginUnderWay(unauthenticated[i])' => i = Len(unauthenticated)
    BY <1>2, <2>2 DEF Sessions, OneLogin
  <2>4. \A c \in Clients : c \notin connected => status'[c] = "unknown"
    BY DEF Sessions, OneLogin
  <2>5. \A c \in Clients : IsReady(c)' <=> Told(c, "details")'
    BY <1>1, <2>1 DEF Sessions, OneLogin
  <2>6. \A c, d \in Clients : LoginUnderWay(c)' /\ LoginUnderWay(d)' => c = d
    BY <2>2 DEF Sessions, OneLogin
  <2>7. \A c \in Clients : \A i \in DOMAIN game.sent[c] :
          game.sent[c][i][1] = "details" => game.sent[c][i][2] = IdOf(c)'
    BY <1>1 DEF Sessions, OneLogin
  <2> QED BY <2>3, <2>4, <2>5, <2>6, <2>7 DEF OneLogin, LoginUnderWay
<1>6. AuthenticatesOnce'
  <2>1. \A c \in Clients : Told(c, "hash")' <=> Told(c, "hash")
    BY DEF Told
  <2> QED BY <1>1, <2>1 DEF Sessions, AuthenticatesOnce
<1>7. DatagramsFindTheirs'
  <2> SUFFICES ASSUME NEW d \in datagrams
               PROVE  \E c \in Clients : /\ \E k \in 0..MaxRebinds : d.addr = <<c, k>>
                                         /\ IsReady(c)' /\ d.id = IdOf(c)'
                                         /\ status'[c] = "live" \/ ~InPlayers(c)'
    BY DEF DatagramsFindTheirs
  <2>1. PICK c \in Clients : /\ \E k \in 0..MaxRebinds : d.addr = <<c, k>>
                             /\ IsReady(c) /\ d.id = IdOf(c)
                             /\ status[c] = "live" \/ ~InPlayers(c)
    BY DEF Sessions, DatagramsFindTheirs
  <2> QED BY <1>1, <2>1
<1> QED BY <1>3, <1>4, <1>5, <1>6, <1>7 DEF Sessions

LEMMA BatchKeeps ==
  ASSUME TakingTurns, Inv, Types', Batch
  PROVE  Inv' /\ Steady
<1>1. /\ UNCHANGED <<connected, written, port, datagrams, idCount, savedId, unauthenticated,
                     players, game, handed>>
      /\ \A c \in Clients : status'[c] = IF phase = "packets" /\ status[c] = "draining"
                                        THEN "gone" ELSE status[c]
  BY DEF Batch, Feed!BeginBatch, Feed!BeginRemoves, Feed!BeginPackets, Feed!EndBatch,
         clientVars, listVars
<1>2. \A c \in Clients : InPlayers(c)' <=> InPlayers(c)
  BY <1>1 DEF InPlayers
<1>3. Seated' = Seated
  BY <1>1, <1>2 DEF Seated
<1>4. Places' <=> Places
  BY <1>1, <1>3 DEF Places
<1>5. Sessions'
  <2>1. \A i, j \in DOMAIN players : players[i] = players[j] => i = j
    BY DEF Inv, Sessions, Roster
  <2>2. \A c \in Clients : /\ status'[c] = "unknown" <=> status[c] = "unknown"
                           /\ status'[c] = "live" <=> status[c] = "live"
                           /\ status[c] = "gone" => status'[c] = "gone"
    BY <1>1
  <2> QED BY <1>1, <1>2, <2>1, <2>2, SessionsEnd DEF Inv
<1> QED BY <1>1, <1>4, <1>5 DEF Inv, CharactersKept, Steady

LEMMA OnClientRemoveKeeps ==
  ASSUME TakingTurns, Inv, Types', NEW c \in Clients, OnClientRemove(c)
  PROVE  Inv' /\ Steady
<1> DEFINE i == FirstOf(players, {c})
           w == game.player[c].world
<1>1. /\ UNCHANGED <<connected, written, port, datagrams, idCount, savedId, unauthenticated, handed>>
      /\ status[c] = "live" /\ status' = [status EXCEPT ![c] = "draining"]
      /\ IF i = 0 THEN UNCHANGED <<players, game>>
         ELSE /\ players' = RemoveAt(players, i)
              /\ game' = IF w = NoWorld THEN game ELSE RemovePlayer(game, w, IdOf(c))
  BY DEF OnClientRemove, Feed!HandRemove, clientVars, IdOf
<1>2. /\ game \in GameType /\ game.player \in [Clients -> PlayerType] /\ TypeOK
      /\ players \in Seq(Clients \union {Dangling})
      /\ status \in [Clients -> Feed!Statuses]
  BY GameFields DEF Inv, Types, TypeOK, Feed!FeedTypeOK
<1>3. \A d \in Clients : status'[d] = IF d = c THEN "draining" ELSE status[d]
  BY <1>1, <1>2
<1>4. \/ i = 0 /\ \A k \in DOMAIN players : players[k] # c
      \/ i \in DOMAIN players /\ i > 0 /\ players[i] = c
  BY <1>2, FirstOfMeans
<1>5. \A k, l \in DOMAIN players : players[k] = players[l] => k = l
  BY DEF Inv, Sessions, Roster
<1>6. /\ \A k \in DOMAIN players' : \E l \in DOMAIN players : players'[k] = players[l]
      /\ \A k, l \in DOMAIN players' : players'[k] = players'[l] => k = l
      /\ \A d \in Clients : InPlayers(d)' <=> InPlayers(d) /\ d # c
  <2> HIDE DEF i
  <2>1. CASE i = 0
    BY <1>1, <1>4, <1>5, <2>1 DEF InPlayers
  <2>2. CASE i \in DOMAIN players /\ i > 0 /\ players[i] = c
    <3> DEFINE s == RemoveAt(players, i)
    <3>1. /\ s \in Seq(Clients \union {Dangling}) /\ Len(s) = Len(players) - 1
          /\ \A j \in DOMAIN s : s[j] = IF j < i THEN players[j] ELSE players[j + 1]
      BY <1>2, <2>2, RemoveAtMeans
    <3>2. players' = s
      BY <1>1, <2>2
    <3> HIDE DEF s
    <3>3. DOMAIN s = 1..(Len(players) - 1) /\ Len(players) \in Nat /\ DOMAIN players = 1..Len(players)
      BY <1>2, <3>1
    <3>4. \A k \in DOMAIN s : LET l == IF k < i THEN k ELSE k + 1 IN
                                l \in DOMAIN players /\ l # i /\ s[k] = players[l]
      BY <2>2, <3>1, <3>3
    <3>5. \A k, l \in DOMAIN s : s[k] = s[l] => k = l
      BY <1>5, <2>2, <3>3, <3>4
    <3>6. ASSUME NEW l \in DOMAIN players, l # i PROVE \E k \in DOMAIN s : s[k] = players[l]
      <4>1. CASE l < i
        <5>1. l \in DOMAIN s
          BY <2>2, <3>3, <4>1
        <5> QED BY <3>1, <4>1, <5>1
      <4>2. CASE l > i
        <5>1. l - 1 \in DOMAIN s /\ ~(l - 1 < i) /\ (l - 1) + 1 = l
          BY <2>2, <3>3, <4>2
        <5> QED BY <3>1, <5>1
      <4> QED BY <2>2, <3>3, <3>6, <4>1, <4>2
    <3>7. ASSUME NEW d \in Clients PROVE InPlayers(d)' <=> InPlayers(d) /\ d # c
      BY <1>5, <2>2, <3>2, <3>4, <3>6 DEF InPlayers
    <3> QED BY <3>2, <3>4, <3>5, <3>7
  <2> QED BY <1>4, <2>1, <2>2
<1>7. Seated' = Seated \ {c}
  BY <1>3, <1>6 DEF Seated
<1>8. (Places => Settled(game, Seated)) /\ Distinct(game) /\ \A q \in Seated : InPlayers(q)
  BY PlacesAreSettled, SessionFacts DEF Inv
<1>9. CASE game' = game /\ (w = NoWorld \/ i = 0)
  <2>1. ASSUME Settled(game, Seated) PROVE Places'
    <3>1. w = NoWorld
      BY <1>4, <1>8, <1>9, <2>1 DEF InPlayers, Settled, Housed
    <3>2. Settled(game', Seated')
      BY <1>7, <1>9, <2>1, <3>1 DEF Settled, Housed
    <3> QED BY <3>2 DEF Places, Settled
  <2>2. Sessions'
    BY <1>1, <1>3, <1>6, <1>9, SessionsEnd DEF Inv
  <2> QED BY <1>8, <1>9, <2>1, <2>2 DEF Inv, CharactersKept, Steady
<1>10. CASE w # NoWorld /\ i # 0 /\ game' = RemovePlayer(game, w, IdOf(c))
  <2>1. w \in Worlds /\ IdOf(c) \in PlayerIds
    BY <1>2, <1>10 DEF PlayerType, IdOf
  <2>2. InPlayers(c)
    BY <1>4, <1>10 DEF InPlayers
  <2> HIDE DEF w, i
  <2>3. \E p \in Clients : IdOf(p) = IdOf(c) /\ InPlayers(p) /\ Left(game, w, p, game')
    BY <1>2, <1>10, <2>1, <2>2, RemovePlayerMeans DEF IdOf
  <2>4. Left(game, w, c, game')
    BY <1>8, <2>2, <2>3 DEF Distinct, IdOf
  <2>5. game.player[c].world = w
    BY DEF w
  <2>6. /\ game'.player[c].world = NoWorld /\ game'.player[c].char = 0
        /\ \A d \in Clients : /\ game'.player[d].id = game.player[d].id
                              /\ game'.player[d].ready = game.player[d].ready
                              /\ d # c => game'.player[d] = game.player[d]
    BY <1>2, <2>4, LeftFields
  <2>7. ASSUME Settled(game, Seated) PROVE Places'
    <3>1. Settled(game', Seated)
      BY <1>2, <1>8, <2>1, <2>4, <2>5, <2>7, LeftKeeps
    <3>2. Settled(game', Seated')
      BY <1>7, <2>6, <3>1 DEF Settled, Housed
    <3> QED BY <3>2 DEF Places, Settled
  <2>8. Sessions'
    BY <1>1, <1>3, <1>6, <2>4, <2>6, SessionsEnd DEF Inv, Left
  <2>9. CharactersKept
    BY <2>6 DEF CharactersKept
  <2>10. Peopled(game')
    BY <1>2, <2>1, <2>4, LeftPeopled DEF Inv
  <2> QED BY <1>8, <2>7, <2>8, <2>9, <2>10 DEF Inv, Steady
<1> QED BY <1>1, <1>9, <1>10

LEMMA OnClientAddKeeps ==
  ASSUME TakingTurns, Inv, Types', NEW c \in Clients, OnClientAdd(c)
  PROVE  Inv' /\ Steady
<1> DEFINE pl == [game.player[c] EXCEPT !.id = idCount']
<1>1. /\ UNCHANGED <<connected, written, port, datagrams, savedId, players, handed>>
      /\ status[c] = "unknown" /\ status' = [status EXCEPT ![c] = "live"]
      /\ unauthenticated' = Append(unauthenticated, c)
      /\ game' = [game EXCEPT !.player[c] = pl]
      /\ c \in connected
  BY DEF OnClientAdd, Feed!HandAdd, clientVars
<1>2. idCount' <= Cardinality(Clients)
  BY OnClientAddTypes DEF Inv
<1>3. /\ game \in GameType /\ game.player \in [Clients -> PlayerType] /\ TypeOK
      /\ status \in [Clients -> Feed!Statuses] /\ unauthenticated \in Seq(Clients)
      /\ players \in Seq(Clients \union {Dangling}) /\ idCount' \in PlayerIds
  BY GameFields DEF Inv, Types, TypeOK, Feed!FeedTypeOK
<1>4. pl \in PlayerType /\ pl.id = idCount' /\ pl.ready = game.player[c].ready
      /\ pl.world = game.player[c].world /\ pl.char = game.player[c].char /\ pl.addr = game.player[c].addr
  BY <1>3 DEF PlayerType
<1> HIDE DEF pl
<1>5. /\ game'.player = [game.player EXCEPT ![c] = pl]
      /\ game'.sent = game.sent /\ game'.listed = game.listed /\ game'.entities = game.entities
      /\ game'.nextEntity = game.nextEntity /\ game' \in GameType
  BY <1>1, <1>3, <1>4, PlayerUpdate
<1>6. /\ \A d \in Clients : /\ game'.player[d].ready = game.player[d].ready
                            /\ game'.player[d].world = game.player[d].world
                            /\ game'.player[d].char = game.player[d].char
                            /\ game'.player[d].addr = game.player[d].addr
                            /\ d # c => game'.player[d].id = game.player[d].id
      /\ game'.player[c].id = idCount'
  BY <1>3, <1>4, <1>5
<1>7. ~IsReady(c) /\ ~InPlayers(c)
  BY <1>1 DEF Inv, Sessions, Roster, InPlayers
<1>8. \A d \in Clients : /\ IsReady(d)' <=> IsReady(d)
                         /\ InPlayers(d)' <=> InPlayers(d)
                         /\ d # c => IdOf(d)' = IdOf(d)
                         /\ status'[d] = IF d = c THEN "live" ELSE status[d]
  BY <1>1, <1>3, <1>6 DEF IsReady, InPlayers, IdOf
<1>9. ASSUME Settled(game, Seated) PROVE Places'
  <2>1. Seated' = Seated
    BY <1>1, <1>7, <1>8 DEF Seated
  <2>2. \A d \in Clients : game.player[d].world # NoWorld => d \in Seated /\ d # c
    BY <1>7, <1>9 DEF Settled, Housed, Seated
  <2>3. Settled(game', Seated')
    BY <1>3, <1>5, <1>6, <1>9, <2>1, <2>2, PlacesKept
  <2> QED BY <2>3 DEF Places, Settled
<1>10. Peopled(game')
  BY <1>3, <1>5, <1>6, <1>7, PeopledKept DEF Inv, IsReady
<1>11. /\ DOMAIN unauthenticated' = 1..(Len(unauthenticated) + 1) /\ Len(unauthenticated) \in Nat
       /\ Len(unauthenticated') = Len(unauthenticated) + 1
       /\ unauthenticated'[Len(unauthenticated) + 1] = c
       /\ \A i \in DOMAIN unauthenticated : unauthenticated'[i] = unauthenticated[i]
       /\ DOMAIN unauthenticated = 1..Len(unauthenticated)
  BY <1>1, <1>3
<1>12. \A i \in DOMAIN unauthenticated : unauthenticated[i] \in Clients /\ unauthenticated[i] # c
  BY <1>1, <1>3 DEF Inv, Sessions, Roster
<1>13. Roster'
  <2>1. \A i \in DOMAIN players : /\ players[i] \in Clients /\ status'[players[i]] # "unknown"
                                  /\ game'.player[players[i]].ready
    BY <1>6, <1>8 DEF Inv, Sessions, Roster, IsReady
  <2>2. \A i \in DOMAIN unauthenticated' :
          /\ unauthenticated'[i] \in connected /\ status'[unauthenticated'[i]] # "unknown"
          /\ ~game'.player[unauthenticated'[i]].ready
    <3> SUFFICES ASSUME NEW i \in DOMAIN unauthenticated'
                 PROVE  /\ unauthenticated'[i] \in connected /\ status'[unauthenticated'[i]] # "unknown"
                        /\ ~game'.player[unauthenticated'[i]].ready
      OBVIOUS
    <3>1. CASE i \in DOMAIN unauthenticated
      BY <1>6, <1>8, <1>11, <1>12, <3>1 DEF Inv, Sessions, Roster, IsReady
    <3>2. CASE i \notin DOMAIN unauthenticated
      <4>1. unauthenticated'[i] = c
        BY <1>11, <3>2
      <4> QED BY <1>1, <1>6, <1>7, <1>8, <4>1 DEF IsReady
    <3> QED BY <3>1, <3>2
  <2>3. \A i, j \in DOMAIN unauthenticated' : unauthenticated'[i] = unauthenticated'[j] => i = j
    <3>1. \A i, j \in DOMAIN unauthenticated : unauthenticated[i] = unauthenticated[j] => i = j
      BY DEF Inv, Sessions, Roster
    <3> QED BY <1>11, <1>12, <3>1
  <2>4. /\ \A i, j \in DOMAIN players : players[i] = players[j] => i = j
        /\ \A d \in Clients : status'[d] = "live" /\ IsReady(d)' => InPlayers(d)'
        /\ \A d \in Clients : status'[d] = "unknown" => ~IsReady(d)'
    BY <1>7, <1>8 DEF Inv, Sessions, Roster
  <2> QED BY <1>1, <2>1, <2>2, <2>3, <2>4 DEF Roster, IsReady
<1>14. IdsTellApart'
  <2>1. \A d \in Clients : IF IsReady(d)' THEN IdOf(d)' = savedId[AccountOf[d]] /\ savedId[AccountOf[d]] > 0
                           ELSE IdOf(d)' <= Cardinality(Clients)
    <3>1. IdOf(c)' = idCount'
      BY <1>6 DEF IdOf
    <3> QED BY <1>2, <1>7, <1>8, <3>1 DEF Inv, Sessions, IdsTellApart
  <2> QED BY <1>1, <2>1 DEF Inv, Sessions, IdsTellApart
<1>15. OneLogin'
  <2>1. \A d \in Clients : /\ Told(d, "details")' <=> Told(d, "details")
                           /\ LoginUnderWay(d)' <=> LoginUnderWay(d)
    BY <1>1, <1>5, <1>8 DEF Told, LoginUnderWay
  <2>2. LoginUnderWay(c)
    BY <1>1, <1>7 DEF LoginUnderWay, Inv, Sessions, OneLogin
  <2>3. \A i \in DOMAIN unauthenticated' :
          LoginUnderWay(unauthenticated[i])' => i = Len(unauthenticated')
    <3> SUFFICES ASSUME NEW i \in DOMAIN unauthenticated', LoginUnderWay(unauthenticated[i])'
                 PROVE  i = Len(unauthenticated')
      OBVIOUS
    <3>1. ASSUME i \in DOMAIN unauthenticated PROVE FALSE
      <4>1. unauthenticated'[i] = unauthenticated[i] /\ unauthenticated[i] \in Clients
        BY <1>11, <1>12, <3>1
      <4>2. LoginUnderWay(unauthenticated[i])
        BY <2>1, <4>1
      <4> QED BY <1>12, <2>2, <3>1, <4>1, <4>2 DEF Inv, Sessions, OneLogin
    <3> QED BY <1>11, <3>1
  <2>4. \A d \in Clients : d \notin connected => status'[d] = "unknown"
    BY <1>1, <1>8 DEF Inv, Sessions, OneLogin
  <2>5. \A d \in Clients : IsReady(d)' <=> Told(d, "details")'
    BY <1>8, <2>1 DEF Inv, Sessions, OneLogin
  <2>6. \A d, e \in Clients : LoginUnderWay(d)' /\ LoginUnderWay(e)' => d = e
    BY <2>1 DEF Inv, Sessions, OneLogin
  <2>7. \A d \in Clients : \A i \in DOMAIN game'.sent[d] :
          game'.sent[d][i][1] = "details" => game'.sent[d][i][2] = IdOf(d)'
    <3> SUFFICES ASSUME NEW d \in Clients, NEW i \in DOMAIN game.sent[d],
                        game.sent[d][i][1] = "details"
                 PROVE  game.sent[d][i][2] = IdOf(d)'
      BY <1>5
    <3>1. IsReady(d)
      BY DEF Inv, Sessions, OneLogin, Told
    <3> QED BY <1>7, <1>8, <3>1 DEF Inv, Sessions, OneLogin
  <2> QED BY <1>1, <2>3, <2>4, <2>5, <2>6, <2>7 DEF OneLogin, LoginUnderWay
<1>16. AuthenticatesOnce'
  <2>1. \A d \in Clients : Told(d, "hash")' <=> Told(d, "hash")
    BY <1>5 DEF Told
  <2> QED BY <1>1, <1>5, <1>8, <2>1 DEF Inv, Sessions, AuthenticatesOnce
<1>17. DatagramsFindTheirs'
  <2> SUFFICES ASSUME NEW d \in datagrams
               PROVE  \E e \in Clients : /\ \E k \in 0..MaxRebinds : d.addr = <<e, k>>
                                         /\ IsReady(e)' /\ d.id = IdOf(e)'
                                         /\ status'[e] = "live" \/ ~InPlayers(e)'
    BY <1>1 DEF DatagramsFindTheirs
  <2>1. PICK e \in Clients : /\ \E k \in 0..MaxRebinds : d.addr = <<e, k>>
                             /\ IsReady(e) /\ d.id = IdOf(e)
                             /\ status[e] = "live" \/ ~InPlayers(e)
    BY DEF Inv, Sessions, DatagramsFindTheirs
  <2> QED BY <1>7, <1>8, <2>1
<1>18. CharactersKept
  BY <1>6 DEF CharactersKept
<1>19. Steady
  BY <1>9, <1>18, PlacesAreSettled DEF Inv, Steady
<1> QED BY <1>10, <1>13, <1>14, <1>15, <1>16, <1>17, <1>19 DEF Inv, Sessions

\* What is the same for each packet of c: it is handed over, in order.
TcpFrame(c) ==
  /\ UNCHANGED <<connected, written, port, datagrams, warps, status>>
  /\ handed' = [handed EXCEPT ![c] = @ + 1]
  /\ handed[c] < Len(written[c])
  /\ status[c] \in {"live", "draining"}

LEMMA TcpHanded ==
  ASSUME Inv, NEW c \in Clients, TcpFrame(c)
  PROVE  \A d \in Clients : /\ handed'[d] = IF d = c THEN handed[c] + 1 ELSE handed[d]
                            /\ handed[d] <= handed'[d] /\ handed'[d] <= Len(written[d])
                            /\ 1..handed[d] \subseteq 1..handed'[d]
<1>1. \A d \in Clients : /\ handed \in [Clients -> 0..MaxPackets] /\ Len(written[d]) \in Nat
                         /\ handed[d] <= Len(written[d]) /\ handed[d] \in Nat
  BY DEF Inv, Types, TypeOK, Feed!FeedTypeOK, Sessions, AuthenticatesOnce
<1> QED BY <1>1 DEF TcpFrame

\* A packet that changes nothing about logins.
LEMMA TcpElse ==
  ASSUME TakingTurns, Inv, Types', NEW c \in Clients, TcpFrame(c),
         UNCHANGED <<idCount, unauthenticated, players>>,
         UNCHANGED savedId \/ IdsTellApart',
         Settled(game, Seated) => Settled(game', Seated), Peopled(game'),
         LoginKept(game, game'), game'.player = game.player
  PROVE  Inv' /\ Steady
<1>1. UNCHANGED <<connected, written, port, datagrams, warps, status>>
  BY DEF TcpFrame
<1>2. Sessions'
  BY <1>1, TcpHanded, SessionsKept DEF Inv
<1>3. Seated' = Seated
  BY <1>1 DEF Seated, InPlayers
<1>4. Settled(game, Seated) => Places'
  BY <1>3 DEF Places, Settled
<1> QED BY <1>2, <1>4, PlacesAreSettled DEF Inv, CharactersKept, Steady

\* The stream of client c has one notice more.
Noted(c, n, s) ==
  /\ \A d \in Clients : d # c => s[d] = game.sent[d]
  /\ DOMAIN game.sent[c] = 1..Len(game.sent[c]) /\ Len(game.sent[c]) \in Nat
  /\ DOMAIN s[c] = 1..(Len(game.sent[c]) + 1)
  /\ \A i \in DOMAIN game.sent[c] : s[c][i] = game.sent[c][i]
  /\ s[c][Len(game.sent[c]) + 1] = n
  /\ s[c] = Append(game.sent[c], n)

LEMMA LoginNotice ==
  ASSUME TypeOK, NEW c \in Clients, NEW n \in Notice
  PROVE  Noted(c, n, [game.sent EXCEPT ![c] = Append(@, n)])
<1> DEFINE s == [game.sent EXCEPT ![c] = Append(@, n)]
<1>1. game.sent \in [Clients -> Seq(Notice)]
  BY GameFields DEF TypeOK, Streams
<1>2. \A d \in Clients : s[d] = IF d = c THEN Append(game.sent[c], n) ELSE game.sent[d]
  BY <1>1
<1> DEFINE r == game.sent[c]
           t == Append(r, n)
<1>3. /\ DOMAIN r = 1..Len(r) /\ Len(r) \in Nat /\ DOMAIN t = 1..(Len(r) + 1)
      /\ \A i \in DOMAIN r : t[i] = r[i]
      /\ t[Len(r) + 1] = n
  <2>1. r \in Seq(Notice)
    BY <1>1
  <2> HIDE DEF r
  <2> QED BY <2>1
<1>4. s[c] = t
  BY <1>2
<1> HIDE DEF t, s
<1> QED BY <1>2, <1>3, <1>4 DEF t, s, Noted

LEMMA HashKeeps ==
  ASSUME TakingTurns, Inv, Types', NEW c \in Clients, TcpFrame(c),
         written[c][handed[c] + 1] = "requestHash",
         UNCHANGED <<idCount, savedId, unauthenticated, players>>,
         game' = SendTo(game, c, <<"hash">>)
  PROVE  Inv' /\ Steady
<1> DEFINE n == <<"hash">>
           s == game.sent[c]
<1>1. n \in Notice /\ n[1] = "hash" /\ game \in GameType /\ TypeOK /\ game' \in GameType
  BY DEF Notice, Inv, Types, TypeOK
<1> HIDE DEF n
<1>2. SentTo(game, c, n, game')
  BY <1>1, SendToMeans DEF n
<1>3. /\ game'.player = game.player /\ game'.listed = game.listed /\ game'.entities = game.entities
      /\ game'.nextEntity = game.nextEntity
      /\ game'.sent = [game.sent EXCEPT ![c] = Append(@, n)]
  BY <1>2 DEF SentTo, OnlySent
<1>4. /\ \A d \in Clients : d # c => game'.sent[d] = game.sent[d]
      /\ DOMAIN s = 1..Len(s) /\ Len(s) \in Nat
      /\ DOMAIN game'.sent[c] = 1..(Len(s) + 1)
      /\ \A i \in DOMAIN s : game'.sent[c][i] = s[i]
      /\ game'.sent[c][Len(s) + 1] = n
      /\ game'.sent[c] = Append(s, n)
  <2>1. Noted(c, n, game'.sent)
    BY <1>1, <1>3, LoginNotice
  <2> QED BY <2>1 DEF Noted
<1>5. \A d \in Clients : /\ IsReady(d)' <=> IsReady(d)
                         /\ IdOf(d)' = IdOf(d)
                         /\ InPlayers(d)' <=> InPlayers(d)
  BY <1>3 DEF IsReady, IdOf, InPlayers
<1>6. UNCHANGED <<connected, written, port, datagrams, warps, status>>
  BY DEF TcpFrame
<1>7. ASSUME Settled(game, Seated) PROVE Places'
  <2>1. Seated' = Seated
    BY <1>6 DEF Seated, InPlayers
  <2>2. \A d \in Clients : game.player[d].world # NoWorld => d \in Seated
    BY <1>7 DEF Settled, Housed
  <2>3. \A d \in Clients : \/ game'.sent[d] = game.sent[d]
                           \/ \E m \in Notice : /\ m[1] \in {"hash", "details"}
                                                /\ game'.sent[d] = Append(game.sent[d], m)
    BY <1>1, <1>4
  <2>4. Settled(game', Seated)
    BY <1>1, <1>3, <1>7, <2>2, <2>3, PlacesKept
  <2> QED BY <2>1, <2>4 DEF Places, Settled
<1>8. Roster' /\ IdsTellApart' /\ DatagramsFindTheirs'
  BY <1>3, <1>6 DEF Inv, Sessions, Roster, IdsTellApart, DatagramsFindTheirs, IsReady, IdOf, InPlayers
<1>9. \A i \in DOMAIN game'.sent[c] : game'.sent[c][i][1] # "hash" => i \in DOMAIN s
  BY <1>1, <1>4
<1>10. OneLogin'
  <2>1. \A d \in Clients : Told(d, "details")' <=> Told(d, "details")
    BY <1>4, <1>9 DEF Told
  <2>2. \A d \in Clients : LoginUnderWay(d)' <=> LoginUnderWay(d)
    BY <1>6, <2>1 DEF LoginUnderWay
  <2>3. unauthenticated \in Seq(Clients)
    BY <1>1 DEF TypeOK
  <2>4. \A i \in DOMAIN unauthenticated :
          LoginUnderWay(unauthenticated[i])' => i = Len(unauthenticated)
    BY <2>2, <2>3 DEF Inv, Sessions, OneLogin
  <2>5. \A d \in Clients : d \notin connected => status[d] = "unknown"
    BY DEF Inv, Sessions, OneLogin
  <2>6. \A d \in Clients : IsReady(d)' <=> Told(d, "details")'
    BY <1>5, <2>1 DEF Inv, Sessions, OneLogin
  <2>7. \A d, e \in Clients : LoginUnderWay(d)' /\ LoginUnderWay(e)' => d = e
    BY <2>2 DEF Inv, Sessions, OneLogin
  <2>8. \A d \in Clients : \A i \in DOMAIN game'.sent[d] :
          game'.sent[d][i][1] = "details" => game'.sent[d][i][2] = IdOf(d)'
    <3> SUFFICES ASSUME NEW d \in Clients, NEW i \in DOMAIN game'.sent[d],
                        game'.sent[d][i][1] = "details"
                 PROVE  game'.sent[d][i][2] = IdOf(d)'
      OBVIOUS
    <3>1. i \in DOMAIN game.sent[d] /\ game'.sent[d][i] = game.sent[d][i]
      <4>1. CASE d = c
        BY <1>4, <1>9, <4>1
      <4>2. CASE d # c
        BY <1>4, <4>2
      <4> QED BY <4>1, <4>2
    <3>2. game.sent[d][i][2] = IdOf(d)
      BY <3>1 DEF Inv, Sessions, OneLogin
    <3> QED BY <1>5, <3>1, <3>2
  <2> QED BY <1>6, <2>4, <2>5, <2>6, <2>7, <2>8 DEF OneLogin, LoginUnderWay
<1>11. AuthenticatesOnce'
  <2>1. ~Told(c, "hash")
    <3>1. \A i \in 1..handed[c] : i \in DOMAIN written[c] /\ handed[c] + 1 \in DOMAIN written[c]
                                  /\ i # handed[c] + 1
      <4>1. written[c] \in Seq(TcpMessages) /\ handed[c] \in Nat /\ handed[c] < Len(written[c])
        BY <1>1 DEF TypeOK, Feed!FeedTypeOK, TcpFrame
      <4> QED BY <4>1
    <3> QED BY <3>1 DEF Inv, Sessions, AuthenticatesOnce
  <2>2. \A i \in DOMAIN s : s[i][1] # "hash"
    BY <2>1 DEF Told
  <2> SUFFICES ASSUME NEW d \in Clients
               PROVE  /\ handed'[d] <= Len(written[d])
                      /\ \A i, j \in DOMAIN written[d] :
                           written[d][i] = written[d][j] /\ written[d][i] # "loaded" => i = j
                      /\ \A i, j \in DOMAIN game'.sent[d] :
                           game'.sent[d][i][1] = "hash" /\ game'.sent[d][j][1] = "hash" => i = j
                      /\ Told(d, "hash")' => \E i \in 1..handed'[d] : written[d][i] = "requestHash"
                      /\ IsReady(d)' => \E i \in 1..handed'[d] : written[d][i] = "auth"
    BY <1>6 DEF AuthenticatesOnce
  <2>3. /\ handed'[d] = IF d = c THEN handed[c] + 1 ELSE handed[d]
        /\ handed'[d] <= Len(written[d]) /\ 1..handed[d] \subseteq 1..handed'[d]
    BY TcpHanded
  <2>4. \A i, j \in DOMAIN game'.sent[d] :
          game'.sent[d][i][1] = "hash" /\ game'.sent[d][j][1] = "hash" => i = j
    <3>1. CASE d = c
      <4>1. \A i \in DOMAIN game'.sent[c] : game'.sent[c][i][1] = "hash" => i = Len(s) + 1
        BY <1>4, <2>2
      <4> QED BY <3>1, <4>1
    <3>2. CASE d # c
      BY <1>4, <3>2 DEF Inv, Sessions, AuthenticatesOnce
    <3> QED BY <3>1, <3>2
  <2>5. Told(d, "hash")' => \E i \in 1..handed'[d] : written[d][i] = "requestHash"
    <3>1. CASE d = c
      <4>1. handed'[d] \in 1..handed'[d]
        BY <1>1, <2>3, <3>1 DEF TypeOK, Feed!FeedTypeOK
      <4> QED BY <2>3, <3>1, <4>1
    <3>2. CASE d # c
      <4>1. Told(d, "hash")' => Told(d, "hash")
        BY <1>4, <3>2 DEF Told
      <4> QED BY <2>3, <4>1 DEF Inv, Sessions, AuthenticatesOnce
    <3> QED BY <3>1, <3>2
  <2>6. IsReady(d)' => \E i \in 1..handed'[d] : written[d][i] = "auth"
    BY <1>5, <2>3 DEF Inv, Sessions, AuthenticatesOnce
  <2> QED BY <2>3, <2>4, <2>5, <2>6 DEF Inv, Sessions, AuthenticatesOnce
<1>12. Peopled(game')
  BY <1>1, <1>3, PeopledKept DEF Inv
<1>13. Steady
  BY <1>3, <1>7, PlacesAreSettled DEF Inv, CharactersKept, Steady
<1> QED BY <1>8, <1>10, <1>11, <1>12, <1>13 DEF Inv, Sessions

\* The player table once account a has an id.
Accounted(a, s) ==
  /\ \E b \in Accounts : s[b] > 0
  /\ \A b \in Accounts : s[b] = 0 \/ s[b] > Cardinality(Clients)
  /\ \A b, d \in Accounts : s[b] = s[d] => b = d \/ s[b] = 0
  /\ \A b \in Accounts : b # a \/ savedId[b] > 0 => s[b] = savedId[b]
  /\ s[a] = IdOfAccount(a) /\ s[a] > 0

LEMMA SavedIds ==
  ASSUME TakingTurns, Types, IdsTellApart, NEW a \in Accounts
  PROVE  Accounted(a, [savedId EXCEPT ![a] = IdOfAccount(a)])
<1> DEFINE s == [savedId EXCEPT ![a] = IdOfAccount(a)]
<1>1. /\ savedId \in [Accounts -> Nat] /\ IdOfAccount(a) \in Nat /\ Cardinality(Clients) \in Nat
  BY SessionsAssumption, FS_CardinalityType, IdOfAccountMeans
     DEF SessionsAssumption, Types, TypeOK, PlayerIds
<1>2. /\ IdOfAccount(a) > 0
      /\ savedId[a] > 0 => IdOfAccount(a) = savedId[a]
      /\ savedId[a] = 0 => \A b \in Accounts : savedId[b] < IdOfAccount(a)
  BY IdOfAccountMeans
<1>3. \A b \in Accounts : s[b] = IF b = a THEN IdOfAccount(a) ELSE savedId[b]
  BY <1>1
<1>4. PICK b \in Accounts : savedId[b] > 0
  BY DEF IdsTellApart
<1>5. savedId[b] > Cardinality(Clients)
  BY <1>1, <1>4 DEF IdsTellApart
<1>6. CASE savedId[a] > 0
  <2>1. s = savedId
    BY <1>1, <1>2, <1>6
  <2> QED BY <1>2, <1>6, <2>1 DEF IdsTellApart, Accounted
<1>7. CASE savedId[a] = 0
  <2>1. IdOfAccount(a) > Cardinality(Clients)
    BY <1>1, <1>2, <1>4, <1>5, <1>7
  <2>2. \A d \in Accounts : s[d] = 0 \/ s[d] > Cardinality(Clients)
    BY <1>3, <2>1 DEF IdsTellApart
  <2>3. \A d, e \in Accounts : s[d] = s[e] => d = e \/ s[d] = 0
    BY <1>1, <1>2, <1>3, <1>7 DEF IdsTellApart
  <2>4. s[a] = IdOfAccount(a) /\ s[a] > 0
    BY <1>2, <1>3
  <2> HIDE DEF s
  <2> QED BY <1>1, <1>3, <1>7, <2>2, <2>3, <2>4 DEF Accounted
<1> QED BY <1>1, <1>6, <1>7

LEMMA AuthenticateFailsKeeps ==
  ASSUME TakingTurns, Inv, Types', NEW c \in Clients, TcpFrame(c), AuthenticateFails(c)
  PROVE  Inv' /\ Steady
<1>1. UNCHANGED <<idCount, unauthenticated, players, game>>
  BY DEF AuthenticateFails
<1>2. UNCHANGED savedId \/ IdsTellApart'
  <2>1. CASE savedId' = [savedId EXCEPT ![AccountOf[c]] = IdOfAccount(AccountOf[c])]
    <3>1. AccountOf[c] \in Accounts /\ \A d \in Clients : AccountOf[d] \in Accounts
      BY SessionsAssumption DEF SessionsAssumption
    <3>2. /\ \E b \in Accounts : savedId'[b] > 0
          /\ \A b \in Accounts : savedId'[b] = 0 \/ savedId'[b] > Cardinality(Clients)
          /\ \A b, d \in Accounts : savedId'[b] = savedId'[d] => b = d \/ savedId'[b] = 0
          /\ \A b \in Accounts : savedId[b] > 0 => savedId'[b] = savedId[b]
      <4>1. Accounted(AccountOf[c], savedId')
        BY <2>1, <3>1, SavedIds DEF Inv, Sessions
      <4> QED BY <4>1 DEF Accounted
    <3>3. \A d \in Clients : /\ (IsReady(d)' <=> IsReady(d)) /\ IdOf(d)' = IdOf(d)
      BY <1>1 DEF IsReady, IdOf
    <3> QED BY <3>1, <3>2, <3>3 DEF Inv, Sessions, IdsTellApart
  <2> QED BY <2>1 DEF AuthenticateFails
<1>3. (Settled(game, Seated) => Settled(game', Seated)) /\ Peopled(game')
  BY <1>1 DEF Inv
<1>4. LoginKept(game, game')
  BY <1>1 DEF LoginKept, SameLogin
<1> QED BY <1>1, <1>2, <1>3, <1>4, TcpElse

\* The player that authenticates is the last of those unauthenticated, the only
\* one with the id of its account: it is the one that is erased and pushed.
LEMMA AuthenticateMoves ==
  ASSUME TakingTurns, Inv, NEW c \in Clients, TcpFrame(c),
         written[c][handed[c] + 1] = "auth", HandlePlayerAuthenticate(c),
         InPlayers(c) \/ \E i \in DOMAIN unauthenticated : unauthenticated[i] = c
  PROVE  /\ ~IsReady(c) /\ LoginUnderWay(c) /\ Len(unauthenticated) > 0
         /\ unauthenticated[Len(unauthenticated)] = c
         /\ unauthenticated' = RemoveAt(unauthenticated, Len(unauthenticated))
         /\ players' = Append(players, c)
         /\ savedId' = [savedId EXCEPT ![AccountOf[c]] = IdOfAccount(AccountOf[c])]
         /\ LoggedIn(c, IdOfAccount(AccountOf[c]), game')
         /\ idCount' = idCount
<1> DEFINE id == IdOfAccount(AccountOf[c])
           g  == [game EXCEPT !.player[c] = [@ EXCEPT !.ready = TRUE, !.id = id]]
           i  == FirstOf(unauthenticated, WithId(g, id))
<1>1. AccountOf[c] \in Accounts /\ unauthenticated \in Seq(Clients) /\ TypeOK
      /\ Cardinality(Clients) \in Nat
  BY SessionsAssumption, FS_CardinalityType DEF SessionsAssumption, Inv, Types, TypeOK
<1>2. ~IsReady(c)
  <2>1. \A k \in 1..handed[c] : /\ k \in DOMAIN written[c] /\ handed[c] + 1 \in DOMAIN written[c]
                                /\ k # handed[c] + 1
    <3>1. written[c] \in Seq(TcpMessages) /\ handed[c] \in Nat /\ handed[c] < Len(written[c])
      BY <1>1 DEF TypeOK, Feed!FeedTypeOK, TcpFrame
    <3> QED BY <3>1
  <2> QED BY <2>1 DEF Inv, Sessions, AuthenticatesOnce
<1>3. PICK k \in DOMAIN unauthenticated : unauthenticated[k] = c
  BY <1>2 DEF Inv, Sessions, Roster, InPlayers
<1>4. LoginUnderWay(c)
  BY <1>2, <1>3 DEF LoginUnderWay, TcpFrame, Inv, Sessions, OneLogin, Roster
<1>5. k = Len(unauthenticated)
  BY <1>3, <1>4 DEF Inv, Sessions, OneLogin
<1>6. /\ id \in PlayerIds /\ id > 0 /\ id > Cardinality(Clients)
  <2>1. id \in PlayerIds /\ id > 0
    BY <1>1, IdOfAccountMeans DEF Inv
  <2>2. [savedId EXCEPT ![AccountOf[c]] = id][AccountOf[c]] = id
    BY <1>1 DEF TypeOK
  <2>3. id = 0 \/ id > Cardinality(Clients)
    <3>1. Accounted(AccountOf[c], [savedId EXCEPT ![AccountOf[c]] = id])
      BY <1>1, SavedIds DEF Inv, Sessions
    <3> QED BY <1>1, <2>2, <3>1 DEF Accounted
  <2> QED BY <2>1, <2>3 DEF PlayerIds
<1>7. /\ savedId' = [savedId EXCEPT ![AccountOf[c]] = id]
      /\ game' = SendTo(g, c, <<"details", id>>)
      /\ unauthenticated' = IF i = 0 THEN unauthenticated ELSE RemoveAt(unauthenticated, i)
      /\ players' = Append(players, PushedAfterErase(unauthenticated, i, c))
      /\ idCount' = idCount
  BY DEF HandlePlayerAuthenticate
<1> HIDE DEF id
<1>8. /\ LoggedIn(c, id, SendTo(g, c, <<"details", id>>))
      /\ g.player = [game.player EXCEPT ![c] = [@ EXCEPT !.ready = TRUE, !.id = id]]
  BY <1>1, <1>6, LoggedInMeans
<1> HIDE DEF g
<1>9. game.player \in [Clients -> PlayerType]
  BY <1>1, GameFields DEF TypeOK
<1>10. \A d \in Clients : g.player[d].id = IF d = c THEN id ELSE IdOf(d)
  BY <1>8, <1>9 DEF PlayerType, IdOf
<1>11. \A l \in DOMAIN unauthenticated : unauthenticated[l] \in WithId(g, id) <=> l = k
  <2> SUFFICES ASSUME NEW l \in DOMAIN unauthenticated
               PROVE  unauthenticated[l] \in WithId(g, id) <=> l = k
    OBVIOUS
  <2>1. unauthenticated[l] \in Clients /\ (unauthenticated[l] = c => l = k)
    BY <1>1, <1>3 DEF Inv, Sessions, Roster
  <2>2. unauthenticated[l] # c => IdOf(unauthenticated[l]) # id
    <3>1. IdOf(unauthenticated[l]) <= Cardinality(Clients)
      BY <2>1 DEF Inv, Sessions, Roster, IdsTellApart
    <3>2. IdOf(unauthenticated[l]) \in Nat /\ id \in Nat
      BY <1>6, <1>9, <2>1, SessionsAssumption DEF IdOf, PlayerType, PlayerIds, SessionsAssumption
    <3> QED BY <1>1, <1>6, <3>1, <3>2
  <2> QED BY <1>3, <1>10, <2>1, <2>2 DEF WithId
<1>12. i = k
  <2>1. \/ i = 0 /\ \A l \in DOMAIN unauthenticated : unauthenticated[l] \notin WithId(g, id)
        \/ i \in DOMAIN unauthenticated /\ i > 0 /\ unauthenticated[i] \in WithId(g, id)
    BY <1>1, FirstOfMeans
  <2> QED BY <1>11, <2>1
<1> HIDE DEF i
<1>13. k > 0
  BY <1>1
<1>14. PushedAfterErase(unauthenticated, i, c) = c
  BY <1>3, <1>5, <1>12, <1>13 DEF PushedAfterErase
<1>15. unauthenticated' = RemoveAt(unauthenticated, k) /\ players' = Append(players, c)
  BY <1>7, <1>12, <1>13, <1>14
<1> QED BY <1>2, <1>3, <1>4, <1>5, <1>7, <1>8, <1>13, <1>15 DEF id

LEMMA AuthenticateKeeps ==
  ASSUME TakingTurns, Inv, Types', NEW c \in Clients, TcpFrame(c),
         written[c][handed[c] + 1] = "auth", HandlePlayerAuthenticate(c),
         InPlayers(c) \/ \E i \in DOMAIN unauthenticated : unauthenticated[i] = c
  PROVE  Inv' /\ Steady
<1> DEFINE a  == AccountOf[c]
           id == IdOfAccount(a)
           last == Len(unauthenticated)
           n == <<"details", id>>
           s == game.sent[c]
<1>1. /\ ~IsReady(c) /\ LoginUnderWay(c) /\ last > 0
      /\ unauthenticated[last] = c
      /\ unauthenticated' = RemoveAt(unauthenticated, last)
      /\ players' = Append(players, c)
      /\ savedId' = [savedId EXCEPT ![a] = id]
      /\ LoggedIn(c, id, game')
      /\ idCount' = idCount
  BY AuthenticateMoves
<1>2. /\ a \in Accounts /\ \A d \in Clients : AccountOf[d] \in Accounts /\ (d # c => AccountOf[d] # a)
      /\ unauthenticated \in Seq(Clients) /\ players \in Seq(Clients \union {Dangling}) /\ TypeOK
      /\ game \in GameType /\ game.player \in [Clients -> PlayerType]
  BY GameFields, SessionsAssumption DEF SessionsAssumption, Inv, Types, TypeOK, TakingTurns
<1>3. /\ \E b \in Accounts : savedId'[b] > 0
      /\ \A b \in Accounts : savedId'[b] = 0 \/ savedId'[b] > Cardinality(Clients)
      /\ \A b, d \in Accounts : savedId'[b] = savedId'[d] => b = d \/ savedId'[b] = 0
      /\ \A b \in Accounts : b # a \/ savedId[b] > 0 => savedId'[b] = savedId[b]
      /\ savedId'[a] = id /\ id > 0
  <2>1. Accounted(a, savedId')
    BY <1>1, <1>2, SavedIds DEF Inv, Sessions
  <2> QED BY <2>1 DEF Accounted
<1>4. id \in PlayerIds
  BY <1>2, IdOfAccountMeans DEF Inv
<1>5. n \in Notice /\ n[1] = "details" /\ n[2] = id
  <2>1. n \in {"details"} \X PlayerIds
    BY <1>4
  <2> QED BY <2>1 DEF Notice
<1>6. /\ game' \in GameType
      /\ game'.player = [game.player EXCEPT ![c] = [@ EXCEPT !.ready = TRUE, !.id = id]]
      /\ game'.sent = [game.sent EXCEPT ![c] = Append(@, n)]
      /\ game'.listed = game.listed /\ game'.entities = game.entities
      /\ game'.nextEntity = game.nextEntity
  BY <1>1 DEF LoggedIn
<1> HIDE DEF n, id, a, last
<1>7. \A d \in Clients : /\ game'.player[d].ready = IF d = c THEN TRUE ELSE game.player[d].ready
                         /\ game'.player[d].id = IF d = c THEN id ELSE game.player[d].id
                         /\ game'.player[d].world = game.player[d].world
                         /\ game'.player[d].char = game.player[d].char
                         /\ game'.player[d].addr = game.player[d].addr
  <2> DEFINE pl == [game.player[c] EXCEPT !.ready = TRUE, !.id = id]
  <2>1. game.player[c] \in PlayerType
    BY <1>2
  <2>2. /\ pl.ready = TRUE /\ pl.id = id /\ pl.world = game.player[c].world
        /\ pl.char = game.player[c].char /\ pl.addr = game.player[c].addr
    BY <2>1 DEF PlayerType
  <2>3. game'.player = [game.player EXCEPT ![c] = pl]
    BY <1>6
  <2> HIDE DEF pl
  <2>4. \A d \in Clients : game'.player[d] = IF d = c THEN pl ELSE game.player[d]
    BY <1>2, <2>3
  <2> QED BY <2>2, <2>4
<1>8. /\ \A d \in Clients : d # c => game'.sent[d] = game.sent[d]
      /\ DOMAIN s = 1..Len(s) /\ Len(s) \in Nat
      /\ DOMAIN game'.sent[c] = 1..(Len(s) + 1)
      /\ \A i \in DOMAIN s : game'.sent[c][i] = s[i]
      /\ game'.sent[c][Len(s) + 1] = n
      /\ game'.sent[c] = Append(s, n)
  <2>1. Noted(c, n, game'.sent)
    BY <1>2, <1>5, <1>6, LoginNotice
  <2> QED BY <2>1 DEF Noted
<1>9. UNCHANGED <<connected, written, port, datagrams, warps, status>>
  BY DEF TcpFrame
<1>10. /\ DOMAIN players' = 1..(Len(players) + 1) /\ Len(players) \in Nat
       /\ DOMAIN players = 1..Len(players)
       /\ players'[Len(players) + 1] = c
       /\ \A i \in DOMAIN players : players'[i] = players[i]
  BY <1>1, <1>2
<1>11. /\ DOMAIN unauthenticated' = 1..(last - 1) /\ DOMAIN unauthenticated = 1..last /\ last \in Nat
       /\ \A i \in DOMAIN unauthenticated' : /\ i \in DOMAIN unauthenticated /\ i # last
                                             /\ unauthenticated'[i] = unauthenticated[i]
  <2> DEFINE t == RemoveAt(unauthenticated, last)
  <2>1. DOMAIN unauthenticated = 1..last /\ last \in Nat /\ last \in DOMAIN unauthenticated
    BY <1>1, <1>2 DEF last
  <2>2. /\ t \in Seq(Clients) /\ Len(t) = last - 1
        /\ \A j \in DOMAIN t : t[j] = IF j < last THEN unauthenticated[j] ELSE unauthenticated[j + 1]
    BY <1>2, <2>1, RemoveAtMeans DEF last
  <2> HIDE DEF t
  <2>3. DOMAIN t = 1..(last - 1)
    BY <2>1, <2>2
  <2> QED BY <1>1, <2>1, <2>2, <2>3 DEF t
<1>12. ~InPlayers(c) /\ status[c] # "unknown"
  BY <1>1 DEF InPlayers, Inv, Sessions, Roster, TcpFrame
<1>13. \A d \in Clients : /\ IsReady(d)' <=> (IsReady(d) \/ d = c)
                          /\ IdOf(d)' = IF d = c THEN id ELSE IdOf(d)
                          /\ InPlayers(d)' <=> (InPlayers(d) \/ d = c)
  <2>1. Len(players) + 1 \in DOMAIN players'
    BY <1>10
  <2>2. \A d \in Clients : InPlayers(d)' <=> (InPlayers(d) \/ d = c)
    <3>1. \A i \in DOMAIN players' : i \in DOMAIN players \/ i = Len(players) + 1
      BY <1>10
    <3>2. \A i \in DOMAIN players : i \in DOMAIN players'
      BY <1>10
    <3> QED BY <1>10, <2>1, <3>1, <3>2 DEF InPlayers
  <2>3. \A d \in Clients : IsReady(d)' <=> (IsReady(d) \/ d = c)
    BY <1>7 DEF IsReady
  <2> QED BY <1>7, <2>2, <2>3 DEF IdOf
<1>14. ASSUME Settled(game, Seated) PROVE Places'
  <2>1. Seated \subseteq Seated'
    BY <1>9, <1>13 DEF Seated
  <2>2. \A d \in Clients : game.player[d].world # NoWorld => d \in Seated' /\ d # c
    BY <1>12, <1>14, <2>1 DEF Settled, Housed, Seated
  <2>3. \A d \in Clients : \/ game'.sent[d] = game.sent[d]
                           \/ \E m \in Notice : /\ m[1] \in {"hash", "details"}
                                                /\ game'.sent[d] = Append(game.sent[d], m)
    BY <1>5, <1>8
  <2>4. Settled(game', Seated')
    <3>1. \A d \in Clients : /\ game'.player[d].world = game.player[d].world
                             /\ game'.player[d].char = game.player[d].char
                             /\ game'.player[d].addr = game.player[d].addr
                             /\ game.player[d].world # NoWorld
                                  => d \in Seated' /\ game'.player[d].id = game.player[d].id
      BY <1>7, <2>2
    <3>2. /\ game \in GameType /\ game' \in GameType /\ game'.listed = game.listed
          /\ game'.entities = game.entities /\ game'.nextEntity = game.nextEntity
      BY <1>2, <1>6
    <3> QED BY <1>14, <2>3, <3>1, <3>2, PlacesKept
  <2> QED BY <2>4 DEF Places, Settled
<1>15. Roster'
  <2>1. \A i \in DOMAIN players' : /\ players'[i] \in Clients /\ status[players'[i]] # "unknown"
                                   /\ game'.player[players'[i]].ready
    <3> SUFFICES ASSUME NEW i \in DOMAIN players'
                 PROVE  /\ players'[i] \in Clients /\ status[players'[i]] # "unknown"
                        /\ game'.player[players'[i]].ready
      OBVIOUS
    <3>1. CASE i \in DOMAIN players
      <4>1. /\ players'[i] = players[i] /\ players[i] \in Clients /\ status[players[i]] # "unknown"
            /\ game.player[players[i]].ready
        BY <1>10, <3>1 DEF Inv, Sessions, Roster, IsReady
      <4>2. players[i] # c
        BY <1>12, <3>1 DEF InPlayers
      <4>3. game'.player[players[i]].ready
        BY <1>7, <4>1, <4>2
      <4> QED BY <4>1, <4>3
    <3>2. CASE i \notin DOMAIN players
      <4>1. players'[i] = c
        BY <1>10, <3>2
      <4>2. game'.player[c].ready
        BY <1>7
      <4> QED BY <1>12, <4>1, <4>2
    <3> QED BY <3>1, <3>2
  <2>2. \A i \in DOMAIN unauthenticated : unauthenticated[i] = c => i = last
    BY <1>1, <1>11 DEF Inv, Sessions, Roster
  <2>3. \A i \in DOMAIN unauthenticated' :
          /\ unauthenticated'[i] \in connected /\ status[unauthenticated'[i]] # "unknown"
          /\ ~game'.player[unauthenticated'[i]].ready
    <3> SUFFICES ASSUME NEW i \in DOMAIN unauthenticated'
                 PROVE  /\ unauthenticated'[i] \in connected /\ status[unauthenticated'[i]] # "unknown"
                        /\ ~game'.player[unauthenticated'[i]].ready
      OBVIOUS
    <3>1. /\ i \in DOMAIN unauthenticated /\ unauthenticated'[i] = unauthenticated[i]
          /\ unauthenticated[i] # c /\ unauthenticated[i] \in Clients
      BY <1>2, <1>11, <2>2
    <3>2. game'.player[unauthenticated[i]].ready = game.player[unauthenticated[i]].ready
      BY <1>7, <3>1
    <3>3. /\ unauthenticated[i] \in connected /\ status[unauthenticated[i]] # "unknown"
          /\ ~game.player[unauthenticated[i]].ready
      BY <3>1 DEF Inv, Sessions, Roster, IsReady
    <3> QED BY <3>1, <3>2, <3>3
  <2>4. \A i, j \in DOMAIN players' : players'[i] = players'[j] => i = j
    <3>1. \A i, j \in DOMAIN players : players[i] = players[j] => i = j
      BY DEF Inv, Sessions, Roster
    <3>2. \A i \in DOMAIN players : players[i] # c
      BY <1>12 DEF InPlayers
    <3> QED BY <1>10, <3>1, <3>2
  <2>5. \A i, j \in DOMAIN unauthenticated' : unauthenticated'[i] = unauthenticated'[j] => i = j
    BY <1>11 DEF Inv, Sessions, Roster
  <2>6. /\ \A d \in Clients : status[d] = "live" /\ IsReady(d)' => InPlayers(d)'
        /\ \A d \in Clients : status[d] = "unknown" => ~IsReady(d)'
    BY <1>12, <1>13 DEF Inv, Sessions, Roster
  <2> QED BY <1>9, <2>1, <2>3, <2>4, <2>5, <2>6 DEF Roster, IsReady
<1>16. IdsTellApart'
  <2>1. \A d \in Clients : IF IsReady(d)' THEN IdOf(d)' = savedId'[AccountOf[d]] /\ savedId'[AccountOf[d]] > 0
                           ELSE IdOf(d)' <= Cardinality(Clients)
    <3> SUFFICES ASSUME NEW d \in Clients
                 PROVE  IF IsReady(d)' THEN IdOf(d)' = savedId'[AccountOf[d]] /\ savedId'[AccountOf[d]] > 0
                        ELSE IdOf(d)' <= Cardinality(Clients)
      OBVIOUS
    <3>1. CASE d = c
      BY <1>3, <1>13, <3>1 DEF a
    <3>2. CASE d # c
      BY <1>2, <1>3, <1>13, <3>2 DEF Inv, Sessions, IdsTellApart
    <3> QED BY <3>1, <3>2
  <2> QED BY <1>3, <2>1 DEF IdsTellApart
<1>17. OneLogin'
  <2>1. \A d \in Clients : Told(d, "details")' <=> (Told(d, "details") \/ d = c)
    <3> SUFFICES ASSUME NEW d \in Clients PROVE Told(d, "details")' <=> (Told(d, "details") \/ d = c)
      OBVIOUS
    <3>1. CASE d = c
      <4>1. Len(s) + 1 \in DOMAIN game'.sent[c]
        BY <1>8
      <4> QED BY <1>5, <1>8, <3>1, <4>1 DEF Told
    <3>2. CASE d # c
      BY <1>8, <3>2 DEF Told
    <3> QED BY <3>1, <3>2
  <2>2. \A d \in Clients : LoginUnderWay(d)' => LoginUnderWay(d)
    BY <1>9, <2>1 DEF LoginUnderWay
  <2>3. \A i \in DOMAIN unauthenticated' :
          LoginUnderWay(unauthenticated[i])' => i = Len(unauthenticated')
    <3> SUFFICES ASSUME NEW i \in DOMAIN unauthenticated', LoginUnderWay(unauthenticated[i])'
                 PROVE  FALSE
      OBVIOUS
    <3>1. i \in DOMAIN unauthenticated /\ i # last /\ unauthenticated'[i] = unauthenticated[i]
          /\ unauthenticated[i] \in Clients
      BY <1>2, <1>11
    <3>2. LoginUnderWay(unauthenticated[i])
      BY <2>2, <3>1
    <3> QED BY <3>1, <3>2 DEF Inv, Sessions, OneLogin, last
  <2>4. \A d \in Clients : d \notin connected => status[d] = "unknown"
    BY DEF Inv, Sessions, OneLogin
  <2>5. \A d \in Clients : IsReady(d)' <=> Told(d, "details")'
    BY <1>13, <2>1 DEF Inv, Sessions, OneLogin
  <2>6. \A d, e \in Clients : LoginUnderWay(d)' /\ LoginUnderWay(e)' => d = e
    BY <2>2 DEF Inv, Sessions, OneLogin
  <2>7. \A d \in Clients : \A i \in DOMAIN game'.sent[d] :
          game'.sent[d][i][1] = "details" => game'.sent[d][i][2] = IdOf(d)'
    <3> SUFFICES ASSUME NEW d \in Clients, NEW i \in DOMAIN game'.sent[d],
                        game'.sent[d][i][1] = "details"
                 PROVE  game'.sent[d][i][2] = IdOf(d)'
      OBVIOUS
    <3>1. CASE d # c
      BY <1>8, <1>13, <3>1 DEF Inv, Sessions, OneLogin
    <3>2. CASE d = c /\ i = Len(s) + 1
      BY <1>5, <1>8, <1>13, <3>2
    <3>3. CASE d = c /\ i # Len(s) + 1
      <4>1. i \in DOMAIN s /\ s[i][1] = "details"
        BY <1>8, <3>3
      <4>2. Told(c, "details")
        BY <4>1 DEF Told
      <4> QED BY <1>1, <4>2 DEF Inv, Sessions, OneLogin
    <3> QED BY <3>1, <3>2, <3>3
  <2> QED BY <1>9, <2>3, <2>4, <2>5, <2>6, <2>7 DEF OneLogin, LoginUnderWay
<1>18. AuthenticatesOnce'
  <2> SUFFICES ASSUME NEW d \in Clients
               PROVE  /\ handed'[d] <= Len(written[d])
                      /\ \A i, j \in DOMAIN written[d] :
                           written[d][i] = written[d][j] /\ written[d][i] # "loaded" => i = j
                      /\ \A i, j \in DOMAIN game'.sent[d] :
                           game'.sent[d][i][1] = "hash" /\ game'.sent[d][j][1] = "hash" => i = j
                      /\ Told(d, "hash")' => \E i \in 1..handed'[d] : written[d][i] = "requestHash"
                      /\ IsReady(d)' => \E i \in 1..handed'[d] : written[d][i] = "auth"
    BY <1>9 DEF AuthenticatesOnce
  <2>1. /\ handed'[d] = IF d = c THEN handed[c] + 1 ELSE handed[d]
        /\ handed'[d] <= Len(written[d]) /\ 1..handed[d] \subseteq 1..handed'[d]
    BY TcpHanded
  <2>2. \A i \in DOMAIN game'.sent[d] : game'.sent[d][i][1] = "hash" =>
          i \in DOMAIN game.sent[d] /\ game.sent[d][i][1] = "hash"
    <3>1. CASE d = c
      BY <1>5, <1>8, <3>1
    <3>2. CASE d # c
      BY <1>8, <3>2
    <3> QED BY <3>1, <3>2
  <2>3. \A i, j \in DOMAIN game'.sent[d] :
          game'.sent[d][i][1] = "hash" /\ game'.sent[d][j][1] = "hash" => i = j
    BY <2>2 DEF Inv, Sessions, AuthenticatesOnce
  <2>4. Told(d, "hash")' => \E i \in 1..handed'[d] : written[d][i] = "requestHash"
    <3>1. Told(d, "hash")' => Told(d, "hash")
      BY <2>2 DEF Told
    <3> QED BY <2>1, <3>1 DEF Inv, Sessions, AuthenticatesOnce
  <2>5. IsReady(d)' => \E i \in 1..handed'[d] : written[d][i] = "auth"
    <3>1. CASE d = c
      <4>1. handed'[d] \in 1..handed'[d]
        BY <1>2, <2>1, <3>1 DEF TypeOK, Feed!FeedTypeOK
      <4> QED BY <2>1, <3>1, <4>1
    <3>2. CASE d # c
      BY <1>13, <2>1, <3>2 DEF Inv, Sessions, AuthenticatesOnce
    <3> QED BY <3>1, <3>2
  <2> QED BY <2>1, <2>3, <2>4, <2>5 DEF Inv, Sessions, AuthenticatesOnce
<1>19. DatagramsFindTheirs'
  <2> SUFFICES ASSUME NEW d \in datagrams
               PROVE  \E e \in Clients : /\ \E k \in 0..MaxRebinds : d.addr = <<e, k>>
                                         /\ IsReady(e)' /\ d.id = IdOf(e)'
                                         /\ status[e] = "live" \/ ~InPlayers(e)'
    BY <1>9 DEF DatagramsFindTheirs
  <2>1. PICK e \in Clients : /\ \E k \in 0..MaxRebinds : d.addr = <<e, k>>
                             /\ IsReady(e) /\ d.id = IdOf(e)
                             /\ status[e] = "live" \/ ~InPlayers(e)
    BY DEF Inv, Sessions, DatagramsFindTheirs
  <2> QED BY <1>1, <1>13, <2>1
<1>20. Peopled(game')
  <2>1. \A d \in Clients : /\ game'.player[d].char = game.player[d].char
                           /\ game.player[d].ready => game'.player[d].ready
                                /\ game'.player[d].id = game.player[d].id
    BY <1>1, <1>7 DEF IsReady
  <2> QED BY <1>2, <1>6, <2>1, PeopledKept DEF Inv
<1>21. Steady
  <2>1. CharactersKept
    BY <1>7 DEF CharactersKept
  <2> QED BY <1>14, <2>1, PlacesAreSettled DEF Inv, Steady
<1> QED BY <1>15, <1>16, <1>17, <1>18, <1>19, <1>20, <1>21 DEF Inv, Sessions

LEMMA OnReceiveTcpKeeps ==
  ASSUME TakingTurns, Inv, Types', NEW c \in Clients, OnReceiveTcp(c)
  PROVE  Inv' /\ Steady
<1> DEFINE m == written[c][handed[c] + 1]
<1>1. /\ handed[c] < Len(written[c]) /\ Feed!HandPacket(c) /\ m \in TcpMessages
      /\ UNCHANGED <<connected, written, port, datagrams, warps>>
      /\ \/ UNCHANGED <<idCount, savedId, unauthenticated, players, game, nullDereferenced>>
         \/ /\ HandleTcp(c, m)
            /\ \/ InPlayers(c)
               \/ ~InPlayers(c) /\ \E i \in DOMAIN unauthenticated : unauthenticated[i] = c
  BY OnReceiveTcpMeans DEF Inv, Types
<1>2. TcpFrame(c)
  BY <1>1 DEF TcpFrame, Feed!HandPacket
<1> HIDE DEF m
<1>3. ASSUME UNCHANGED <<idCount, savedId, unauthenticated, players, game>>
      PROVE  Inv' /\ Steady
  <2>1. /\ Settled(game, Seated) => Settled(game', Seated)
        /\ LoginKept(game, game') /\ Peopled(game')
    BY <1>3 DEF Inv, LoginKept, SameLogin
  <2> QED BY <1>2, <1>3, <2>1, TcpElse
<1>4. CASE HandleTcp(c, m) /\ m = "requestHash"
  <2>1. HandleRequestHashedPassword(c)
    BY <1>4 DEF HandleTcp
  <2>2. /\ UNCHANGED <<idCount, savedId, unauthenticated, players>>
        /\ game' = SendTo(game, c, <<"hash">>) \/ UNCHANGED game
    BY <2>1 DEF HandleRequestHashedPassword, listVars
  <2> QED BY <1>2, <1>3, <1>4, <2>2, HashKeeps DEF m
<1>5. CASE HandleTcp(c, m) /\ m = "auth" /\ (InPlayers(c) \/ \E i \in DOMAIN unauthenticated : unauthenticated[i] = c)
  <2>1. HandlePlayerAuthenticate(c) \/ AuthenticateFails(c)
    BY <1>5 DEF HandleTcp
  <2> QED BY <1>2, <1>5, <2>1, AuthenticateKeeps, AuthenticateFailsKeeps DEF m
<1>6. CASE HandleTcp(c, m) /\ m = "loaded"
  <2>1. HandleWorldLoaded(c)
    BY <1>6 DEF HandleTcp
  <2>2. /\ Settled(game, Seated) => Settled(game', Seated)
        /\ LoginKept(game, game') /\ Peopled(game') /\ game'.player = game.player
    BY <2>1, WorldLoadedKeeps
  <2>3. UNCHANGED <<idCount, savedId, unauthenticated, players>>
    BY <2>1 DEF HandleWorldLoaded, listVars
  <2> QED BY <1>2, <2>2, <2>3, TcpElse
<1> QED BY <1>1, <1>3, <1>4, <1>5, <1>6 DEF TcpMessages

LEMMA InitInv == TakingTurns /\ Init => Inv /\ Places
<1> SUFFICES ASSUME TakingTurns, Init PROVE Inv /\ Places
  OBVIOUS
<1>1. Types
  BY InitTypes
<1>2. /\ \A c \in Clients : /\ game.player[c].id = 0 /\ game.player[c].addr = NoAddress
                            /\ ~game.player[c].ready /\ game.player[c].world = NoWorld
                            /\ game.player[c].char = 0 /\ game.sent[c] = <<>>
                            /\ written[c] = <<>> /\ handed[c] = 0 /\ status[c] = "unknown"
      /\ \A w \in Worlds : game.entities[w] = {} /\ \A i \in PlayerIds : game.listed[w][i] = 0
      /\ game.nextEntity = 1 /\ savedId = SavedId /\ players = <<>> /\ unauthenticated = <<>>
      /\ connected = {} /\ datagrams = {}
  BY DEF Init, Feed!FeedInit
<1>3. Cardinality(Clients) \in Nat /\ NoWorld \notin Worlds
  BY FS_CardinalityType, SessionsAssumption DEF SessionsAssumption
<1>4. Roster
  BY <1>2 DEF Roster, IsReady
<1>5. IdsTellApart
  BY <1>2, <1>3 DEF IdsTellApart, IsReady, IdOf, TakingTurns
<1>6. OneLogin
  BY <1>2 DEF OneLogin, IsReady, IdOf, Told, LoginUnderWay
<1>7. AuthenticatesOnce
  BY <1>2 DEF AuthenticatesOnce, IsReady, Told
<1>8. DatagramsFindTheirs
  BY <1>2 DEF DatagramsFindTheirs
<1>9. \A w \in Worlds : Members(game, w) = {}
  BY <1>2, <1>3 DEF Members
<1>10. Housed(game, Seated)
  BY <1>2 DEF Housed
<1>11. Agree(game)
  BY <1>2, <1>9 DEF Agree
<1>12. Loaded(game) /\ \A c \in Clients : LoadsFirst(game.sent[c])
  BY <1>2, <1>9 DEF Loaded, LoadsFirst
<1>13. Peopled(game)
  BY <1>2 DEF Peopled, ListedOwn, OneOwner, CharacterIsOwn, EntityIds
<1> QED BY <1>1, <1>4, <1>5, <1>6, <1>7, <1>8, <1>10, <1>11, <1>12, <1>13 DEF Inv, Sessions, Places

LEMMA NextTypes == Types /\ [Next]_vars => Types'
<1> SUFFICES ASSUME Types, [Next]_vars PROVE Types'
  OBVIOUS
<1>1. CASE Next
  BY <1>1, ClientStepTypes, BatchTypes, OnClientAddTypes, OnClientRemoveTypes,
     OnReceiveTcpTypes, OnReceiveUdpTestTypes, WarpPlayerTypes DEF Next
<1>2. CASE UNCHANGED vars
  BY <1>2 DEF vars, feedVars, clientVars, listVars, Types, TypeOK, IdsSuffice, Feed!FeedTypeOK
<1> QED BY <1>1, <1>2

LEMMA NextKeeps == TakingTurns /\ Inv /\ [Next]_vars => Inv' /\ Steady
<1> SUFFICES ASSUME TakingTurns, Inv, [Next]_vars PROVE Inv' /\ Steady
  OBVIOUS
<1>1. Types'
  BY NextTypes DEF Inv
<1>2. CASE Next
  BY <1>1, <1>2, ClientStepKeeps, BatchKeeps, OnClientAddKeeps, OnClientRemoveKeeps,
     OnReceiveTcpKeeps, OnReceiveUdpTestKeeps, WarpPlayerKeeps DEF Next
<1>3. CASE UNCHANGED vars
  <2>1. LoginKept(game, game')
    BY <1>3 DEF vars, LoginKept, SameLogin
  <2>2. \A c \in Clients : handed[c] <= handed'[c] /\ handed'[c] <= Len(written[c])
    BY <1>3 DEF vars, feedVars, Inv, Types, TypeOK, Feed!FeedTypeOK, Sessions, AuthenticatesOnce
  <2>3. Sessions'
    BY <1>1, <1>3, <2>1, <2>2, SessionsKept DEF Inv, vars, feedVars, clientVars, listVars
  <2>4. Seated' = Seated
    BY <1>3 DEF Seated, InPlayers, vars, feedVars, listVars
  <2>5. Places' <=> Places
    BY <1>3, <2>4 DEF Places, vars
  <2> QED BY <1>1, <1>3, <2>3, <2>5 DEF Inv, CharactersKept, vars, Steady
<1> QED BY <1>2, <1>3

-----------------------------------------------------------------------------
(***************************************************************************)
(* The theorems.                                                           *)
(***************************************************************************)
LEMMA SessionsHold == TakingTurns => (Spec => [][Steady]_vars /\ []Inv)
<1> SUFFICES ASSUME TakingTurns PROVE Spec => [][Steady]_vars /\ []Inv
  OBVIOUS
<1>1. Init => Inv
  BY InitInv
<1>2. Inv /\ [Next]_vars => Inv'
  BY NextKeeps
<1>3. Inv /\ [Next]_vars => [Steady]_vars
  BY NextKeeps
<1> QED BY <1>1, <1>2, <1>3, PTL DEF Spec

\* Players that have logged in are in _players once, and none is on the list
\* of those that have not: Server's two lists tell sessions apart.  It holds
\* whatever UDP addresses the clients send from.
THEOREM SessionsAreTabled == TakingTurns => (Spec => []SessionTable)
<1> SUFFICES ASSUME TakingTurns PROVE Spec => []SessionTable
  OBVIOUS
<1>1. ASSUME Inv PROVE SessionTable
  <2> USE <1>1 DEF Inv
  <2>1. /\ players \in Seq(Clients \union {Dangling}) /\ unauthenticated \in Seq(Clients)
        /\ Dangling \notin Clients
    BY SessionsAssumption DEF Types, TypeOK, SessionsAssumption
  <2>2. ~Contains(players, Dangling)
    BY <2>1 DEF Contains, Sessions, Roster
  <2>3. ASSUME NEW c \in Clients, status[c] = "live", game.player[c].ready
        PROVE  Cardinality({i \in DOMAIN players : players[i] = c}) = 1
    <3>1. PICK i \in DOMAIN players : players[i] = c
      BY <2>3 DEF Sessions, Roster, IsReady, InPlayers
    <3>2. {j \in DOMAIN players : players[j] = c} = {i}
      BY <3>1 DEF Sessions, Roster
    <3> QED BY <3>2, FS_Singleton
  <2>4. ASSUME NEW c \in Clients, game.player[c].ready
        PROVE  ~Contains(unauthenticated, c)
    BY <2>1, <2>4 DEF Contains, Sessions, Roster, IsReady
  <2> QED BY <2>2, <2>3, <2>4 DEF SessionTable
<1>2. Spec => []Inv
  BY SessionsHold
<1> QED BY <1>1, <1>2, PTL

\* Whoever World::_players lists has a character in that world, even when UDP
\* tests from new addresses have put the player into worlds again.
THEOREM ListedPlayersHaveCharacters == TakingTurns => (Spec => []ListedHasCharacter)
<1> SUFFICES ASSUME TakingTurns PROVE Spec => []ListedHasCharacter
  OBVIOUS
<1>1. Inv => ListedHasCharacter
  BY DEF Inv, Peopled, ListedOwn, ListedHasCharacter, ListedIds
<1>2. Spec => []Inv
  BY SessionsHold
<1> QED BY <1>1, <1>2, PTL

LEMMA WorldsHold == TakingTurns /\ OneAddress => (Spec => [](Inv /\ Places) /\ [][CharactersKept]_vars)
<1> SUFFICES ASSUME TakingTurns, OneAddress PROVE Spec => [](Inv /\ Places) /\ [][CharactersKept]_vars
  OBVIOUS
<1>1. Init => Inv /\ Places
  BY InitInv
<1>2. Inv /\ Places /\ [Next]_vars => (Inv /\ Places)'
  BY NextKeeps DEF Steady
<1>3. Inv /\ Places /\ [Next]_vars => [CharactersKept]_vars
  BY NextKeeps DEF Steady
<1> QED BY <1>1, <1>2, <1>3, PTL DEF Spec

\* A world's list, its characters and the players' own records agree, through
\* logins, transfers that fail half-way, and disconnections.
THEOREM WorldsAgree == TakingTurns /\ OneAddress => (Spec => []WorldMembership)
<1> SUFFICES ASSUME TakingTurns, OneAddress PROVE Spec => []WorldMembership
  OBVIOUS
<1>1. Inv /\ Places => WorldMembership
  BY DEF Places, Agree, WorldMembership, InWorld, Members
<1>2. Spec => [](Inv /\ Places)
  BY WorldsHold
<1> QED BY <1>1, <1>2, PTL

\* OnClientRemove leaves no character and no listed id behind.
THEOREM CharactersLeaveWithTheirClients ==
  TakingTurns /\ OneAddress => (Spec => []NoCharacterOutlivesClient)
<1> SUFFICES ASSUME TakingTurns, OneAddress PROVE Spec => []NoCharacterOutlivesClient
  OBVIOUS
<1>1. ASSUME Inv, Places PROVE NoCharacterOutlivesClient
  <2> DEFINE liveIds == {game.player[c].id : c \in {d \in Clients : status[d] = "live"}}
  <2>1. ASSUME NEW w \in Worlds, NEW c \in Members(game, w) PROVE game.player[c].id \in liveIds
    BY <1>1, SessionsAssumption DEF Places, Housed, Seated, Members, SessionsAssumption
  <2>2. ASSUME NEW w \in Worlds PROVE ListedIds(game, w) \subseteq liveIds
    <3>1. \A id \in PlayerIds : game.listed[w][id] > 0 => \E c \in Members(game, w) : game.player[c].id = id
      BY <1>1 DEF Places, Agree
    <3> QED BY <2>1, <3>1 DEF ListedIds
  <2>3. ASSUME NEW w \in Worlds, NEW e \in game.entities[w] PROVE e.owner \in liveIds
    <3>1. \E c \in Members(game, w) : e.owner = game.player[c].id
      BY <1>1 DEF Places, Agree
    <3> QED BY <2>1, <3>1
  <2> QED BY <2>2, <2>3 DEF NoCharacterOutlivesClient
<1>2. Spec => [](Inv /\ Places)
  BY WorldsHold
<1> QED BY <1>1, <1>2, PTL

\* No client is sent the details of a world's characters unless that world is
\* the last one it was told to load.
THEOREM LoadComesFirst == TakingTurns /\ OneAddress => (Spec => []LoadWorldFirst)
<1> SUFFICES ASSUME TakingTurns, OneAddress PROVE Spec => []LoadWorldFirst
  OBVIOUS
<1>1. Inv /\ Places => LoadWorldFirst
  BY DEF Places, LoadsFirst, LoadWorldFirst
<1>2. Spec => [](Inv /\ Places)
  BY WorldsHold
<1> QED BY <1>1, <1>2, PTL

\* A transfer keeps the entity id of the character, and no step gives a player
\* with a character another one.
THEOREM TransfersKeepTheEntity == TakingTurns /\ OneAddress => (Spec => EntityIdIsKept)
<1> SUFFICES ASSUME TakingTurns, OneAddress PROVE Spec => EntityIdIsKept
  OBVIOUS
<1>1. Spec => [][CharactersKept]_vars
  BY WorldsHold
<1>2. CharactersKept <=> \A c \in Clients : game.player[c].char > 0 /\ game'.player[c].char > 0
                             => game'.player[c].char = game.player[c].char
  BY DEF CharactersKept
<1> QED BY <1>1, <1>2, PTL DEF EntityIdIsKept

=============================================================================
