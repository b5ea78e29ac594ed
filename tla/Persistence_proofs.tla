-------------------------- MODULE Persistence_proofs --------------------------
(***************************************************************************)
(* Proofs about Persistence, for any users, worlds and looks and any       *)
(* number of failures, entities and restarts.                              *)
(***************************************************************************)
EXTENDS Persistence, WellFoundedInduction, SequenceTheorems, TLAPS

-----------------------------------------------------------------------------
(***************************************************************************)
(* Shapes: what the variables and a handler's state look like, whatever    *)
(* values are in them.                                                     *)
(***************************************************************************)

State(rows, looks, given, fail, fine, values, fault) ==
  [players |-> rows, cache |-> looks, held |-> given, failed |-> fail,
   ok |-> fine, results |-> values, fault |-> fault]

Row(name, password, world, at, look) ==
  [name |-> name, password |-> password, world |-> world, at |-> at, look |-> look]

IsRow(row) == \E name, password, world, at, look : row = Row(name, password, world, at, look)
IsRows(rows) == \E S : rows \in Seq(S) /\ \A row \in S : IsRow(row)

Commands(f) == DOMAIN Parameters[f]
IsHeld(given) ==
  /\ \E S : given \in [SqlFiles -> [1..1 -> S] \cup [1..2 -> S]]
  /\ \A f \in SqlFiles : DOMAIN given[f] = Commands(f)

IsCache(looks) == \E S : looks \in [1..MaxEntities -> S]

IsState(r) ==
  /\ \E rows, looks, given, fail, fine, values, fault :
       r = State(rows, looks, given, fail, fine, values, fault)
  /\ IsRows(r.players) /\ IsCache(r.cache) /\ IsHeld(r.held) /\ r.ok \in BOOLEAN

-----------------------------------------------------------------------------
LEMMA MetresBelow ==
  ASSUME NEW v \in Int
  PROVE  Metres(v) \in Int /\ v - Metres(v) \in 0..UnitsPerMetre-1
BY PersistenceAssumption DEF Metres

LEMMA StateFields ==
  ASSUME NEW rows, NEW looks, NEW given, NEW fail, NEW fine, NEW values, NEW fault
  PROVE  LET r == State(rows, looks, given, fail, fine, values, fault) IN
         /\ r.players = rows /\ r.cache = looks /\ r.held = given /\ r.failed = fail
         /\ r.ok = fine /\ r.results = values /\ r.fault = fault
BY DEF State

No == FALSE
HeldAfter(given, f, k, p) == [given EXCEPT ![f][k] = p]

LEMMA FailedState ==
  ASSUME NEW rows, NEW looks, NEW given, NEW fail, NEW fine, NEW values, NEW fault, NEW f, NEW k, NEW p
  PROVE  Failed(State(rows, looks, given, fail, fine, values, fault), f, k, p)
         = State(rows, looks, HeldAfter(given, f, k, p), fail \cup {f}, No, values, fault)
<1> DEFINE r == State(rows, looks, given, fail, fine, values, fault)
           s == State(rows, looks, given, fail, No, values, fault)
           t == State(rows, looks, HeldAfter(given, f, k, p), fail, No, values, fault)
           v == State(rows, looks, HeldAfter(given, f, k, p), fail \cup {f}, No, values, fault)
<1>1. Failed(r, f, k, p) = [[[r EXCEPT !.ok = No] EXCEPT !.held[f][k] = p] EXCEPT !.failed = @ \cup {f}]
  BY DEF Failed, No
<1>2. [r EXCEPT !.ok = No] = s
  BY DEF State
<1>3. [s EXCEPT !.held[f][k] = p] = t
  BY DEF State, HeldAfter
<1>4. [t EXCEPT !.failed = @ \cup {f}] = v
  BY DEF State
<1> HIDE DEF r, s, t, v
<1>5. Failed(r, f, k, p) = v
  BY <1>1, <1>2, <1>3, <1>4
<1> QED BY <1>5 DEF r, v

LEMMA DoneState ==
  ASSUME NEW rows, NEW looks, NEW given, NEW fail, NEW fine, NEW values, NEW fault, NEW f, NEW k, NEW p
  PROVE  Done(State(rows, looks, given, fail, fine, values, fault), f, k, p)
         = State(PlayersAfter(rows, f, k, p), CacheAfter(looks, f, p), HeldAfter(given, f, k, Null),
                 fail, fine, Selected(rows, looks, f, k, p), fault)
<1> DEFINE rows2 == PlayersAfter(rows, f, k, p)
           looks2 == CacheAfter(looks, f, p)
           given2 == HeldAfter(given, f, k, Null)
           values2 == Selected(rows, looks, f, k, p)
           r == State(rows, looks, given, fail, fine, values, fault)
           s == State(rows2, looks, given, fail, fine, values, fault)
           t == State(rows2, looks2, given, fail, fine, values, fault)
           v == State(rows2, looks2, given2, fail, fine, values, fault)
<1>1. r.players = rows /\ r.cache = looks
  BY DEF State
<1>2. Done(r, f, k, p) = [[[[r EXCEPT !.players = PlayersAfter(@, f, k, p)]
                              EXCEPT !.cache = CacheAfter(@, f, p)]
                              EXCEPT !.held[f][k] = Null]
                              EXCEPT !.results = Selected(r.players, r.cache, f, k, p)]
  BY DEF Done
<1>3. [r EXCEPT !.players = PlayersAfter(@, f, k, p)] = s
  BY DEF State
<1>4. [s EXCEPT !.cache = CacheAfter(@, f, p)] = t
  BY DEF State
<1>5. [t EXCEPT !.held[f][k] = Null] = v
  BY DEF State, HeldAfter
<1>6. [v EXCEPT !.results = values2] = State(rows2, looks2, given2, fail, fine, values2, fault)
  BY DEF State
<1>7. values2 = Selected(r.players, r.cache, f, k, p)
  BY <1>1
<1> HIDE DEF r, s, t, v, values2
<1>8. Done(r, f, k, p) = State(rows2, looks2, given2, fail, fine, values2, fault)
  BY <1>2, <1>3, <1>4, <1>5, <1>6, <1>7
<1> QED BY <1>8 DEF r, values2

LEMMA CountedState ==
  ASSUME NEW rows, NEW looks, NEW given, NEW fail, NEW fine, NEW values, NEW fault, NEW counts
  PROVE  Counted(State(rows, looks, given, fail, fine, values, fault), counts)
         = State(rows, looks, given, fail, fine /\ Len(values) \in counts, values, fault)
BY DEF Counted, State


-----------------------------------------------------------------------------
(***************************************************************************)
(* The rows of player.db.                                                  *)
(***************************************************************************)

LEMMA RowsAreSequence ==
  ASSUME NEW rows, IsRows(rows)
  PROVE  /\ Len(rows) \in Nat /\ DOMAIN rows = 1..Len(rows)
         /\ \A i \in DOMAIN rows : IsRow(rows[i])
BY DEF IsRows

LEMMA AppendRow ==
  ASSUME NEW rows, IsRows(rows), NEW row, IsRow(row)
  PROVE  /\ IsRows(Append(rows, row))
         /\ Len(Append(rows, row)) = Len(rows) + 1
         /\ \A i \in DOMAIN rows : Append(rows, row)[i] = rows[i]
         /\ Append(rows, row)[Len(rows) + 1] = row
<1>1. PICK S : rows \in Seq(S) /\ \A e \in S : IsRow(e)
  BY DEF IsRows
<1> DEFINE T == S \cup {row}
<1>2. rows \in Seq(T) /\ row \in T /\ \A e \in T : IsRow(e)
  BY <1>1
<1> HIDE DEF T
<1>3. Append(rows, row) \in Seq(T)
  BY <1>2
<1>4. IsRows(Append(rows, row))
  BY <1>2, <1>3 DEF IsRows
<1> QED BY <1>2, <1>4

\* One field of one row is set, if there is that row.
LEMMA SetRow ==
  ASSUME NEW rows, IsRows(rows), NEW after, NEW i,
         after = [rows EXCEPT ![i] = after[i]],
         i \in DOMAIN rows => IsRow(after[i])
  PROVE  /\ IsRows(after) /\ Len(after) = Len(rows) /\ DOMAIN after = DOMAIN rows
         /\ \A j \in DOMAIN rows : j # i => after[j] = rows[j]
<1>1. PICK S : rows \in Seq(S) /\ \A e \in S : IsRow(e)
  BY DEF IsRows
<1>2. CASE i \in DOMAIN rows
  <2> DEFINE T == S \cup {after[i]}
             e == after[i]
  <2>1. rows \in Seq(T) /\ after[i] \in T /\ \A x \in T : IsRow(x)
    BY <1>1, <1>2
  <2>2. e \in T /\ after = [rows EXCEPT ![i] = e]
    BY <2>1
  <2> HIDE DEF T, e
  <2>3. after \in Seq(T) /\ Len(after) = Len(rows)
    BY <1>2, <2>1, <2>2
  <2>4. IsRows(after)
    BY <2>1, <2>3 DEF IsRows
  <2> QED BY <1>2, <2>1, <2>2, <2>3, <2>4
<1>3. CASE i \notin DOMAIN rows
  <2>1. after = rows
    BY <1>1, <1>3
  <2> QED BY <2>1
<1> QED BY <1>2, <1>3


WorldSet(rows, i, x) == [rows EXCEPT ![i].world = x]

LEMMA SetWorld ==
  ASSUME NEW rows, IsRows(rows), NEW i, NEW x
  PROVE  LET after == WorldSet(rows, i, x) IN
         /\ IsRows(after) /\ Len(after) = Len(rows) /\ DOMAIN after = DOMAIN rows
         /\ \A j \in DOMAIN rows :
              /\ after[j].name = rows[j].name /\ after[j].password = rows[j].password
              /\ after[j].at = rows[j].at /\ after[j].look = rows[j].look
              /\ after[j].world = IF j = i THEN x ELSE rows[j].world
<1> DEFINE after == WorldSet(rows, i, x)
<1>1. i \in DOMAIN rows => after[i] = [rows[i] EXCEPT !.world = x]
  BY RowsAreSequence DEF WorldSet
<1>2. after = [rows EXCEPT ![i] = after[i]]
  BY <1>1, RowsAreSequence DEF WorldSet
<1> HIDE DEF after
<1>3. ASSUME i \in DOMAIN rows
      PROVE  /\ IsRow(after[i]) /\ after[i].name = rows[i].name /\ after[i].password = rows[i].password
             /\ after[i].at = rows[i].at /\ after[i].look = rows[i].look /\ after[i].world = x
  <2>1. PICK name, password, world, at, look : rows[i] = Row(name, password, world, at, look)
    BY <1>3, RowsAreSequence DEF IsRow
  <2>2. after[i] = Row(name, password, x, at, look)
    BY <1>1, <1>3, <2>1 DEF Row
  <2>3. IsRow(after[i])
    BY <2>2 DEF IsRow
  <2> QED BY <2>1, <2>2, <2>3 DEF Row
<1>4. /\ IsRows(after) /\ Len(after) = Len(rows) /\ DOMAIN after = DOMAIN rows
      /\ \A j \in DOMAIN rows : j # i => after[j] = rows[j]
  BY <1>2, <1>3, SetRow
<1>5. \A j \in DOMAIN rows :
        /\ after[j].name = rows[j].name /\ after[j].password = rows[j].password
        /\ after[j].at = rows[j].at /\ after[j].look = rows[j].look
        /\ after[j].world = IF j = i THEN x ELSE rows[j].world
  BY <1>3, <1>4
<1> QED BY <1>4, <1>5 DEF after

AtSet(rows, i, x) == [rows EXCEPT ![i].at = x]

LEMMA SetAt ==
  ASSUME NEW rows, IsRows(rows), NEW i, NEW x
  PROVE  LET after == AtSet(rows, i, x) IN
         /\ IsRows(after) /\ Len(after) = Len(rows) /\ DOMAIN after = DOMAIN rows
         /\ \A j \in DOMAIN rows :
              /\ after[j].name = rows[j].name /\ after[j].password = rows[j].password
              /\ after[j].world = rows[j].world /\ after[j].look = rows[j].look
              /\ after[j].at = IF j = i THEN x ELSE rows[j].at
<1> DEFINE after == AtSet(rows, i, x)
<1>1. i \in DOMAIN rows => after[i] = [rows[i] EXCEPT !.at = x]
  BY RowsAreSequence DEF AtSet
<1>2. after = [rows EXCEPT ![i] = after[i]]
  BY <1>1, RowsAreSequence DEF AtSet
<1> HIDE DEF after
<1>3. ASSUME i \in DOMAIN rows
      PROVE  /\ IsRow(after[i]) /\ after[i].name = rows[i].name /\ after[i].password = rows[i].password
             /\ after[i].world = rows[i].world /\ after[i].look = rows[i].look /\ after[i].at = x
  <2>1. PICK name, password, world, at, look : rows[i] = Row(name, password, world, at, look)
    BY <1>3, RowsAreSequence DEF IsRow
  <2>2. after[i] = Row(name, password, world, x, look)
    BY <1>1, <1>3, <2>1 DEF Row
  <2>3. IsRow(after[i])
    BY <2>2 DEF IsRow
  <2> QED BY <2>1, <2>2, <2>3 DEF Row
<1>4. /\ IsRows(after) /\ Len(after) = Len(rows) /\ DOMAIN after = DOMAIN rows
      /\ \A j \in DOMAIN rows : j # i => after[j] = rows[j]
  BY <1>2, <1>3, SetRow
<1>5. \A j \in DOMAIN rows :
        /\ after[j].name = rows[j].name /\ after[j].password = rows[j].password
        /\ after[j].world = rows[j].world /\ after[j].look = rows[j].look
        /\ after[j].at = IF j = i THEN x ELSE rows[j].at
  BY <1>3, <1>4
<1> QED BY <1>4, <1>5 DEF after

LookSet(rows, i, x) == [rows EXCEPT ![i].look = x]

LEMMA SetLook ==
  ASSUME NEW rows, IsRows(rows), NEW i, NEW x
  PROVE  LET after == LookSet(rows, i, x) IN
         /\ IsRows(after) /\ Len(after) = Len(rows) /\ DOMAIN after = DOMAIN rows
         /\ \A j \in DOMAIN rows :
              /\ after[j].name = rows[j].name /\ after[j].password = rows[j].password
              /\ after[j].world = rows[j].world /\ after[j].at = rows[j].at
              /\ after[j].look = IF j = i THEN x ELSE rows[j].look
<1> DEFINE after == LookSet(rows, i, x)
<1>1. i \in DOMAIN rows => after[i] = [rows[i] EXCEPT !.look = x]
  BY RowsAreSequence DEF LookSet
<1>2. after = [rows EXCEPT ![i] = after[i]]
  BY <1>1, RowsAreSequence DEF LookSet
<1> HIDE DEF after
<1>3. ASSUME i \in DOMAIN rows
      PROVE  /\ IsRow(after[i]) /\ after[i].name = rows[i].name /\ after[i].password = rows[i].password
             /\ after[i].world = rows[i].world /\ after[i].at = rows[i].at /\ after[i].look = x
  <2>1. PICK name, password, world, at, look : rows[i] = Row(name, password, world, at, look)
    BY <1>3, RowsAreSequence DEF IsRow
  <2>2. after[i] = Row(name, password, world, at, x)
    BY <1>1, <1>3, <2>1 DEF Row
  <2>3. IsRow(after[i])
    BY <2>2 DEF IsRow
  <2> QED BY <2>1, <2>2, <2>3 DEF Row
<1>4. /\ IsRows(after) /\ Len(after) = Len(rows) /\ DOMAIN after = DOMAIN rows
      /\ \A j \in DOMAIN rows : j # i => after[j] = rows[j]
  BY <1>2, <1>3, SetRow
<1>5. \A j \in DOMAIN rows :
        /\ after[j].name = rows[j].name /\ after[j].password = rows[j].password
        /\ after[j].world = rows[j].world /\ after[j].at = rows[j].at
        /\ after[j].look = IF j = i THEN x ELSE rows[j].look
  BY <1>3, <1>4
<1> QED BY <1>4, <1>5 DEF after

-----------------------------------------------------------------------------
(***************************************************************************)
(* The commands of the SQL files and what each is held with.               *)
(***************************************************************************)

LEMMA FileFacts ==
  ASSUME NEW f \in SqlFiles
  PROVE  /\ Len(Parameters[f]) \in {1, 2} /\ Commands(f) = 1..Len(Parameters[f])
         /\ Len(Parameters[f]) = 2 <=> f \in {"InsertPlayer", "UpdatePlayerLogin"}
         /\ Parameters[f][1] \in {1, 2, 3} /\ 1 \in Commands(f)
BY DEF SqlFiles, Parameters, Commands

LEMMA HeldSet ==
  ASSUME NEW given, IsHeld(given), NEW f \in SqlFiles, NEW k \in Commands(f), NEW p
  PROVE  LET after == HeldAfter(given, f, k, p) IN
         /\ IsHeld(after) /\ after[f][k] = p
         /\ \A j \in Commands(f) : j # k => after[f][j] = given[f][j]
         /\ \A g \in SqlFiles : g # f => after[g] = given[g]
<1> DEFINE after == HeldAfter(given, f, k, p)
           own == [given[f] EXCEPT ![k] = p]
<1>1. PICK S : given \in [SqlFiles -> [1..1 -> S] \cup [1..2 -> S]]
  BY DEF IsHeld
<1>2. \A g \in SqlFiles : DOMAIN given[g] = Commands(g)
  BY DEF IsHeld
<1> DEFINE T == S \cup {p}
<1>3. given \in [SqlFiles -> [1..1 -> T] \cup [1..2 -> T]] /\ p \in T
  BY <1>1
<1> HIDE DEF T
<1>4. given[f] \in [1..1 -> T] \cup [1..2 -> T]
  BY <1>3
<1>5. own \in [1..1 -> T] \cup [1..2 -> T] /\ DOMAIN own = Commands(f) /\ own[k] = p
  BY <1>2, <1>3, <1>4
<1>6. \A j \in Commands(f) : j # k => own[j] = given[f][j]
  BY <1>2, <1>4
<1>7. after = [given EXCEPT ![f] = own]
  BY DEF HeldAfter
<1> HIDE DEF own
<1>8. after \in [SqlFiles -> [1..1 -> T] \cup [1..2 -> T]] /\ after[f] = own
  BY <1>3, <1>5, <1>7
<1>9. \A g \in SqlFiles : g # f => after[g] = given[g]
  BY <1>3, <1>7
<1> HIDE DEF after
<1>10. \A g \in SqlFiles : DOMAIN after[g] = Commands(g)
  BY <1>2, <1>5, <1>8, <1>9
<1>11. IsHeld(after)
  BY <1>8, <1>10 DEF IsHeld
<1>12. /\ IsHeld(after) /\ after[f][k] = p
       /\ \A j \in Commands(f) : j # k => after[f][j] = given[f][j]
       /\ \A g \in SqlFiles : g # f => after[g] = given[g]
  BY <1>5, <1>6, <1>8, <1>9, <1>11
<1> QED BY <1>12 DEF after

-----------------------------------------------------------------------------
(***************************************************************************)
(* What a command does to the tables.                                      *)
(***************************************************************************)

SameNames(rows, after) ==
  Len(after) = Len(rows) /\ \A i \in DOMAIN rows : after[i].name = rows[i].name

LEMMA TableAfter ==
  ASSUME NEW rows, IsRows(rows), NEW f \in SqlFiles, NEW k, NEW p
  PROVE  LET after == PlayersAfter(rows, f, k, p) IN
         /\ IsRows(after)
         /\ ~(f = "InsertPlayer" /\ k = 1) => SameNames(rows, after)
         /\ f # "UpdatePlayerAppearance" =>
              DOMAIN rows \subseteq DOMAIN after /\ \A i \in DOMAIN rows : after[i].look = rows[i].look
<1>1. CASE f = "InsertPlayer" /\ k = 1
  <2> DEFINE row == NewRow(p[1], p[2])
  <2>1. PlayersAfter(rows, f, k, p) = Append(rows, row)
    BY <1>1 DEF PlayersAfter
  <2>2. IsRow(row)
    BY DEF NewRow, IsRow, Row
  <2> HIDE DEF row
  <2>3. /\ IsRows(Append(rows, row)) /\ Len(Append(rows, row)) = Len(rows) + 1
        /\ \A i \in DOMAIN rows : Append(rows, row)[i] = rows[i]
    BY <2>2, AppendRow
  <2>4. DOMAIN rows \subseteq DOMAIN Append(rows, row)
    BY <2>3, RowsAreSequence
  <2> QED BY <1>1, <2>1, <2>3, <2>4
<1>2. CASE f = "UpdatePlayerCurrentWorld"
  <2> DEFINE i == p[1]
             x == p[2]
             after == WorldSet(rows, i, x)
  <2>1. PlayersAfter(rows, f, k, p) = after
    BY <1>2 DEF PlayersAfter, WorldSet
  <2> HIDE DEF i, x
  <2>2. /\ IsRows(after) /\ Len(after) = Len(rows) /\ DOMAIN after = DOMAIN rows
        /\ \A j \in DOMAIN rows : after[j].name = rows[j].name
        /\ f # "UpdatePlayerAppearance" => \A j \in DOMAIN rows : after[j].look = rows[j].look
    BY <1>2, SetWorld
  <2> HIDE DEF after
  <2> QED BY <2>1, <2>2 DEF SameNames
<1>3. CASE f = "UpdatePlayerState"
  <2> DEFINE i == p[1]
             x == <<p[2], p[3]>>
             after == AtSet(rows, i, x)
  <2>1. PlayersAfter(rows, f, k, p) = after
    BY <1>3 DEF PlayersAfter, AtSet
  <2> HIDE DEF i, x
  <2>2. /\ IsRows(after) /\ Len(after) = Len(rows) /\ DOMAIN after = DOMAIN rows
        /\ \A j \in DOMAIN rows : after[j].name = rows[j].name
        /\ f # "UpdatePlayerAppearance" => \A j \in DOMAIN rows : after[j].look = rows[j].look
    BY <1>3, SetAt
  <2> HIDE DEF after
  <2> QED BY <2>1, <2>2 DEF SameNames
<1>4. CASE f = "UpdatePlayerAppearance"
  <2> DEFINE i == p[1]
             x == p[2]
             after == LookSet(rows, i, x)
  <2>1. PlayersAfter(rows, f, k, p) = after
    BY <1>4 DEF PlayersAfter, LookSet
  <2> HIDE DEF i, x
  <2>2. /\ IsRows(after) /\ Len(after) = Len(rows) /\ DOMAIN after = DOMAIN rows
        /\ \A j \in DOMAIN rows : after[j].name = rows[j].name
        /\ f # "UpdatePlayerAppearance" => \A j \in DOMAIN rows : after[j].look = rows[j].look
    BY <1>4, SetLook
  <2> HIDE DEF after
  <2> QED BY <2>1, <2>2 DEF SameNames
<1>5. CASE /\ ~(f = "InsertPlayer" /\ k = 1)
           /\ f \notin {"UpdatePlayerCurrentWorld", "UpdatePlayerState", "UpdatePlayerAppearance"}
  BY <1>5 DEF PlayersAfter, SameNames
<1> QED BY <1>1, <1>2, <1>3, <1>4, <1>5

LEMMA CacheIsKept ==
  ASSUME NEW looks, IsCache(looks), NEW f, NEW p
  PROVE  IsCache(CacheAfter(looks, f, p))
<1>1. PICK S : looks \in [1..MaxEntities -> S]
  BY DEF IsCache
<1> DEFINE T == S \cup {p[2]}
<1>2. looks \in [1..MaxEntities -> T] /\ p[2] \in T
  BY <1>1
<1> HIDE DEF T
<1>3. CacheAfter(looks, f, p) \in [1..MaxEntities -> T]
  BY <1>2 DEF CacheAfter
<1> QED BY <1>3 DEF IsCache

-----------------------------------------------------------------------------
(***************************************************************************)
(* Commands and calls.                                                     *)
(***************************************************************************)

\* Command k of file f has run with parameters p, and failed or not.
Broke(r, q, f, k, p) ==
  /\ r.fault = <<f, k>> /\ ~q.ok /\ q.failed = r.failed \cup {f} /\ q.held[f][k] = p
  /\ q.players = r.players /\ q.cache = r.cache

Worked(r, q, f, k, p) ==
  /\ r.fault # <<f, k>> /\ q.failed = r.failed /\ q.held[f][k] = Null
  /\ q.players = PlayersAfter(r.players, f, k, p) /\ q.cache = CacheAfter(r.cache, f, p)
  /\ q.results = Selected(r.players, r.cache, f, k, p)

OthersHeld(r, q, f, k) ==
  /\ \A g \in SqlFiles : g # f => q.held[g] = r.held[g]
  /\ \A j \in Commands(f) : j # k => q.held[f][j] = r.held[f][j]

LEMMA FailedRan ==
  ASSUME NEW r, IsState(r), NEW f \in SqlFiles, NEW k \in Commands(f), NEW p, r.fault = <<f, k>>
  PROVE  LET q == Failed(r, f, k, p) IN
         IsState(q) /\ q.fault = r.fault /\ OthersHeld(r, q, f, k) /\ Broke(r, q, f, k, p)
<1>1. PICK rows, looks, given, fail, fine, values, fault :
        r = State(rows, looks, given, fail, fine, values, fault)
  BY DEF IsState
<1>2. r.players = rows /\ r.cache = looks /\ r.held = given /\ r.failed = fail /\ r.fault = fault
  BY <1>1, StateFields
<1> DEFINE given2 == HeldAfter(given, f, k, p)
           q == Failed(r, f, k, p)
<1>3. q = State(rows, looks, given2, fail \cup {f}, No, values, fault)
  <2>1. Failed(State(rows, looks, given, fail, fine, values, fault), f, k, p)
        = State(rows, looks, given2, fail \cup {f}, No, values, fault)
    BY FailedState
  <2> QED BY <1>1, <2>1
<1>4. IsRows(rows) /\ IsCache(looks) /\ IsHeld(given)
  BY <1>2 DEF IsState
<1>5. /\ IsHeld(given2) /\ given2[f][k] = p
      /\ \A j \in Commands(f) : j # k => given2[f][j] = given[f][j]
      /\ \A g \in SqlFiles : g # f => given2[g] = given[g]
  BY <1>4, HeldSet
<1> HIDE DEF q, given2
<1>6. No \in BOOLEAN /\ ~No
  BY DEF No
<1>7. /\ q.players = rows /\ q.cache = looks /\ q.held = given2 /\ q.failed = fail \cup {f}
      /\ q.ok = No /\ q.fault = fault
  BY <1>3, StateFields
<1>8. IsState(q)
  BY <1>3, <1>4, <1>5, <1>6, <1>7 DEF IsState
<1>9. IsState(q) /\ q.fault = r.fault /\ OthersHeld(r, q, f, k) /\ Broke(r, q, f, k, p)
  BY <1>2, <1>5, <1>6, <1>7, <1>8 DEF OthersHeld, Broke
<1> QED BY <1>9 DEF q

LEMMA DoneRan ==
  ASSUME NEW r, IsState(r), NEW f \in SqlFiles, NEW k \in Commands(f), NEW p, r.fault # <<f, k>>
  PROVE  LET q == Done(r, f, k, p) IN
         IsState(q) /\ q.fault = r.fault /\ OthersHeld(r, q, f, k) /\ Worked(r, q, f, k, p) /\ q.ok = r.ok
<1>1. PICK rows, looks, given, fail, fine, values, fault :
        r = State(rows, looks, given, fail, fine, values, fault)
  BY DEF IsState
<1>2. /\ r.players = rows /\ r.cache = looks /\ r.held = given /\ r.failed = fail
      /\ r.ok = fine /\ r.fault = fault
  BY <1>1, StateFields
<1> DEFINE given2 == HeldAfter(given, f, k, Null)
           rows2 == PlayersAfter(rows, f, k, p)
           looks2 == CacheAfter(looks, f, p)
           values2 == Selected(rows, looks, f, k, p)
           q == Done(r, f, k, p)
<1>3. q = State(rows2, looks2, given2, fail, fine, values2, fault)
  <2>1. Done(State(rows, looks, given, fail, fine, values, fault), f, k, p)
        = State(rows2, looks2, given2, fail, fine, values2, fault)
    BY DoneState
  <2> HIDE DEF rows2, looks2, given2, values2
  <2> QED BY <1>1, <2>1
<1>4. IsRows(rows) /\ IsCache(looks) /\ IsHeld(given) /\ fine \in BOOLEAN
  BY <1>2 DEF IsState
<1>5. /\ IsHeld(given2) /\ given2[f][k] = Null
      /\ \A j \in Commands(f) : j # k => given2[f][j] = given[f][j]
      /\ \A g \in SqlFiles : g # f => given2[g] = given[g]
  BY <1>4, HeldSet
<1>6. IsRows(rows2) /\ IsCache(looks2)
  BY <1>4, TableAfter, CacheIsKept
<1> HIDE DEF given2, q
<1>7. /\ q.players = rows2 /\ q.cache = looks2 /\ q.held = given2 /\ q.failed = fail
      /\ q.ok = fine /\ q.results = values2 /\ q.fault = fault
  <2> HIDE DEF rows2, looks2, values2
  <2> QED BY <1>3, StateFields
<1>8. IsState(q)
  <2> HIDE DEF rows2, looks2, values2
  <2> QED BY <1>3, <1>4, <1>5, <1>6, <1>7 DEF IsState
<1>9. /\ IsState(q) /\ q.fault = r.fault /\ OthersHeld(r, q, f, k) /\ Worked(r, q, f, k, p)
      /\ q.ok = r.ok
  BY <1>2, <1>5, <1>7, <1>8 DEF OthersHeld, Worked
<1> QED BY <1>9 DEF q

LEMMA CountedRan ==
  ASSUME NEW r, IsState(r), NEW counts
  PROVE  LET q == Counted(r, counts) IN
         /\ IsState(q) /\ q.fault = r.fault /\ q.players = r.players /\ q.cache = r.cache
         /\ q.held = r.held /\ q.failed = r.failed /\ q.results = r.results
         /\ q.ok <=> r.ok /\ Len(r.results) \in counts
<1>1. PICK rows, looks, given, fail, fine, values, fault :
        r = State(rows, looks, given, fail, fine, values, fault)
  BY DEF IsState
<1>2. /\ r.players = rows /\ r.cache = looks /\ r.held = given /\ r.failed = fail
      /\ r.ok = fine /\ r.results = values /\ r.fault = fault
  BY <1>1, StateFields
<1> DEFINE fine2 == fine /\ Len(values) \in counts
           q == Counted(r, counts)
<1>3. q = State(rows, looks, given, fail, fine2, values, fault)
  BY <1>1, CountedState
<1>4. IsRows(rows) /\ IsCache(looks) /\ IsHeld(given)
  BY <1>2 DEF IsState
<1>5. fine2 \in BOOLEAN /\ (fine2 <=> r.ok /\ Len(r.results) \in counts)
  BY <1>2
<1> HIDE DEF q, fine2
<1>6. /\ q.players = rows /\ q.cache = looks /\ q.held = given /\ q.failed = fail
      /\ q.ok = fine2 /\ q.results = values /\ q.fault = fault
  BY <1>3, StateFields
<1>7. IsState(q)
  BY <1>3, <1>4, <1>5, <1>6 DEF IsState
<1>8. /\ IsState(q) /\ q.fault = r.fault /\ q.players = r.players /\ q.cache = r.cache
      /\ q.held = r.held /\ q.failed = r.failed /\ q.results = r.results
      /\ q.ok <=> r.ok /\ Len(r.results) \in counts
  BY <1>2, <1>5, <1>6, <1>7
<1> QED BY <1>8 DEF q

Ran(r, q, f, k, p) ==
  /\ IsState(q) /\ q.fault = r.fault /\ OthersHeld(r, q, f, k)
  /\ Broke(r, q, f, k, p) \/ (Worked(r, q, f, k, p) /\ q.ok = r.ok)

\* The end of a call, where the results are counted.
Ends(r, q, counts) ==
  /\ IsState(q) /\ q.fault = r.fault /\ q.players = r.players /\ q.cache = r.cache
  /\ q.held = r.held /\ q.failed = r.failed /\ q.results = r.results
  /\ q.ok <=> r.ok /\ Len(r.results) \in counts

LEMMA CommandRan ==
  ASSUME NEW r, IsState(r), NEW f \in SqlFiles, NEW k \in Commands(f), NEW values
  PROVE  Ran(r, RunCommand(r, f, k, values), f, k, Bound(r, f, k, values))
<1> DEFINE p == Bound(r, f, k, values)
           q == RunCommand(r, f, k, values)
<1>1. CASE r.fault = <<f, k>>
  <2>1. q = Failed(r, f, k, p)
    BY <1>1 DEF RunCommand
  <2> HIDE DEF q, p
  <2>2. IsState(q) /\ q.fault = r.fault /\ OthersHeld(r, q, f, k) /\ Broke(r, q, f, k, p)
    BY <1>1, <2>1, FailedRan
  <2>3. Ran(r, q, f, k, p)
    BY <2>2 DEF Ran
  <2> QED BY <2>3 DEF q, p
<1>2. CASE r.fault # <<f, k>>
  <2>1. q = Done(r, f, k, p)
    BY <1>2 DEF RunCommand
  <2> HIDE DEF q, p
  <2>2. /\ IsState(q) /\ q.fault = r.fault /\ OthersHeld(r, q, f, k) /\ Worked(r, q, f, k, p)
        /\ q.ok = r.ok
    BY <1>2, <2>1, DoneRan
  <2>3. Ran(r, q, f, k, p)
    BY <2>2 DEF Ran
  <2> QED BY <2>3 DEF q, p
<1> QED BY <1>1, <1>2

LEMMA CallRan ==
  ASSUME NEW r, IsState(r), NEW f \in SqlFiles, NEW values, NEW counts, r.ok
  PROVE  LET c == Call(r, f, values, counts) IN
         \E q : /\ Ran(r, q, f, 1, Bound(r, f, 1, values))
                /\ IF q.ok /\ Len(Parameters[f]) = 2
                   THEN \E s : Ran(q, s, f, 2, Bound(q, f, 2, values)) /\ Ends(s, c, counts)
                   ELSE Ends(q, c, counts)
<1> DEFINE c == Call(r, f, values, counts)
           q == RunCommand(r, f, 1, values)
           s == RunCommand(q, f, 2, values)
           t == Run(r, f, values)
<1>1. t = IF q.ok /\ Len(Parameters[f]) = 2 THEN s ELSE q
  BY DEF Run
<1>2. c = Counted(t, counts)
  BY DEF Call
<1>3. Ran(r, q, f, 1, Bound(r, f, 1, values))
  BY FileFacts, CommandRan
<1>4. IsState(q)
  BY <1>3 DEF Ran
<1>5. Len(Parameters[f]) = 2 => Ran(q, s, f, 2, Bound(q, f, 2, values))
  <2> HIDE DEF q
  <2>1. Len(Parameters[f]) = 2 => 2 \in Commands(f)
    BY FileFacts
  <2> QED BY <1>4, <2>1, CommandRan
<1>6. Len(Parameters[f]) = 2 => IsState(s)
  <2> HIDE DEF q, s
  <2> QED BY <1>5 DEF Ran
<1> HIDE DEF q, s, t, c
<1>7. IsState(t)
  BY <1>1, <1>4, <1>6
<1>8. Ends(t, c, counts)
  BY <1>2, <1>7, CountedRan DEF Ends
<1>9. CASE q.ok /\ Len(Parameters[f]) = 2
  <2>1. Ran(q, s, f, 2, Bound(q, f, 2, values)) /\ Ends(s, c, counts)
    BY <1>1, <1>5, <1>8, <1>9
  <2> QED BY <1>3, <1>9, <2>1 DEF c
<1>10. CASE ~(q.ok /\ Len(Parameters[f]) = 2)
  <2>1. Ends(q, c, counts)
    BY <1>1, <1>8, <1>10
  <2> QED BY <1>3, <1>10, <2>1 DEF c
<1> QED BY <1>9, <1>10

\* Most files have one command.
LEMMA OneCommand ==
  ASSUME NEW r, IsState(r), NEW f \in SqlFiles, NEW values, NEW counts, r.ok,
         f \notin {"InsertPlayer", "UpdatePlayerLogin"}
  PROVE  LET c == Call(r, f, values, counts)
             p == Bound(r, f, 1, values)
         IN  /\ IsState(c) /\ c.fault = r.fault /\ \A g \in SqlFiles : g # f => c.held[g] = r.held[g]
             /\ Broke(r, c, f, 1, p) \/ (Worked(r, c, f, 1, p) /\ (c.ok <=> Len(c.results) \in counts))
<1> DEFINE c == Call(r, f, values, counts)
           p == Bound(r, f, 1, values)
<1>1. Len(Parameters[f]) # 2
  BY FileFacts
<1>2. PICK q : Ran(r, q, f, 1, p) /\ Ends(q, c, counts)
  BY <1>1, CallRan
<1> HIDE DEF c, p
<1>3. IsState(c) /\ c.fault = r.fault /\ \A g \in SqlFiles : g # f => c.held[g] = r.held[g]
  BY <1>2 DEF Ran, Ends, OthersHeld
<1>4. CASE Broke(r, q, f, 1, p)
  <2>1. Broke(r, c, f, 1, p)
    BY <1>2, <1>4 DEF Ends, Broke
  <2> QED BY <1>3, <2>1 DEF c, p
<1>5. CASE Worked(r, q, f, 1, p) /\ q.ok = r.ok
  <2>1. Worked(r, c, f, 1, p) /\ (c.ok <=> Len(c.results) \in counts)
    BY <1>2, <1>5 DEF Ends, Worked
  <2> QED BY <1>3, <2>1 DEF c, p
<1> QED BY <1>2, <1>4, <1>5 DEF Ran

-----------------------------------------------------------------------------
(***************************************************************************)
(* What no handler but a login does to the names of the rows.              *)
(***************************************************************************)

IdFiles == {"GetPlayerId", "InsertPlayer", "UpdatePlayerLogin"}

HeldHaveFailed(given, fail) ==
  \A f \in SqlFiles : \A k \in Commands(f) : given[f][k] # Null => f \in fail

Goes(r, q) ==
  /\ IsState(q) /\ q.fault = r.fault /\ r.failed \subseteq q.failed
  /\ HeldHaveFailed(r.held, r.failed) => HeldHaveFailed(q.held, q.failed)

\* ... neither new rows nor a change of what InsertPlayer is held with.
GoesOn(r, q) ==
  Goes(r, q) /\ SameNames(r.players, q.players) /\ q.held["InsertPlayer"] = r.held["InsertPlayer"]

LEMMA TheFiles ==
  SqlFiles = {"InsertPlayer", "UpdatePlayerLogin", "UpdatePlayerCurrentWorld", "UpdatePlayerState",
              "UpdatePlayerAppearance", "GetHashedPassword", "GetPlayerId", "GetLoadDetails",
              "GetCurrentWorld", "GetPos", "GetPlayerAppearance", "CacheInsert", "CacheUpdate",
              "CacheGet"}
BY DEF SqlFiles, Parameters

LEMMA GoesOnFurther ==
  ASSUME NEW r, NEW q, NEW s, GoesOn(r, q), GoesOn(q, s), IsState(r)
  PROVE  GoesOn(r, s)
<1>1. IsRows(r.players) /\ IsRows(q.players)
  BY DEF GoesOn, Goes, IsState
<1>2. SameNames(r.players, s.players)
  BY <1>1, RowsAreSequence DEF GoesOn, SameNames
<1> QED BY <1>2 DEF GoesOn, Goes

LEMMA GoesOnFrom ==
  ASSUME NEW r, IsState(r)
  PROVE  GoesOn(r, r)
BY DEF GoesOn, Goes, SameNames

LEMMA RanGoes ==
  ASSUME NEW r, IsState(r), NEW q, NEW f \in SqlFiles, NEW k \in Commands(f), NEW p, Ran(r, q, f, k, p)
  PROVE  Goes(r, q) /\ (f # "InsertPlayer" => GoesOn(r, q))
<1>1. IsRows(r.players)
  BY DEF IsState
<1>2. r.failed \subseteq q.failed
  BY DEF Ran, Broke, Worked
<1>3. ASSUME HeldHaveFailed(r.held, r.failed)
      PROVE  HeldHaveFailed(q.held, q.failed)
  <2> SUFFICES ASSUME NEW g \in SqlFiles, NEW j \in Commands(g), q.held[g][j] # Null
               PROVE  g \in q.failed
    BY DEF HeldHaveFailed
  <2>1. CASE g = f /\ j = k
    BY <2>1 DEF Ran, Broke, Worked
  <2>2. CASE ~(g = f /\ j = k)
    <3>1. r.held[g][j] # Null
      BY <2>2 DEF Ran, OthersHeld
    <3> QED BY <1>2, <1>3, <3>1 DEF HeldHaveFailed
  <2> QED BY <2>1, <2>2
<1>4. Goes(r, q)
  BY <1>2, <1>3 DEF Goes, Ran
<1>5. ASSUME f # "InsertPlayer"
      PROVE  GoesOn(r, q)
  <2>1. Broke(r, q, f, k, p) => SameNames(r.players, q.players)
    BY DEF Broke, SameNames
  <2>2. SameNames(r.players, PlayersAfter(r.players, f, k, p))
    BY <1>1, <1>5, TableAfter
  <2>3. SameNames(r.players, q.players)
    BY <2>1, <2>2 DEF Ran, Worked
  <2>4. q.held["InsertPlayer"] = r.held["InsertPlayer"]
    BY <1>5, TheFiles DEF Ran, OthersHeld
  <2> QED BY <1>4, <2>3, <2>4 DEF GoesOn
<1> QED BY <1>4, <1>5

LEMMA EndsGoes ==
  ASSUME NEW r, NEW q, NEW counts, Ends(r, q, counts)
  PROVE  GoesOn(r, q)
BY DEF Ends, GoesOn, Goes, SameNames

LEMMA CallGoesOn ==
  ASSUME NEW r, IsState(r), NEW f \in SqlFiles \ {"InsertPlayer"}, NEW values, NEW counts
  PROVE  GoesOn(r, Call(r, f, values, counts))
<1> DEFINE c == Call(r, f, values, counts)
<1>1. CASE r.ok
  <2>1. PICK q : /\ Ran(r, q, f, 1, Bound(r, f, 1, values))
                 /\ IF q.ok /\ Len(Parameters[f]) = 2
                    THEN \E s : Ran(q, s, f, 2, Bound(q, f, 2, values)) /\ Ends(s, c, counts)
                    ELSE Ends(q, c, counts)
    BY <1>1, CallRan
  <2> HIDE DEF c
  <2>2. GoesOn(r, q)
    BY <2>1, FileFacts, RanGoes
  <2>3. IsState(q)
    BY <2>2 DEF GoesOn, Goes
  <2>4. CASE q.ok /\ Len(Parameters[f]) = 2
    <3>1. PICK s : Ran(q, s, f, 2, Bound(q, f, 2, values)) /\ Ends(s, c, counts)
      BY <2>1, <2>4
    <3>2. 2 \in Commands(f)
      BY <2>4, FileFacts
    <3>3. GoesOn(q, s) /\ GoesOn(s, c)
      BY <2>3, <3>1, <3>2, RanGoes, EndsGoes
    <3>4. GoesOn(q, c)
      BY <2>3, <3>3, GoesOnFurther
    <3>5. GoesOn(r, c)
      BY <2>2, <3>4, GoesOnFurther
    <3> QED BY <3>5 DEF c
  <2>5. CASE ~(q.ok /\ Len(Parameters[f]) = 2)
    <3>1. GoesOn(q, c)
      BY <2>1, <2>5, EndsGoes
    <3>2. GoesOn(r, c)
      BY <2>2, <3>1, GoesOnFurther
    <3> QED BY <3>2 DEF c
  <2> QED BY <2>4, <2>5
<1>2. CASE ~r.ok
  <2>1. c = r
    BY <1>2 DEF Call
  <2> QED BY <2>1, GoesOnFrom
<1> QED BY <1>1, <1>2

OkSet(r, fine) == [r EXCEPT !.ok = fine]

LEMMA SetOk ==
  ASSUME NEW r, IsState(r), NEW fine \in BOOLEAN
  PROVE  LET q == OkSet(r, fine) IN
         /\ IsState(q) /\ q.players = r.players /\ q.cache = r.cache /\ q.held = r.held
         /\ q.failed = r.failed /\ q.results = r.results /\ q.fault = r.fault /\ q.ok = fine
<1>1. PICK rows, looks, given, fail, was, values, fault :
        r = State(rows, looks, given, fail, was, values, fault)
  BY DEF IsState
<1>2. /\ r.players = rows /\ r.cache = looks /\ r.held = given /\ r.failed = fail
      /\ r.ok = was /\ r.results = values /\ r.fault = fault
  BY <1>1, StateFields
<1> DEFINE q == OkSet(r, fine)
<1>3. q = State(rows, looks, given, fail, fine, values, fault)
  BY <1>1 DEF State, OkSet
<1> HIDE DEF q
<1>4. /\ q.players = rows /\ q.cache = looks /\ q.held = given /\ q.failed = fail
      /\ q.ok = fine /\ q.results = values /\ q.fault = fault
  BY <1>3, StateFields
<1>5. IsState(q)
  BY <1>2, <1>3, <1>4 DEF IsState
<1> QED BY <1>2, <1>4, <1>5 DEF q

LEMMA SetOkGoesOn ==
  ASSUME NEW r, IsState(r), NEW fine \in BOOLEAN
  PROVE  GoesOn(r, OkSet(r, fine))
BY SetOk DEF GoesOn, Goes, SameNames

LEMMA LookReadGoesOn ==
  ASSUME NEW r, IsState(r), NEW entity, NEW id
  PROVE  GoesOn(r, LookRead(r, entity, id))
<1>1. GoesOn(r, GetPlayerAppearance(r, id))
  BY CallGoesOn, TheFiles DEF GetPlayerAppearance
<1>2. GoesOn(r, GetEntityAppearance(r, entity))
  BY CallGoesOn, TheFiles DEF GetEntityAppearance
<1> QED BY <1>1, <1>2, GoesOnFrom DEF LookRead

\* What CreatedFrom chooses and confirms.
Pair(x, y) == <<x, y>>
CacheFile(entity) == IF entity = 0 THEN "CacheInsert" ELSE "CacheUpdate"
EntityOf(entity) == IF entity = 0 THEN nextEntity ELSE entity
LookOf(read, entity, id, pick) == IF read.ok /\ (id > 0 \/ entity # 0) THEN read.results[1] ELSE pick
Confirmed(r, read, id, look) ==
  IF id > 0 THEN UpdatePlayerAppearanceDetails(OkSet(read, r.ok), id, look) ELSE read

LEMMA CreatedParts ==
  ASSUME NEW r, NEW read, NEW entity, NEW id, NEW pick
  PROVE  /\ CreatedFrom(r, read, entity, id, pick).store
              = Call(Confirmed(r, read, id, LookOf(read, entity, id, pick)), CacheFile(entity),
                     Pair(EntityOf(entity), LookOf(read, entity, id, pick)), Nat)
         /\ CreatedFrom(r, read, entity, id, pick).character.entity = EntityOf(entity)
         /\ CreatedFrom(r, read, entity, id, pick).character.look = LookOf(read, entity, id, pick)
BY DEF CreatedFrom, UpdateEntityAppearance, CacheFile, Pair, LookOf, EntityOf, Confirmed, OkSet

LEMMA ConfirmedGoesOn ==
  ASSUME NEW r, IsState(r), NEW read, IsState(read), NEW id, NEW look
  PROVE  GoesOn(read, Confirmed(r, read, id, look))
<1> DEFINE again == OkSet(read, r.ok)
<1>1. r.ok \in BOOLEAN
  BY DEF IsState
<1>2. GoesOn(read, again)
  BY <1>1, SetOkGoesOn
<1> HIDE DEF again
<1>3. IsState(again)
  BY <1>2 DEF GoesOn, Goes
<1>4. GoesOn(again, UpdatePlayerAppearanceDetails(again, id, look))
  BY <1>3, CallGoesOn, TheFiles DEF UpdatePlayerAppearanceDetails
<1>5. GoesOn(read, UpdatePlayerAppearanceDetails(again, id, look))
  BY <1>2, <1>4, GoesOnFurther
<1> QED BY <1>5, GoesOnFrom DEF Confirmed, again

LEMMA CreateGoesOn ==
  ASSUME NEW r, IsState(r), NEW entity, NEW id, NEW pick
  PROVE  /\ GoesOn(r, CreateCharacter(r, entity, id, pick).store)
         /\ GoesOn(LookRead(r, entity, id), CreateCharacter(r, entity, id, pick).store)
<1> DEFINE read == LookRead(r, entity, id)
           look == LookOf(read, entity, id, pick)
           confirmed == Confirmed(r, read, id, look)
           store == CreateCharacter(r, entity, id, pick).store
           e == EntityOf(entity)
<1>1. store = Call(confirmed, CacheFile(entity), Pair(e, look), Nat)
  <2>1. store = CreatedFrom(r, read, entity, id, pick).store
    BY DEF CreateCharacter
  <2> HIDE DEF read, store, look, e, confirmed
  <2> QED BY <2>1, CreatedParts DEF look, e, confirmed
<1>2. GoesOn(r, read)
  BY LookReadGoesOn
<1> HIDE DEF read, look, store, e
<1>3. IsState(read)
  BY <1>2 DEF GoesOn, Goes
<1>4. GoesOn(read, confirmed)
  BY <1>3, ConfirmedGoesOn
<1> HIDE DEF confirmed
<1>5. IsState(confirmed)
  BY <1>4 DEF GoesOn, Goes
<1>6. GoesOn(confirmed, store)
  BY <1>1, <1>5, CallGoesOn, TheFiles DEF CacheFile
<1>7. GoesOn(read, store) /\ GoesOn(r, store)
  BY <1>2, <1>3, <1>4, <1>6, GoesOnFurther
<1> QED BY <1>7 DEF store, read

LEMMA AddGoesOn ==
  ASSUME NEW r, IsState(r), NEW id, NEW w, NEW entity, NEW atSpawn, NEW pick
  PROVE  GoesOn(r, AddPlayer(r, id, w, entity, atSpawn, pick).store)
<1> DEFINE saved == UpdatePlayerCurrentWorld(r, id, w)
           pos == PlaceRead(saved, id, atSpawn)
           made == CreateCharacter(pos, entity, id, pick)
           store == AddPlayer(r, id, w, entity, atSpawn, pick).store
<1>1. store = made.store
  BY DEF AddPlayer, EnteredAt, CharacterAt
<1>2. GoesOn(r, saved)
  BY CallGoesOn, TheFiles DEF UpdatePlayerCurrentWorld
<1> HIDE DEF saved, store
<1>3. IsState(saved)
  BY <1>2 DEF GoesOn, Goes
<1>4. GoesOn(saved, GetPosByPlayerId(saved, id))
  BY <1>3, CallGoesOn, TheFiles DEF GetPosByPlayerId
<1>5. GoesOn(saved, pos)
  BY <1>3, <1>4, GoesOnFrom DEF PlaceRead
<1> HIDE DEF pos
<1>6. IsState(pos)
  BY <1>5 DEF GoesOn, Goes
<1>7. GoesOn(pos, made.store)
  BY <1>6, CreateGoesOn
<1>8. GoesOn(r, store)
  BY <1>1, <1>2, <1>5, <1>7, GoesOnFurther
<1> QED BY <1>8 DEF store

-----------------------------------------------------------------------------
(***************************************************************************)
(* A login: the id of a user's row.                                        *)
(***************************************************************************)

LEMMA LeastElement ==
  ASSUME NEW S, S \subseteq Nat, S # {}
  PROVE  Min(S) \in S
<1> DEFINE Less == {ss \in Nat \X Nat : ss[1] < ss[2]}
<1>1. IsWellFoundedOn(Less, Nat)
  BY NatLessThanWellFounded, Zenon DEF OpToRel
<1> HIDE DEF Less
<1>2. \E x \in S : \A y \in S : ~ (<<y, x>> \in Less)
  BY <1>1, WFMin
<1>3. ASSUME NEW x \in Nat, NEW y \in Nat, ~ (<<y, x>> \in Less)
      PROVE  x <= y
  <2>1. <<y, x>> \in Nat \X Nat /\ <<y, x>>[1] = y /\ <<y, x>>[2] = x
    OBVIOUS
  <2>2. ~ (y < x)
    BY <1>3, <2>1 DEF Less
  <2> QED BY <2>2
<1>4. \E x \in S : \A y \in S : x <= y
  BY <1>2, <1>3
<1> QED BY <1>4 DEF Min

NoRow == << >>

LEMMA RowOfUser ==
  ASSUME NEW rows, IsRows(rows), NEW name
  PROVE  LET found == RowOf(rows, name) IN
         /\ found = NoRow \/ (found[1] \in DOMAIN rows /\ rows[found[1]].name = name)
         /\ found = NoRow => \A i \in DOMAIN rows : rows[i].name # name
         /\ Len(found) \in {1} => found # NoRow
<1> DEFINE its == {i \in DOMAIN rows : rows[i].name = name}
           found == RowOf(rows, name)
<1>1. its \subseteq Nat
  BY RowsAreSequence
<1>2. CASE its = {}
  BY <1>2 DEF RowOf, NoRow
<1>3. CASE its # {}
  <2>1. Min(its) \in its
    BY <1>1, <1>3, LeastElement
  <2>2. found = <<Min(its)>>
    BY <1>3 DEF RowOf
  <2> QED BY <2>1, <2>2 DEF NoRow
<1> QED BY <1>2, <1>3

UniqueNames(rows) == \A i, j \in DOMAIN rows : rows[i].name = rows[j].name => i = j

NamesOnce(rows, given, fail) ==
  "GetPlayerId" \notin fail =>
    /\ UniqueNames(rows)
    /\ given["InsertPlayer"][1] # Null =>
         \A i \in DOMAIN rows : rows[i].name # given["InsertPlayer"][1][1]

LEMMA NamesGoOn ==
  ASSUME NEW r, IsState(r), NEW q, GoesOn(r, q), NamesOnce(r.players, r.held, r.failed)
  PROVE  NamesOnce(q.players, q.held, q.failed)
<1>1. IsRows(r.players) /\ IsRows(q.players)
  BY DEF GoesOn, Goes, IsState
<1>2. DOMAIN q.players = DOMAIN r.players
  BY <1>1, RowsAreSequence DEF GoesOn, SameNames
<1> QED BY <1>2 DEF GoesOn, Goes, SameNames, NamesOnce, UniqueNames

\* Rows are kept and keep their names.
Grows(rows, after) ==
  Len(rows) <= Len(after) /\ \A i \in DOMAIN rows : after[i].name = rows[i].name

\* What command 1 of InsertPlayer is given, and then command 2 in the state q.
InsertedUser(r, u) == IF r.held["InsertPlayer"][1] # Null THEN r.held["InsertPlayer"][1][1] ELSE u
AskedUser(q, f, k, u) == IF q.held[f][k] # Null THEN q.held[f][k][1] ELSE u

LEMMA BoundUser ==
  ASSUME NEW r, NEW f \in SqlFiles, NEW k \in Commands(f), NEW values, NEW u, values[1] = u
  PROVE  Bound(r, f, k, values)[1] = AskedUser(r, f, k, u)
<1>1. 1 \in 1..Parameters[f][k]
  BY DEF SqlFiles, Parameters, Commands
<1> QED BY <1>1 DEF Bound, AskedUser

LEMMA InsertOne ==
  ASSUME NEW r, IsState(r), NEW q, NEW p, Ran(r, q, "InsertPlayer", 1, p)
  PROVE  /\ Grows(r.players, q.players)
         /\ ~q.ok \/ (q.players = Append(r.players, NewRow(p[1], p[2])) /\ q.held["InsertPlayer"][1] = Null)
         /\ \/ q.players = r.players /\ q.held["InsertPlayer"][1] = p
            \/ q.players = Append(r.players, NewRow(p[1], p[2])) /\ q.held["InsertPlayer"][1] = Null
<1> DEFINE row == NewRow(p[1], p[2])
<1>1. IsRow(row) /\ IsRows(r.players)
  BY DEF NewRow, IsRow, Row, IsState
<1>2. PlayersAfter(r.players, "InsertPlayer", 1, p) = Append(r.players, row)
  BY DEF PlayersAfter
<1> HIDE DEF row
<1>3. Len(r.players) \in Nat /\ Grows(r.players, r.players) /\ Grows(r.players, Append(r.players, row))
  <2> DEFINE after == Append(r.players, row)
  <2>1. Len(after) = Len(r.players) + 1 /\ \A i \in DOMAIN r.players : after[i] = r.players[i]
    BY <1>1, AppendRow
  <2>2. Len(r.players) \in Nat
    BY <1>1, RowsAreSequence
  <2> HIDE DEF after
  <2>3. Grows(r.players, after) /\ Grows(r.players, r.players)
    BY <2>1, <2>2 DEF Grows
  <2> QED BY <2>2, <2>3 DEF after
<1>4. \/ /\ q.players = r.players /\ q.held["InsertPlayer"][1] = p /\ ~q.ok
      \/ q.players = Append(r.players, row) /\ q.held["InsertPlayer"][1] = Null
  BY <1>2 DEF Ran, Broke, Worked
<1> QED BY <1>3, <1>4 DEF row

LEMMA InsertOneNames ==
  ASSUME NEW r, IsState(r), NEW q, NEW p, NEW u, Ran(r, q, "InsertPlayer", 1, p),
         p[1] = AskedUser(r, "InsertPlayer", 1, u), NamesOnce(r.players, r.held, r.failed),
         "GetPlayerId" \notin r.failed => \A i \in DOMAIN r.players : r.players[i].name # u
  PROVE  NamesOnce(q.players, q.held, q.failed)
<1>1. "GetPlayerId" \in r.failed => "GetPlayerId" \in q.failed
  BY DEF Ran, Broke, Worked
<1>2. SUFFICES ASSUME "GetPlayerId" \notin r.failed
               PROVE  /\ UniqueNames(q.players)
                      /\ q.held["InsertPlayer"][1] # Null =>
                           \A i \in DOMAIN q.players : q.players[i].name # q.held["InsertPlayer"][1][1]
  BY <1>1 DEF NamesOnce
<1>3. UniqueNames(r.players) /\ \A i \in DOMAIN r.players : r.players[i].name # p[1]
  BY <1>2 DEF NamesOnce, AskedUser
<1>4. CASE q.players = r.players /\ q.held["InsertPlayer"][1] = p
  BY <1>3, <1>4
<1>5. CASE q.players = Append(r.players, NewRow(p[1], p[2])) /\ q.held["InsertPlayer"][1] = Null
  <2> DEFINE row == NewRow(p[1], p[2])
  <2>1. IsRow(row) /\ IsRows(r.players) /\ row.name = p[1]
    BY DEF NewRow, IsRow, Row, IsState
  <2>2. q.players = Append(r.players, row)
    BY <1>5
  <2> HIDE DEF row
  <2>3. /\ IsRows(q.players) /\ Len(q.players) = Len(r.players) + 1
        /\ \A i \in DOMAIN r.players : q.players[i] = r.players[i]
        /\ q.players[Len(r.players) + 1].name = p[1]
    BY <2>1, <2>2, AppendRow
  <2>4. DOMAIN q.players = DOMAIN r.players \cup {Len(r.players) + 1}
    BY <2>1, <2>3, RowsAreSequence
  <2>5. UniqueNames(q.players)
    BY <1>3, <2>3, <2>4 DEF UniqueNames
  <2> QED BY <1>5, <2>5
<1> QED BY <1>4, <1>5, InsertOne

LEMMA SecondInsert ==
  ASSUME NEW r, IsState(r), NEW q, NEW p, Ran(r, q, "InsertPlayer", 2, p)
  PROVE  /\ q.players = r.players /\ q.held["InsertPlayer"][1] = r.held["InsertPlayer"][1]
         /\ q.ok => q.results = RowOf(r.players, p[1])
<1>1. PlayersAfter(r.players, "InsertPlayer", 2, p) = r.players
  BY DEF PlayersAfter
<1>2. Selected(r.players, r.cache, "InsertPlayer", 2, p) = RowOf(r.players, p[1])
  BY DEF Selected
<1>3. 1 \in Commands("InsertPlayer")
  BY DEF Commands, Parameters
<1> QED BY <1>1, <1>2, <1>3 DEF Ran, Broke, Worked, OthersHeld

LEMMA InsertPlayerGoes ==
  ASSUME NEW r, IsState(r), NEW u
  PROVE  LET c == InsertPlayer(r, u) IN
         /\ Goes(r, c) /\ Grows(r.players, c.players)
         /\ /\ NamesOnce(r.players, r.held, r.failed)
            /\ "GetPlayerId" \notin r.failed => \A i \in DOMAIN r.players : r.players[i].name # u
            => NamesOnce(c.players, c.held, c.failed)
         /\ r.ok /\ c.ok =>
              /\ c.results[1] \in DOMAIN c.players
              /\ HeldHaveFailed(r.held, r.failed) /\ "InsertPlayer" \notin r.failed
                 => c.players[c.results[1]].name = u
<1> DEFINE f == "InsertPlayer"
           values == <<u, u>>
           c == InsertPlayer(r, u)
<1>1. f \in SqlFiles /\ 1 \in Commands(f) /\ 2 \in Commands(f) /\ Len(Parameters[f]) = 2 /\ values[1] = u
  BY DEF SqlFiles, Parameters, Commands
<1>2. IsRows(r.players)
  BY DEF IsState
<1> HIDE DEF values
<1>3. CASE r.ok
  <2>1. PICK q : /\ Ran(r, q, f, 1, Bound(r, f, 1, values))
                 /\ IF q.ok /\ Len(Parameters[f]) = 2
                    THEN \E s : Ran(q, s, f, 2, Bound(q, f, 2, values)) /\ Ends(s, c, {1})
                    ELSE Ends(q, c, {1})
    BY <1>1, <1>3, CallRan DEF InsertPlayer, values
  <2> HIDE DEF c
  <2> DEFINE p == Bound(r, f, 1, values)
  <2>2. p[1] = AskedUser(r, f, 1, u)
    BY <1>1, BoundUser
  <2> HIDE DEF p
  <2>3. Ran(r, q, f, 1, p) /\ IsState(q)
    BY <2>1 DEF p, Ran
  <2>4. Goes(r, q) /\ Grows(r.players, q.players)
    BY <1>1, <2>3, RanGoes, InsertOne
  <2>5. /\ NamesOnce(r.players, r.held, r.failed)
        /\ "GetPlayerId" \notin r.failed => \A i \in DOMAIN r.players : r.players[i].name # u
        => NamesOnce(q.players, q.held, q.failed)
    BY <2>2, <2>3, InsertOneNames
  <2>6. CASE q.ok
    <3>1. PICK s : Ran(q, s, f, 2, Bound(q, f, 2, values)) /\ Ends(s, c, {1})
      BY <1>1, <2>1, <2>6
    <3> DEFINE p2 == Bound(q, f, 2, values)
    <3>2. p2[1] = AskedUser(q, f, 2, u)
      BY <1>1, BoundUser
    <3> HIDE DEF p2
    <3>3. Ran(q, s, f, 2, p2) /\ IsState(s)
      BY <3>1 DEF p2, Ran
    <3>4. Goes(q, s)
      BY <1>1, <2>3, <3>3, RanGoes
    <3>5. /\ s.players = q.players /\ s.held["InsertPlayer"][1] = q.held["InsertPlayer"][1]
          /\ s.ok => s.results = RowOf(q.players, p2[1])
      BY <2>3, <3>3, SecondInsert
    <3>6. /\ IsState(c) /\ c.players = q.players /\ c.failed = s.failed /\ c.held = s.held
          /\ c.fault = s.fault /\ c.results = s.results /\ (c.ok => s.ok /\ Len(s.results) \in {1})
      BY <3>1, <3>5 DEF Ends
    <3>7. Goes(r, c)
      BY <2>4, <3>4, <3>6 DEF Goes
    <3>8. NamesOnce(q.players, q.held, q.failed) => NamesOnce(c.players, c.held, c.failed)
      BY <3>4, <3>5, <3>6 DEF Goes, NamesOnce
    <3>9. ASSUME c.ok
          PROVE  /\ c.results[1] \in DOMAIN c.players /\ c.players[c.results[1]].name = p2[1]
      <4>1. c.results = RowOf(q.players, p2[1]) /\ Len(c.results) \in {1}
        BY <3>5, <3>6, <3>9
      <4>2. IsRows(q.players)
        BY <2>3 DEF IsState
      <4> QED BY <3>6, <4>1, <4>2, RowOfUser
    <3>10. ASSUME HeldHaveFailed(r.held, r.failed), "InsertPlayer" \notin r.failed
           PROVE  p2[1] = u
      <4>1. r.held["InsertPlayer"][2] = Null
        BY <1>1, <3>10 DEF HeldHaveFailed
      <4>2. q.held["InsertPlayer"][2] = Null
        BY <1>1, <2>3, <4>1 DEF Ran, OthersHeld
      <4> QED BY <3>2, <4>2 DEF AskedUser
    <3> QED BY <2>4, <2>5, <3>6, <3>7, <3>8, <3>9, <3>10 DEF c
  <2>7. CASE ~q.ok
    <3>1. Ends(q, c, {1})
      BY <2>1, <2>7
    <3>2. Goes(r, c)
      BY <2>4, <3>1 DEF Ends, Goes
    <3>3. /\ c.players = q.players /\ c.held = q.held /\ c.failed = q.failed /\ ~c.ok
      BY <2>7, <3>1 DEF Ends
    <3> QED BY <2>4, <2>5, <3>2, <3>3 DEF c
  <2> QED BY <2>6, <2>7
<1>4. CASE ~r.ok
  <2>1. c = r
    BY <1>4 DEF InsertPlayer, Call
  <2>2. Goes(r, r) /\ Grows(r.players, r.players)
    BY <1>2, RowsAreSequence DEF Goes, Grows
  <2> QED BY <1>4, <2>1, <2>2
<1> QED BY <1>3, <1>4

LEMMA UpdatePlayerLoginFinds ==
  ASSUME NEW r, IsState(r), NEW u, r.ok
  PROVE  LET c == UpdatePlayerLogin(r, u) IN
         c.ok => /\ c.results[1] \in DOMAIN c.players
                 /\ HeldHaveFailed(r.held, r.failed) /\ "UpdatePlayerLogin" \notin r.failed
                    => c.players[c.results[1]].name = u
<1> DEFINE f == "UpdatePlayerLogin"
           values == <<u>>
           c == UpdatePlayerLogin(r, u)
<1>1. f \in SqlFiles /\ 1 \in Commands(f) /\ 2 \in Commands(f) /\ Len(Parameters[f]) = 2 /\ values[1] = u
  BY DEF SqlFiles, Parameters, Commands
<1>2. PlayersAfter(r.players, f, 1, Bound(r, f, 1, values)) = r.players
  BY DEF PlayersAfter
<1> HIDE DEF values
<1>3. PICK q : /\ Ran(r, q, f, 1, Bound(r, f, 1, values))
               /\ IF q.ok /\ Len(Parameters[f]) = 2
                  THEN \E s : Ran(q, s, f, 2, Bound(q, f, 2, values)) /\ Ends(s, c, {1})
                  ELSE Ends(q, c, {1})
  BY <1>1, CallRan DEF UpdatePlayerLogin, values
<1> SUFFICES ASSUME c.ok
             PROVE  /\ c.results[1] \in DOMAIN c.players
                    /\ HeldHaveFailed(r.held, r.failed) /\ f \notin r.failed
                       => c.players[c.results[1]].name = u
  OBVIOUS
<1> HIDE DEF c
<1>4. q.ok
  BY <1>3 DEF Ends
<1>5. PICK s : Ran(q, s, f, 2, Bound(q, f, 2, values)) /\ Ends(s, c, {1})
  BY <1>1, <1>3, <1>4
<1> DEFINE p == Bound(q, f, 2, values)
<1>6. p[1] = AskedUser(q, f, 2, u)
  BY <1>1, BoundUser
<1>7. PlayersAfter(q.players, f, 2, p) = q.players /\ Selected(q.players, q.cache, f, 2, p) = RowOf(q.players, p[1])
  BY DEF PlayersAfter, Selected
<1> HIDE DEF p
<1>8. Ran(q, s, f, 2, p) /\ s.ok /\ Len(s.results) \in {1} /\ c.results = s.results /\ c.players = s.players
  BY <1>5 DEF p, Ends
<1>9. s.players = q.players /\ s.results = RowOf(q.players, p[1])
  BY <1>7, <1>8 DEF Ran, Broke, Worked
<1>10. IsRows(q.players)
  BY <1>3 DEF Ran, IsState
<1>11. c.results[1] \in DOMAIN c.players /\ c.players[c.results[1]].name = p[1]
  BY <1>8, <1>9, <1>10, RowOfUser
<1>12. ASSUME HeldHaveFailed(r.held, r.failed), f \notin r.failed
       PROVE  p[1] = u
  <2>1. r.held[f][2] = Null
    BY <1>1, <1>12 DEF HeldHaveFailed
  <2>2. q.held[f][2] = Null
    BY <1>1, <1>3, <2>1 DEF Ran, OthersHeld
  <2> QED BY <1>6, <2>2 DEF AskedUser
<1> QED BY <1>11, <1>12

LEMMA GetPlayerIdFinds ==
  ASSUME NEW r, IsState(r), NEW u, r.ok
  PROVE  LET c == GetPlayerIdByUserName(r, u) IN
         /\ c.ok => c.players = r.players
         /\ c.ok /\ c.results = << >> /\ HeldHaveFailed(r.held, r.failed) /\ "GetPlayerId" \notin r.failed
            => \A i \in DOMAIN r.players : r.players[i].name # u
         /\ ~c.ok => "GetPlayerId" \in c.failed
<1> DEFINE f == "GetPlayerId"
           values == <<u>>
           c == GetPlayerIdByUserName(r, u)
           p == Bound(r, f, 1, values)
<1>1. f \in SqlFiles \ {"InsertPlayer", "UpdatePlayerLogin"} /\ 1 \in Commands(f) /\ values[1] = u
  BY DEF SqlFiles, Parameters, Commands
<1>2. IsRows(r.players)
  BY DEF IsState
<1> HIDE DEF values
<1>3. p[1] = AskedUser(r, f, 1, u)
  BY <1>1, BoundUser
<1>4. PlayersAfter(r.players, f, 1, p) = r.players /\ Selected(r.players, r.cache, f, 1, p) = RowOf(r.players, p[1])
  BY DEF PlayersAfter, Selected
<1>5. Broke(r, c, f, 1, p) \/ (Worked(r, c, f, 1, p) /\ (c.ok <=> Len(c.results) \in {0, 1}))
  BY <1>1, OneCommand DEF GetPlayerIdByUserName, values
<1> HIDE DEF c, p
<1>6. CASE Broke(r, c, f, 1, p)
  <2>1. ~c.ok /\ "GetPlayerId" \in c.failed
    BY <1>6 DEF Broke
  <2> QED BY <2>1 DEF c
<1>7. CASE Worked(r, c, f, 1, p) /\ (c.ok <=> Len(c.results) \in {0, 1})
  <2>1. c.players = r.players /\ c.results = RowOf(r.players, p[1])
    BY <1>4, <1>7 DEF Worked
  <2>2. Len(RowOf(r.players, p[1])) \in {0, 1}
    BY DEF RowOf
  <2>3. ASSUME HeldHaveFailed(r.held, r.failed), f \notin r.failed
        PROVE  p[1] = u
    BY <1>1, <1>3, <2>3 DEF HeldHaveFailed, AskedUser
  <2>4. c.results = NoRow => \A i \in DOMAIN r.players : r.players[i].name # p[1]
    <3> DEFINE name == p[1]
               found == RowOf(r.players, name)
    <3> HIDE DEF name
    <3>1. found = NoRow => \A i \in DOMAIN r.players : r.players[i].name # name
      BY <1>2, RowOfUser
    <3> QED BY <2>1, <3>1 DEF name
  <2>5. c.results = << >> => c.results = NoRow
    BY DEF NoRow
  <2> QED BY <1>7, <2>1, <2>2, <2>3, <2>4, <2>5 DEF c
<1> QED BY <1>5, <1>6, <1>7

LEMMA LoginGoes ==
  ASSUME NEW r, IsState(r), NEW u, r.ok
  PROVE  LET saved == IdAtLogin(r, u) IN
         /\ Goes(r, saved) /\ Grows(r.players, saved.players)
         /\ HeldHaveFailed(r.held, r.failed) /\ NamesOnce(r.players, r.held, r.failed)
            => NamesOnce(saved.players, saved.held, saved.failed)
         /\ saved.ok =>
              /\ saved.results[1] \in DOMAIN saved.players
              /\ HeldHaveFailed(r.held, r.failed) /\ saved.failed \cap IdFiles = {}
                 => saved.players[saved.results[1]].name = u
<1> DEFINE found == GetPlayerIdByUserName(r, u)
           saved == IdAtLogin(r, u)
<1>1. GoesOn(r, found)
  BY CallGoesOn, TheFiles DEF GetPlayerIdByUserName
<1>2. /\ found.ok /\ found.results = << >> /\ HeldHaveFailed(r.held, r.failed) /\ "GetPlayerId" \notin r.failed
         => \A i \in DOMAIN r.players : r.players[i].name # u
      /\ found.ok => found.players = r.players
      /\ ~found.ok => "GetPlayerId" \in found.failed
  BY GetPlayerIdFinds
<1>3. saved = IF found.results = << >> THEN InsertPlayer(found, u) ELSE UpdatePlayerLogin(found, u)
  BY DEF IdAtLogin
<1> HIDE DEF found, saved
<1>4. IsState(found) /\ IsRows(found.players) /\ IsRows(r.players)
  BY <1>1 DEF GoesOn, Goes, IsState
<1>5. Goes(r, found) /\ Grows(r.players, found.players)
  BY <1>1, <1>4, RowsAreSequence DEF GoesOn, SameNames, Grows
<1>6. /\ HeldHaveFailed(r.held, r.failed) => HeldHaveFailed(found.held, found.failed)
      /\ NamesOnce(r.players, r.held, r.failed) => NamesOnce(found.players, found.held, found.failed)
  BY <1>1, NamesGoOn DEF GoesOn, Goes
<1>7. CASE found.results = << >>
  <2>1. saved = InsertPlayer(found, u)
    BY <1>3, <1>7
  <2>2. /\ Goes(found, saved) /\ Grows(found.players, saved.players)
        /\ /\ NamesOnce(found.players, found.held, found.failed)
           /\ "GetPlayerId" \notin found.failed => \A i \in DOMAIN found.players : found.players[i].name # u
           => NamesOnce(saved.players, saved.held, saved.failed)
        /\ found.ok /\ saved.ok =>
             /\ saved.results[1] \in DOMAIN saved.players
             /\ HeldHaveFailed(found.held, found.failed) /\ "InsertPlayer" \notin found.failed
                => saved.players[saved.results[1]].name = u
    BY <1>4, <2>1, InsertPlayerGoes
  <2>3. Goes(r, saved)
    BY <1>5, <2>2 DEF Goes
  <2>4. Grows(r.players, saved.players)
    <3>1. IsRows(saved.players)
      BY <2>2 DEF Goes, IsState
    <3> QED BY <1>4, <1>5, <2>2, <3>1, RowsAreSequence DEF Grows
  <2>5. ASSUME HeldHaveFailed(r.held, r.failed), NamesOnce(r.players, r.held, r.failed)
        PROVE  NamesOnce(saved.players, saved.held, saved.failed)
    <3>1. "GetPlayerId" \notin found.failed => found.ok /\ "GetPlayerId" \notin r.failed
      BY <1>2, <1>5 DEF Goes
    <3>2. "GetPlayerId" \notin found.failed => \A i \in DOMAIN found.players : found.players[i].name # u
      BY <1>2, <1>7, <2>5, <3>1
    <3> QED BY <1>6, <2>2, <2>5, <3>2
  <2>6. saved.ok => found.ok
    BY <2>1 DEF InsertPlayer, Call
  <2>7. saved.failed \cap IdFiles = {} => "InsertPlayer" \notin found.failed
    BY <2>2 DEF Goes, IdFiles
  <2>8. saved.ok =>
              /\ saved.results[1] \in DOMAIN saved.players
              /\ HeldHaveFailed(r.held, r.failed) /\ saved.failed \cap IdFiles = {}
                 => saved.players[saved.results[1]].name = u
    BY <1>6, <2>2, <2>6, <2>7
  <2> QED BY <2>3, <2>4, <2>5, <2>8 DEF saved
<1>8. CASE found.results # << >>
  <2>1. saved = UpdatePlayerLogin(found, u)
    BY <1>3, <1>8
  <2>2. GoesOn(found, saved)
    BY <1>4, <2>1, CallGoesOn, TheFiles DEF UpdatePlayerLogin
  <2>3. GoesOn(r, saved)
    BY <1>1, <2>2, GoesOnFurther
  <2>4. IsRows(saved.players)
    BY <2>3 DEF GoesOn, Goes, IsState
  <2>5. Goes(r, saved) /\ Grows(r.players, saved.players)
    BY <1>4, <2>3, <2>4, RowsAreSequence DEF GoesOn, SameNames, Grows
  <2>6. NamesOnce(r.players, r.held, r.failed) => NamesOnce(saved.players, saved.held, saved.failed)
    BY <2>3, NamesGoOn
  <2>7. saved.ok => found.ok
    BY <2>1 DEF UpdatePlayerLogin, Call
  <2>8. found.ok /\ saved.ok =>
              /\ saved.results[1] \in DOMAIN saved.players
              /\ HeldHaveFailed(found.held, found.failed) /\ "UpdatePlayerLogin" \notin found.failed
                    => saved.players[saved.results[1]].name = u
    BY <1>4, <2>1, UpdatePlayerLoginFinds
  <2>9. saved.failed \cap IdFiles = {} => "UpdatePlayerLogin" \notin found.failed
    BY <2>2 DEF GoesOn, Goes, IdFiles
  <2> QED BY <1>6, <2>5, <2>6, <2>7, <2>8, <2>9 DEF saved
<1> QED BY <1>7, <1>8

-----------------------------------------------------------------------------
(***************************************************************************)
(* The sessions and their rows.                                            *)
(***************************************************************************)

Yes == TRUE
IsSessions(of) == \E S : of \in [UserNames -> [id : Nat, udp : BOOLEAN, character : S]]

Shapes == IsRows(players) /\ IsCache(cache) /\ IsHeld(held) /\ IsSessions(sessions)

Begun(r, fault) ==
  /\ IsState(r) /\ r.players = players /\ r.cache = cache /\ r.held = held /\ r.failed = failed
  /\ r.ok /\ r.results = << >> /\ r.fault = fault

LEMMA BeginState ==
  ASSUME Shapes, NEW fault
  PROVE  Begun(Begin(fault), fault)
<1> DEFINE r == Begin(fault)
           none == << >>
<1>1. r = State(players, cache, held, failed, Yes, none, fault)
  BY DEF Begin, State, Yes
<1>2. Yes \in BOOLEAN /\ Yes
  BY DEF Yes
<1> HIDE DEF r, none
<1>3. /\ r.players = players /\ r.cache = cache /\ r.held = held /\ r.failed = failed
      /\ r.ok = Yes /\ r.results = none /\ r.fault = fault
  BY <1>1, StateFields
<1>4. IsState(r)
  <2>1. \E rows, looks, given, fail, fine, values, x : r = State(rows, looks, given, fail, fine, values, x)
    BY <1>1
  <2>2. IsRows(r.players) /\ IsCache(r.cache) /\ IsHeld(r.held) /\ r.ok \in BOOLEAN
    BY <1>2, <1>3 DEF Shapes
  <2> QED BY <2>1, <2>2 DEF IsState
<1> QED BY <1>2, <1>3, <1>4 DEF Begun, r, none

OwnRows(rows, of, fail) ==
  /\ \A u \in UserNames : of[u].id <= Len(rows)
  /\ fail \cap IdFiles = {} =>
       \A u \in UserNames : of[u].id # 0 => rows[of[u].id].name = u

RowInv ==
  /\ Shapes /\ HeldHaveFailed(held, failed) /\ NamesOnce(players, held, failed)
  /\ OwnRows(players, sessions, failed)

LEMMA OwnRowsGrow ==
  ASSUME NEW rows, IsRows(rows), NEW after, IsRows(after), Grows(rows, after),
         NEW of, IsSessions(of), NEW now, NEW fail, NEW more, fail \subseteq more,
         \A u \in UserNames : now[u].id \in {0, of[u].id}, OwnRows(rows, of, fail)
  PROVE  OwnRows(after, now, more)
<1>1. \A u \in UserNames : of[u].id \in Nat
  BY DEF IsSessions
<1>2. /\ Len(rows) \in Nat /\ Len(after) \in Nat /\ Len(rows) <= Len(after)
      /\ DOMAIN rows = 1..Len(rows)
  BY RowsAreSequence DEF Grows
<1>3. ASSUME NEW u \in UserNames
      PROVE  now[u].id <= Len(after)
  <2>1. of[u].id <= Len(rows) /\ of[u].id \in Nat /\ now[u].id \in {0, of[u].id}
    BY <1>1 DEF OwnRows
  <2> QED BY <1>2, <2>1
<1>4. ASSUME more \cap IdFiles = {}, NEW u \in UserNames, now[u].id # 0
      PROVE  after[now[u].id].name = u
  <2>1. now[u].id = of[u].id /\ of[u].id \in Nat /\ of[u].id # 0 /\ of[u].id <= Len(rows)
    BY <1>1, <1>4 DEF OwnRows
  <2>2. now[u].id \in DOMAIN rows
    BY <1>2, <2>1
  <2>3. rows[now[u].id].name = u
    BY <1>4, <2>1 DEF OwnRows
  <2> QED BY <2>2, <2>3 DEF Grows
<1> QED BY <1>3, <1>4 DEF OwnRows

\* All handlers but the login.
LEMMA StepGoesOn ==
  ASSUME RowInv, NEW fault, NEW q, GoesOn(Begin(fault), q), Commit(q), IsSessions(sessions'),
         \A u \in UserNames : sessions'[u].id \in {0, sessions[u].id}
  PROVE  RowInv'
<1> DEFINE r == Begin(fault)
<1>1. Begun(r, fault)
  BY BeginState DEF RowInv
<1> HIDE DEF r
<1>2. GoesOn(r, q)
  BY DEF r
<1>3. IsRows(players) /\ IsRows(q.players) /\ IsState(r) /\ IsState(q)
  BY <1>1, <1>2 DEF Begun, GoesOn, Goes, IsState
<1>4. Shapes'
  BY <1>3 DEF Commit, Shapes, IsState
<1>5. HeldHaveFailed(held', failed')
  BY <1>1, <1>2 DEF RowInv, Begun, GoesOn, Goes, Commit
<1>6. NamesOnce(q.players, q.held, q.failed)
  BY <1>1, <1>2, <1>3, NamesGoOn DEF RowInv, Begun
<1>7. Grows(players, q.players)
  BY <1>1, <1>2, <1>3, RowsAreSequence DEF Begun, GoesOn, SameNames, Grows
<1>8. failed \subseteq q.failed
  BY <1>1, <1>2 DEF Begun, GoesOn, Goes
<1>9. OwnRows(q.players, sessions', q.failed)
  BY <1>3, <1>7, <1>8, OwnRowsGrow DEF RowInv, Shapes
<1> QED BY <1>4, <1>5, <1>6, <1>9 DEF RowInv, Commit

\* Nothing is committed.
LEMMA StepWithoutDatabase ==
  ASSUME RowInv, UNCHANGED <<players, cache, held, failed>>, IsSessions(sessions'),
         \A u \in UserNames : sessions'[u].id \in {0, sessions[u].id}
  PROVE  RowInv'
<1>1. IsRows(players) /\ Grows(players, players)
  BY RowsAreSequence DEF RowInv, Shapes, Grows
<1>2. OwnRows(players, sessions', failed)
  BY <1>1, OwnRowsGrow DEF RowInv, Shapes
<1> QED BY <1>2 DEF RowInv, Shapes

\* A session is given another character, or an id.
Put(of, u, id, udp, character) ==
  [of EXCEPT ![u] = [id |-> id, udp |-> udp, character |-> character]]

LEMMA SessionPut ==
  ASSUME NEW of, IsSessions(of), NEW u \in UserNames, NEW id \in Nat, NEW udp \in BOOLEAN,
         NEW character
  PROVE  LET now == Put(of, u, id, udp, character) IN
         /\ IsSessions(now) /\ now[u].id = id /\ now[u].udp = udp /\ now[u].character = character
         /\ \A v \in UserNames : v # u => now[v] = of[v]
<1>1. PICK S : of \in [UserNames -> [id : Nat, udp : BOOLEAN, character : S]]
  BY DEF IsSessions
<1> DEFINE T == S \cup {character}
           Sessions == [id : Nat, udp : BOOLEAN, character : T]
           s == [id |-> id, udp |-> udp, character |-> character]
           now == Put(of, u, id, udp, character)
<1>2. of \in [UserNames -> Sessions]
  <2>1. \A v \in UserNames : of[v] \in [id : Nat, udp : BOOLEAN, character : S]
    BY <1>1
  <2>2. \A x \in [id : Nat, udp : BOOLEAN, character : S] : x \in Sessions
    OBVIOUS
  <2> HIDE DEF Sessions
  <2> QED BY <1>1, <2>1, <2>2
<1>3. s \in Sessions /\ s.id = id /\ s.udp = udp /\ s.character = character
  OBVIOUS
<1> HIDE DEF Sessions, s
<1>4. now \in [UserNames -> Sessions] /\ now[u] = s /\ \A v \in UserNames : v # u => now[v] = of[v]
  <2>1. now = [of EXCEPT ![u] = s]
    BY DEF Put, s
  <2> HIDE DEF now
  <2> QED BY <1>2, <1>3, <2>1
<1> HIDE DEF now
<1>5. IsSessions(now)
  BY <1>4 DEF Sessions, IsSessions
<1> QED BY <1>3, <1>4, <1>5 DEF now

IdSet(of, u, x) == [of EXCEPT ![u].id = x]
CharacterSet(of, u, x) == [of EXCEPT ![u].character = x]
EnteredSet(of, u, y) == [of EXCEPT ![u].udp = Yes, ![u].character = y]

LEMMA SessionShapes ==
  ASSUME NEW of, IsSessions(of), NEW u \in UserNames
  PROVE  /\ of[u].id \in Nat /\ of[u].udp \in BOOLEAN
         /\ \A x : IdSet(of, u, x) = Put(of, u, x, of[u].udp, of[u].character)
         /\ \A x : CharacterSet(of, u, x) = Put(of, u, of[u].id, of[u].udp, x)
         /\ \A x : EnteredSet(of, u, x) = Put(of, u, of[u].id, Yes, x)
<1>1. PICK S : of \in [UserNames -> [id : Nat, udp : BOOLEAN, character : S]]
  BY DEF IsSessions
<1>2. PICK id, udp, character : /\ id \in Nat /\ udp \in BOOLEAN
                                /\ of[u] = [id |-> id, udp |-> udp, character |-> character]
  BY <1>1
<1>3. of[u].id = id /\ of[u].udp = udp /\ of[u].character = character
  BY <1>2
<1>4. ASSUME NEW x
      PROVE  IdSet(of, u, x) = Put(of, u, x, of[u].udp, of[u].character)
  <2> DEFINE s == [of[u] EXCEPT !.id = x]
             t == [id |-> x, udp |-> udp, character |-> character]
  <2>1. [of EXCEPT ![u].id = x] = [of EXCEPT ![u] = s]
    BY <1>1
  <2>2. s = t
    BY <1>2
  <2>3. [of EXCEPT ![u] = t] = Put(of, u, x, of[u].udp, of[u].character)
    BY <1>3 DEF Put
  <2> HIDE DEF s, t
  <2> QED BY <2>1, <2>2, <2>3 DEF IdSet
<1>5. ASSUME NEW x
      PROVE  CharacterSet(of, u, x) = Put(of, u, of[u].id, of[u].udp, x)
  <2> DEFINE s == [of[u] EXCEPT !.character = x]
             t == [id |-> id, udp |-> udp, character |-> x]
  <2>1. [of EXCEPT ![u].character = x] = [of EXCEPT ![u] = s]
    BY <1>1
  <2>2. s = t
    BY <1>2
  <2>3. [of EXCEPT ![u] = t] = Put(of, u, of[u].id, of[u].udp, x)
    BY <1>3 DEF Put
  <2> HIDE DEF s, t
  <2> QED BY <2>1, <2>2, <2>3 DEF CharacterSet
<1>6. ASSUME NEW x
      PROVE  EnteredSet(of, u, x) = Put(of, u, of[u].id, Yes, x)
  <2> DEFINE s == [[of[u] EXCEPT !.udp = Yes] EXCEPT !.character = x]
             t == [id |-> id, udp |-> Yes, character |-> x]
  <2>1. [of EXCEPT ![u].udp = Yes, ![u].character = x] = [of EXCEPT ![u] = s]
    BY <1>1
  <2>2. s = t
    <3> DEFINE q == [id |-> id, udp |-> Yes, character |-> character]
    <3>1. [of[u] EXCEPT !.udp = Yes] = q
      BY <1>2
    <3>2. [q EXCEPT !.character = x] = t
      OBVIOUS
    <3> HIDE DEF q, t
    <3> QED BY <3>1, <3>2
  <2>3. [of EXCEPT ![u] = t] = Put(of, u, of[u].id, Yes, x)
    BY <1>3 DEF Put
  <2> HIDE DEF s, t
  <2> QED BY <2>1, <2>2, <2>3 DEF EnteredSet
<1> QED BY <1>2, <1>3, <1>4, <1>5, <1>6

OthersKept(of, now, u) == IsSessions(now) /\ \A v \in UserNames : v # u => now[v] = of[v]

LEMMA SessionSets ==
  ASSUME NEW of, IsSessions(of), NEW u \in UserNames
  PROVE  /\ \A x \in Nat : /\ OthersKept(of, IdSet(of, u, x), u) /\ IdSet(of, u, x)[u].id = x
                           /\ IdSet(of, u, x)[u].character = of[u].character
         /\ \A x : /\ OthersKept(of, CharacterSet(of, u, x), u) /\ CharacterSet(of, u, x)[u].id = of[u].id
                   /\ CharacterSet(of, u, x)[u].character = x
         /\ \A x : /\ OthersKept(of, EnteredSet(of, u, x), u) /\ EnteredSet(of, u, x)[u].id = of[u].id
                   /\ EnteredSet(of, u, x)[u].character = x
<1>1. of[u].id \in Nat /\ of[u].udp \in BOOLEAN
  BY SessionShapes
<1>2. Yes \in BOOLEAN
  BY DEF Yes
<1>3. ASSUME NEW x \in Nat
      PROVE  /\ OthersKept(of, IdSet(of, u, x), u) /\ IdSet(of, u, x)[u].id = x
             /\ IdSet(of, u, x)[u].character = of[u].character
  <2>1. IdSet(of, u, x) = Put(of, u, x, of[u].udp, of[u].character)
    BY SessionShapes
  <2> QED BY <1>1, <2>1, SessionPut DEF OthersKept
<1>4. ASSUME NEW x
      PROVE  /\ OthersKept(of, CharacterSet(of, u, x), u) /\ CharacterSet(of, u, x)[u].id = of[u].id
             /\ CharacterSet(of, u, x)[u].character = x
  <2>1. CharacterSet(of, u, x) = Put(of, u, of[u].id, of[u].udp, x)
    BY SessionShapes
  <2> QED BY <1>1, <2>1, SessionPut DEF OthersKept
<1>5. ASSUME NEW x
      PROVE  /\ OthersKept(of, EnteredSet(of, u, x), u) /\ EnteredSet(of, u, x)[u].id = of[u].id
             /\ EnteredSet(of, u, x)[u].character = x
  <2>1. EnteredSet(of, u, x) = Put(of, u, of[u].id, Yes, x)
    BY SessionShapes
  <2> QED BY <1>1, <1>2, <2>1, SessionPut DEF OthersKept
<1> QED BY <1>3, <1>4, <1>5

LEMMA StartShapes ==
  /\ IsHeld(Prepared) /\ IsCache([e \in 1..MaxEntities |-> Null])
  /\ IsSessions([u \in UserNames |-> NoSession])
  /\ \A f \in SqlFiles : \A k \in Commands(f) : Prepared[f][k] = Null
<1> DEFINE S == {Null}
<1>1. \A f \in SqlFiles : Prepared[f] = [k \in Commands(f) |-> Null]
  BY DEF Prepared, Commands
<1>2. \A f \in SqlFiles : Commands(f) = 1..1 \/ Commands(f) = 1..2
  BY DEF SqlFiles, Parameters, Commands
<1>3. \A f \in SqlFiles : /\ DOMAIN Prepared[f] = Commands(f)
                          /\ Prepared[f] \in [1..1 -> S] \cup [1..2 -> S]
                          /\ \A k \in Commands(f) : Prepared[f][k] = Null
  <2> TAKE f \in SqlFiles
  <2> DEFINE own == [k \in Commands(f) |-> Null]
  <2>1. Prepared[f] = own
    BY <1>1
  <2>2. DOMAIN own = Commands(f) /\ \A k \in Commands(f) : own[k] = Null
    OBVIOUS
  <2>3. own \in [1..1 -> S] \cup [1..2 -> S]
    <3>1. CASE Commands(f) = 1..1
      <4>1. own \in [1..1 -> S]
        BY <3>1
      <4> QED BY <4>1
    <3>2. CASE Commands(f) = 1..2
      <4>1. own \in [1..2 -> S]
        BY <3>2
      <4> QED BY <4>1
    <3> QED BY <1>2, <3>1, <3>2
  <2> HIDE DEF own, S
  <2> QED BY <2>1, <2>2, <2>3
<1>4. Prepared \in [SqlFiles -> [1..1 -> S] \cup [1..2 -> S]]
  <2> DEFINE T == [1..1 -> S] \cup [1..2 -> S]
  <2>1. Prepared = [f \in SqlFiles |-> Prepared[f]] /\ \A f \in SqlFiles : Prepared[f] \in T
    BY <1>3 DEF Prepared
  <2> HIDE DEF T
  <2>2. Prepared \in [SqlFiles -> T]
    BY <2>1
  <2> QED BY <2>2 DEF T
<1>5. IsHeld(Prepared)
  <2> HIDE DEF S
  <2> QED BY <1>3, <1>4 DEF IsHeld
<1>6. [e \in 1..MaxEntities |-> Null] \in [1..MaxEntities -> S]
  OBVIOUS
<1>7. [u \in UserNames |-> NoSession] \in [UserNames -> [id : Nat, udp : BOOLEAN, character : S]]
  BY DEF NoSession
<1> QED BY <1>3, <1>5, <1>6, <1>7 DEF IsCache, IsSessions

LEMMA RowInvInit == PersistenceInit => RowInv
<1> SUFFICES ASSUME PersistenceInit
             PROVE  RowInv
  OBVIOUS
<1>1. players = << >> /\ failed = {} /\ held = Prepared
  BY DEF PersistenceInit
<1>2. players \in Seq({}) /\ DOMAIN players = {} /\ Len(players) = 0
  BY <1>1
<1>3. IsRows(players)
  BY <1>2 DEF IsRows
<1>4. Shapes
  BY <1>3, StartShapes DEF PersistenceInit, Shapes
<1>5. HeldHaveFailed(held, failed) /\ NamesOnce(players, held, failed)
  <2>1. held["InsertPlayer"][1] = Null
    BY <1>1, StartShapes DEF SqlFiles, Commands, Parameters
  <2> QED BY <1>1, <1>2, <2>1, StartShapes DEF HeldHaveFailed, NamesOnce, UniqueNames
<1>6. \A u \in UserNames : sessions[u].id = 0
  BY DEF PersistenceInit, NoSession
<1> QED BY <1>2, <1>4, <1>5, <1>6 DEF RowInv, OwnRows

LEMMA RowInvRestart ==
  ASSUME RowInv, Restart
  PROVE  RowInv'
<1>1. players' = players /\ failed' = failed /\ held' = Prepared
  BY DEF Restart
<1>2. Shapes'
  BY StartShapes DEF RowInv, Shapes, Restart
<1>3. HeldHaveFailed(held', failed')
  BY <1>1, StartShapes DEF HeldHaveFailed
<1>4. NamesOnce(players, held', failed)
  <2>1. held'["InsertPlayer"][1] = Null
    BY <1>1, StartShapes DEF SqlFiles, Commands, Parameters
  <2> QED BY <2>1 DEF RowInv, NamesOnce
<1>5. \A u \in UserNames : sessions'[u].id = 0
  BY DEF Restart, NoSession
<1>6. Len(players) \in Nat
  BY RowsAreSequence DEF RowInv, Shapes
<1> QED BY <1>1, <1>2, <1>3, <1>4, <1>5, <1>6 DEF RowInv, OwnRows

LEMMA RowInvAuthenticate ==
  ASSUME RowInv, NEW u \in UserNames, HandlePlayerAuthenticate(u)
  PROVE  RowInv'
<1>1. PICK fault : /\ Commit(GetPlayerLoadDetails(IdAtLogin(Begin(fault), u), IdAtLogin(Begin(fault), u).results[1]))
                   /\ sessions' = IF GetPlayerLoadDetails(IdAtLogin(Begin(fault), u), IdAtLogin(Begin(fault), u).results[1]).ok
                                  THEN [sessions EXCEPT ![u].id = IdAtLogin(Begin(fault), u).results[1]] ELSE sessions
  BY DEF HandlePlayerAuthenticate
<1> DEFINE r == Begin(fault)
           saved == IdAtLogin(r, u)
           id == saved.results[1]
           q == GetPlayerLoadDetails(saved, id)
<1>2. /\ Commit(q)
      /\ sessions' = IF q.ok THEN IdSet(sessions, u, id) ELSE sessions
  BY <1>1 DEF IdSet
<1>3. Begun(r, fault)
  BY BeginState DEF RowInv
<1> HIDE DEF r
<1>4. IsState(r) /\ r.ok /\ r.players = players /\ HeldHaveFailed(r.held, r.failed) /\ NamesOnce(r.players, r.held, r.failed)
  BY <1>3 DEF Begun, RowInv
<1>5. /\ Goes(r, saved) /\ Grows(r.players, saved.players)
      /\ NamesOnce(saved.players, saved.held, saved.failed)
      /\ saved.ok =>
              /\ id \in DOMAIN saved.players
              /\ saved.failed \cap IdFiles = {} => saved.players[id].name = u
  BY <1>4, LoginGoes
<1>6. q.ok => saved.ok
  BY DEF GetPlayerLoadDetails, Call
<1> HIDE DEF saved, id
<1>7. IsState(saved) /\ HeldHaveFailed(saved.held, saved.failed)
  BY <1>4, <1>5 DEF Goes
<1>8. GoesOn(saved, q)
  BY <1>7, CallGoesOn, TheFiles DEF GetPlayerLoadDetails
<1> HIDE DEF q
<1>9. IsRows(players) /\ IsRows(saved.players) /\ IsRows(q.players) /\ IsState(q)
  BY <1>4, <1>7, <1>8 DEF GoesOn, Goes, IsState
<1>10. HeldHaveFailed(q.held, q.failed) /\ NamesOnce(q.players, q.held, q.failed)
  BY <1>5, <1>7, <1>8, NamesGoOn DEF GoesOn, Goes
<1>11. Grows(players, q.players) /\ failed \subseteq q.failed
  BY <1>3, <1>4, <1>5, <1>8, <1>9, RowsAreSequence DEF Begun, GoesOn, Goes, SameNames, Grows
<1>12. OwnRows(q.players, sessions, q.failed)
  BY <1>9, <1>11, OwnRowsGrow DEF RowInv, Shapes
<1>13. CASE q.ok
  <2>1. id \in DOMAIN q.players /\ q.players[id] \in {q.players[id]}
    BY <1>5, <1>6, <1>8, <1>9, <1>13, RowsAreSequence DEF GoesOn, SameNames
  <2>2. q.failed \cap IdFiles = {} => q.players[id].name = u
    <3>1. q.failed \cap IdFiles = {} => saved.failed \cap IdFiles = {}
      BY <1>8 DEF GoesOn, Goes
    <3> QED BY <1>5, <1>6, <1>8, <1>13, <3>1 DEF GoesOn, SameNames
  <2>3. id \in Nat /\ id <= Len(q.players)
    BY <1>9, <2>1, RowsAreSequence
  <2>4. IsSessions(sessions') /\ sessions'[u].id = id /\ \A v \in UserNames : v # u => sessions'[v] = sessions[v]
    <3>1. sessions' = IdSet(sessions, u, id) /\ IsSessions(sessions)
      BY <1>2, <1>13 DEF RowInv, Shapes
    <3>2. OthersKept(sessions, IdSet(sessions, u, id), u) /\ IdSet(sessions, u, id)[u].id = id
      BY <2>3, <3>1, SessionSets
    <3> QED BY <3>1, <3>2 DEF OthersKept
  <2>5. OwnRows(q.players, sessions', q.failed)
    BY <1>12, <2>2, <2>3, <2>4 DEF OwnRows
  <2>6. Shapes'
    BY <1>2, <1>9, <2>4 DEF Shapes, Commit, IsState
  <2> QED BY <1>2, <1>10, <2>5, <2>6 DEF RowInv, Commit
<1>14. CASE ~q.ok
  <2>1. sessions' = sessions
    BY <1>2, <1>14
  <2>2. Shapes'
    BY <1>2, <1>9, <2>1 DEF Shapes, Commit, IsState, RowInv
  <2> QED BY <1>2, <1>10, <1>12, <2>1, <2>2 DEF RowInv, Commit
<1> QED BY <1>13, <1>14

LEMMA RowInvTestUdp ==
  ASSUME RowInv, NEW u \in UserNames, NEW pick, HandleTestUdp(u, pick)
  PROVE  RowInv'
<1> DEFINE Current(f) == GetCurrentWorldByPlayerId(Begin(f), sessions[u].id)
           New(f) == Current(f).results = << >>
           World(f) == IF New(f) THEN StartingWorld ELSE Current(f).results[1]
           Added(f) == AddPlayer(Current(f), sessions[u].id, World(f), 0, New(f), pick)
<1>1. PICK fault : /\ Commit(IF Current(fault).ok THEN Added(fault).store ELSE Current(fault))
                   /\ sessions' = [sessions EXCEPT ![u].udp = TRUE,
                          ![u].character = IF Current(fault).ok THEN Added(fault).character ELSE Null]
  BY Zenon DEF HandleTestUdp
<1> DEFINE r == Begin(fault)
           current == Current(fault)
           added == Added(fault)
           q == IF current.ok THEN added.store ELSE current
           character == IF current.ok THEN added.character ELSE Null
<1>2. Commit(q) /\ sessions' = EnteredSet(sessions, u, character)
  BY <1>1 DEF EnteredSet, Yes
<1>3. Begun(r, fault)
  BY BeginState DEF RowInv
<1>4. GoesOn(r, current)
  <2> HIDE DEF r
  <2>1. GoesOn(r, GetCurrentWorldByPlayerId(r, sessions[u].id))
    BY <1>3, CallGoesOn, TheFiles DEF GetCurrentWorldByPlayerId, Begun
  <2> QED BY <2>1 DEF r
<1>5. GoesOn(current, added.store)
  <2>1. IsState(current)
    BY <1>4 DEF GoesOn, Goes
  <2> DEFINE isNew == New(fault)
             w == World(fault)
  <2>2. added = AddPlayer(current, sessions[u].id, w, 0, isNew, pick)
    OBVIOUS
  <2> HIDE DEF current, added, isNew, w
  <2> QED BY <2>1, <2>2, AddGoesOn
<1> HIDE DEF r, current, added, character
<1>6. GoesOn(r, q)
  BY <1>3, <1>4, <1>5, GoesOnFurther DEF Begun
<1> HIDE DEF q
<1>7. OthersKept(sessions, sessions', u) /\ sessions'[u].id = sessions[u].id
  BY <1>2, SessionSets DEF RowInv, Shapes
<1>8. GoesOn(Begin(fault), q)
  BY <1>6 DEF r
<1>9. IsSessions(sessions') /\ \A v \in UserNames : sessions'[v].id \in {0, sessions[v].id}
  BY <1>7 DEF OthersKept
<1> QED BY <1>2, <1>8, <1>9, StepGoesOn

LEMMA RowInvTransfer ==
  ASSUME RowInv, NEW u \in UserNames, NEW w, NEW pick, TransferPlayerToWorld(u, w, pick)
  PROVE  RowInv'
<1> DEFINE Added(f) == AddPlayer(Begin(f), sessions[u].id, w, sessions[u].character.entity, TRUE, pick)
<1>1. PICK fault : Commit(Added(fault).store) /\ sessions' = [sessions EXCEPT ![u].character = Added(fault).character]
  BY DEF TransferPlayerToWorld
<1> DEFINE r == Begin(fault)
           q == Added(fault).store
           character == Added(fault).character
<1>2. Commit(q) /\ sessions' = CharacterSet(sessions, u, character)
  BY <1>1 DEF CharacterSet
<1>3. IsState(r)
  BY BeginState DEF RowInv, Begun
<1>4. GoesOn(r, q)
  <2> DEFINE entity == sessions[u].character.entity
  <2>1. q = AddPlayer(r, sessions[u].id, w, entity, Yes, pick).store
    BY DEF Yes
  <2> HIDE DEF r, q, entity
  <2> QED BY <1>3, <2>1, AddGoesOn
<1> HIDE DEF q, character
<1>5. OthersKept(sessions, sessions', u) /\ sessions'[u].id = sessions[u].id
  BY <1>2, SessionSets DEF RowInv, Shapes
<1> QED BY <1>2, <1>4, <1>5, StepGoesOn DEF OthersKept

LEMMA RowInvNext ==
  ASSUME RowInv, [PersistenceNext]_persistenceVars
  PROVE  RowInv'
<1>1. IsSessions(sessions)
  BY DEF RowInv, Shapes
<1>2. CASE UNCHANGED persistenceVars
  BY <1>1, <1>2, StepWithoutDatabase DEF persistenceVars
<1>3. CASE Restart
  BY <1>3, RowInvRestart
<1>4. ASSUME NEW pick, AddCharacter(pick)
      PROVE  RowInv'
  <2>1. PICK fault : Commit(CreateCharacter(Begin(fault), 0, 0, pick).store) /\ sessions' = sessions
    BY <1>4 DEF AddCharacter
  <2>2. IsState(Begin(fault))
    BY BeginState DEF RowInv, Begun
  <2> QED BY <1>1, <2>1, <2>2, CreateGoesOn, StepGoesOn
<1>5. ASSUME NEW pick, TransferCharacterToWorld(pick)
      PROVE  RowInv'
  <2> DEFINE Saved(f) == UpdateEntityAppearance(Begin(f), npc.entity, npc.look, FALSE)
  <2>1. PICK fault : Commit(CreateCharacter(Saved(fault), npc.entity, 0, pick).store) /\ sessions' = sessions
    BY <1>5 DEF TransferCharacterToWorld
  <2> DEFINE r == Begin(fault)
             saved == Saved(fault)
             q == CreateCharacter(saved, npc.entity, 0, pick).store
  <2>2. IsState(r)
    BY BeginState DEF RowInv, Begun
  <2>3. GoesOn(r, saved)
    <3> DEFINE values == <<npc.entity, npc.look>>
    <3>1. saved = Call(r, "CacheUpdate", values, Nat)
      BY DEF UpdateEntityAppearance
    <3> HIDE DEF r, saved, values
    <3> QED BY <2>2, <3>1, CallGoesOn, TheFiles
  <2>4. GoesOn(saved, q)
    <3> HIDE DEF saved
    <3>1. IsState(saved)
      BY <2>3 DEF GoesOn, Goes
    <3> DEFINE entity == npc.entity
    <3> HIDE DEF entity
    <3>2. GoesOn(saved, CreateCharacter(saved, entity, 0, pick).store)
      BY <3>1, CreateGoesOn
    <3> QED BY <3>2 DEF entity
  <2>5. Commit(q)
    BY <2>1
  <2> HIDE DEF saved, q
  <2>6. GoesOn(r, q)
    <3> HIDE DEF r
    <3> QED BY <2>2, <2>3, <2>4, GoesOnFurther
  <2> QED BY <1>1, <2>1, <2>5, <2>6, StepGoesOn
<1>6. ASSUME NEW u \in UserNames, HandleRequestHashedPassword(u)
      PROVE  RowInv'
  <2>1. PICK fault : Commit(GetHashedPassword(Begin(fault), u)) /\ sessions' = sessions
    BY <1>6 DEF HandleRequestHashedPassword
  <2> DEFINE r == Begin(fault)
             q == GetHashedPassword(r, u)
  <2>2. IsState(r)
    BY BeginState DEF RowInv, Begun
  <2>3. GoesOn(r, q)
    <3> HIDE DEF r
    <3> QED BY <2>2, CallGoesOn, TheFiles DEF GetHashedPassword
  <2>4. Commit(q)
    BY <2>1
  <2> HIDE DEF q
  <2> QED BY <1>1, <2>1, <2>3, <2>4, StepGoesOn
<1>7. ASSUME NEW u \in UserNames, PersistPlayerState(u)
      PROVE  RowInv'
  <2>1. PICK fault : /\ Commit(UpdatePlayerState(Begin(fault), sessions[u].id, sessions[u].character.at))
                     /\ sessions' = sessions
    BY <1>7 DEF PersistPlayerState
  <2> DEFINE r == Begin(fault)
             q == UpdatePlayerState(r, sessions[u].id, sessions[u].character.at)
  <2>2. IsState(r)
    BY BeginState DEF RowInv, Begun
  <2>3. GoesOn(r, q)
    <3> DEFINE values == <<sessions[u].id, sessions[u].character.at[1], sessions[u].character.at[2]>>
    <3>1. q = Call(r, "UpdatePlayerState", values, Nat)
      BY DEF UpdatePlayerState
    <3> HIDE DEF r, q, values
    <3> QED BY <2>2, <3>1, CallGoesOn, TheFiles
  <2>4. Commit(q)
    BY <2>1
  <2> HIDE DEF q
  <2> QED BY <1>1, <2>1, <2>3, <2>4, StepGoesOn
<1>8. ASSUME NEW u \in UserNames, RemovePlayer(u)
      PROVE  RowInv'
  <2>1. sessions' = Put(sessions, u, 0, No, Null) /\ No \in BOOLEAN
    BY <1>8 DEF RemovePlayer, Put, NoSession, No
  <2>2. IsSessions(sessions') /\ \A v \in UserNames : sessions'[v].id \in {0, sessions[v].id}
    BY <1>1, <2>1, SessionPut
  <2> QED BY <1>8, <2>2, StepWithoutDatabase DEF RemovePlayer
<1>9. ASSUME NEW u \in UserNames, NEW at, Walk(u, at)
      PROVE  RowInv'
  <2> DEFINE character == [sessions[u].character EXCEPT !.at = at]
  <2>1. sessions' = CharacterSet(sessions, u, character)
    BY <1>1, <1>9 DEF Walk, CharacterSet, IsSessions
  <2> HIDE DEF character
  <2>2. OthersKept(sessions, sessions', u) /\ sessions'[u].id = sessions[u].id
    BY <1>1, <2>1, SessionSets
  <2> QED BY <1>9, <2>2, StepWithoutDatabase DEF Walk, OthersKept
<1> QED
  BY <1>2, <1>3, <1>4, <1>5, <1>6, <1>7, <1>8, <1>9, RowInvAuthenticate, RowInvTestUdp, RowInvTransfer
  DEF PersistenceNext

LEMMA RowInvHolds == PersistenceSpec => []RowInv
<1>1. RowInv /\ [PersistenceNext]_persistenceVars => RowInv'
  BY RowInvNext
<1> QED BY <1>1, RowInvInit, PTL DEF PersistenceSpec

\* However often users log in, and whatever fails or crashes in between: no user
\* has two rows while no look-up of an id failed, and each session is given the
\* row of its own user while no command that gives an id failed.
THEOREM SessionsOwnTheirRowsAlways == PersistenceSpec => []SessionsOwnTheirRows
<1>1. RowInv => SessionsOwnTheirRows
  BY DEF RowInv, NamesOnce, UniqueNames, OwnRows, IdFiles, SessionsOwnTheirRows
<1> QED BY <1>1, RowInvHolds, PTL

-----------------------------------------------------------------------------
(***************************************************************************)
(* Looks: those in player.db.                                              *)
(***************************************************************************)

\* The looks of the rows, and what UpdatePlayerAppearance is held with, stay.
LooksGoOn(r, q) ==
  /\ Goes(r, q) /\ q.held["UpdatePlayerAppearance"] = r.held["UpdatePlayerAppearance"]
  /\ \A i \in DOMAIN r.players : i \in DOMAIN q.players /\ q.players[i].look = r.players[i].look

\* What it is held with may still be given to its row.
LooksHeld(rows, given, fail) ==
  "GetPlayerAppearance" \notin fail /\ given["UpdatePlayerAppearance"][1] # Null =>
    /\ given["UpdatePlayerAppearance"][1][1] \in DOMAIN rows
    /\ rows[given["UpdatePlayerAppearance"][1][1]].look \in {Null, given["UpdatePlayerAppearance"][1][2]}

\* A look may be given where there was none.
LooksKept(r, q) ==
  /\ Goes(r, q) /\ LooksHeld(q.players, q.held, q.failed)
  /\ \A i \in DOMAIN r.players :
       /\ i \in DOMAIN q.players
       /\ "GetPlayerAppearance" \notin q.failed => r.players[i].look \in {Null, q.players[i].look}

LEMMA RanLooks ==
  ASSUME NEW r, IsState(r), NEW q, NEW f \in SqlFiles, NEW k \in Commands(f), NEW p, Ran(r, q, f, k, p),
         f # "UpdatePlayerAppearance"
  PROVE  LooksGoOn(r, q)
<1>1. IsRows(r.players)
  BY DEF IsState
<1>2. Goes(r, q)
  BY RanGoes
<1>3. q.held["UpdatePlayerAppearance"] = r.held["UpdatePlayerAppearance"]
  BY TheFiles DEF Ran, OthersHeld
<1> DEFINE after == PlayersAfter(r.players, f, k, p)
<1>4. DOMAIN r.players \subseteq DOMAIN after /\ \A i \in DOMAIN r.players : after[i].look = r.players[i].look
  BY <1>1, TableAfter
<1>5. q.players = r.players \/ q.players = after
  BY DEF Ran, Broke, Worked
<1> HIDE DEF after
<1> QED BY <1>2, <1>3, <1>4, <1>5 DEF LooksGoOn

LEMMA LooksGoOnFurther ==
  ASSUME NEW r, NEW q, NEW s, LooksGoOn(r, q), LooksGoOn(q, s)
  PROVE  LooksGoOn(r, s)
BY DEF LooksGoOn, Goes

LEMMA LooksGoOnFrom ==
  ASSUME NEW r, IsState(r)
  PROVE  LooksGoOn(r, r)
BY DEF LooksGoOn, Goes

LEMMA EndsLooks ==
  ASSUME NEW r, NEW q, NEW counts, Ends(r, q, counts)
  PROVE  LooksGoOn(r, q)
BY DEF Ends, LooksGoOn, Goes

LEMMA CallLooks ==
  ASSUME NEW r, IsState(r), NEW f \in SqlFiles \ {"UpdatePlayerAppearance"}, NEW values, NEW counts
  PROVE  LooksGoOn(r, Call(r, f, values, counts))
<1> DEFINE c == Call(r, f, values, counts)
<1>1. CASE r.ok
  <2>1. PICK q : /\ Ran(r, q, f, 1, Bound(r, f, 1, values))
                 /\ IF q.ok /\ Len(Parameters[f]) = 2
                    THEN \E s : Ran(q, s, f, 2, Bound(q, f, 2, values)) /\ Ends(s, c, counts)
                    ELSE Ends(q, c, counts)
    BY <1>1, CallRan
  <2> HIDE DEF c
  <2>2. LooksGoOn(r, q)
    BY <2>1, FileFacts, RanLooks
  <2>3. IsState(q)
    BY <2>2 DEF LooksGoOn, Goes
  <2>4. CASE q.ok /\ Len(Parameters[f]) = 2
    <3>1. PICK s : Ran(q, s, f, 2, Bound(q, f, 2, values)) /\ Ends(s, c, counts)
      BY <2>1, <2>4
    <3>2. 2 \in Commands(f)
      BY <2>4, FileFacts
    <3>3. LooksGoOn(q, s) /\ LooksGoOn(s, c)
      BY <2>3, <3>1, <3>2, RanLooks, EndsLooks
    <3>4. LooksGoOn(r, c)
      BY <2>2, <3>3, LooksGoOnFurther
    <3> QED BY <3>4 DEF c
  <2>5. CASE ~(q.ok /\ Len(Parameters[f]) = 2)
    <3>1. LooksGoOn(q, c)
      BY <2>1, <2>5, EndsLooks
    <3>2. LooksGoOn(r, c)
      BY <2>2, <3>1, LooksGoOnFurther
    <3> QED BY <3>2 DEF c
  <2> QED BY <2>4, <2>5
<1>2. CASE ~r.ok
  <2>1. c = r
    BY <1>2 DEF Call
  <2> QED BY <2>1, LooksGoOnFrom
<1> QED BY <1>1, <1>2

LEMMA LooksKeptFrom ==
  ASSUME NEW r, NEW q, LooksGoOn(r, q), LooksHeld(r.players, r.held, r.failed)
  PROVE  LooksKept(r, q)
BY DEF LooksGoOn, Goes, LooksHeld, LooksKept

LEMMA LooksKeptFurther ==
  ASSUME NEW r, NEW q, NEW s, LooksKept(r, q), LooksKept(q, s)
  PROVE  LooksKept(r, s)
BY DEF LooksKept, Goes

LEMMA AppearanceConfirmed ==
  ASSUME NEW r, IsState(r), LooksHeld(r.players, r.held, r.failed), NEW id, NEW look,
         "GetPlayerAppearance" \notin r.failed =>
           id \in DOMAIN r.players /\ r.players[id].look \in {Null, look}
  PROVE  LooksKept(r, UpdatePlayerAppearanceDetails(r, id, look))
<1> DEFINE f == "UpdatePlayerAppearance"
           values == <<id, look>>
           c == UpdatePlayerAppearanceDetails(r, id, look)
           p == Bound(r, f, 1, values)
<1>1. f \in SqlFiles \ {"InsertPlayer", "UpdatePlayerLogin"}
  BY TheFiles
<1>2. Goes(r, c)
  <2>1. GoesOn(r, c)
    BY <1>1, CallGoesOn DEF UpdatePlayerAppearanceDetails
  <2> QED BY <2>1 DEF GoesOn
<1>3. "GetPlayerAppearance" \notin c.failed => "GetPlayerAppearance" \notin r.failed
  BY <1>2 DEF Goes
<1>4. CASE r.ok
  <2>1. Broke(r, c, f, 1, p) \/ Worked(r, c, f, 1, p)
    BY <1>1, <1>4, OneCommand DEF UpdatePlayerAppearanceDetails
  <2>2. \/ r.held[f][1] # Null /\ p = r.held[f][1]
        \/ r.held[f][1] = Null /\ p[1] = id /\ p[2] = look
    <3>1. Parameters[f][1] = 2
      BY DEF Parameters
    <3>2. CASE r.held[f][1] = Null
      <4>1. p = [i \in 1..2 |-> values[i]]
        BY <3>1, <3>2 DEF Bound
      <4>2. p[1] = values[1] /\ p[2] = values[2]
        <5> HIDE DEF values, p
        <5> QED BY <4>1
      <4> QED BY <3>2, <4>2
    <3>3. CASE r.held[f][1] # Null
      BY <3>3 DEF Bound
    <3> QED BY <3>2, <3>3
  <2> HIDE DEF p, c
  <2>3. "GetPlayerAppearance" \notin r.failed =>
          p[1] \in DOMAIN r.players /\ r.players[p[1]].look \in {Null, p[2]}
    BY <2>2 DEF LooksHeld
  <2>4. CASE Broke(r, c, f, 1, p)
    <3>1. c.players = r.players /\ c.held["UpdatePlayerAppearance"][1] = p
      BY <2>4 DEF Broke
    <3>2. LooksHeld(c.players, c.held, c.failed)
      BY <1>3, <2>3, <3>1 DEF LooksHeld
    <3> QED BY <1>2, <3>1, <3>2 DEF LooksKept, c
  <2>5. CASE Worked(r, c, f, 1, p)
    <3> DEFINE i == p[1]
               look2 == p[2]
    <3>1. c.players = LookSet(r.players, i, look2)
      BY <2>5 DEF Worked, PlayersAfter, LookSet
    <3> HIDE DEF i, look2
    <3>2. IsRows(r.players)
      BY DEF IsState
    <3>3. /\ DOMAIN c.players = DOMAIN r.players
          /\ \A j \in DOMAIN r.players : c.players[j].look = IF j = i THEN look2 ELSE r.players[j].look
      BY <3>1, <3>2, SetLook
    <3>4. "GetPlayerAppearance" \notin r.failed => r.players[i].look \in {Null, look2}
      BY <2>3 DEF i, look2
    <3>5. LooksHeld(c.players, c.held, c.failed)
      BY <2>5 DEF Worked, LooksHeld
    <3>6. LooksKept(r, c)
      BY <1>2, <1>3, <3>3, <3>4, <3>5 DEF LooksKept
    <3> QED BY <3>6 DEF c
  <2> QED BY <2>1, <2>4, <2>5
<1>5. CASE ~r.ok
  <2>1. c = r
    BY <1>5 DEF UpdatePlayerAppearanceDetails, Call
  <2>2. LooksKept(r, r)
    BY LooksGoOnFrom, LooksKeptFrom
  <2> QED BY <2>1, <2>2
<1> QED BY <1>4, <1>5

\* The look that CreateCharacter chooses for a player is the saved one, if there is one.
LEMMA LookChosen ==
  ASSUME NEW r, IsState(r), r.ok, HeldHaveFailed(r.held, r.failed), NEW id \in DOMAIN r.players,
         NEW entity, NEW pick
  PROVE  LET read == GetPlayerAppearance(r, id) IN
         "GetPlayerAppearance" \notin read.failed =>
           r.players[id].look \in {Null, LookOf(read, entity, id, pick)}
<1> DEFINE f == "GetPlayerAppearance"
           values == <<id>>
           read == GetPlayerAppearance(r, id)
           p == Bound(r, f, 1, values)
<1> SUFFICES ASSUME f \notin read.failed
             PROVE  r.players[id].look \in {Null, LookOf(read, entity, id, pick)}
  OBVIOUS
<1>1. f \in SqlFiles \ {"InsertPlayer", "UpdatePlayerLogin"} /\ 1 \in Commands(f) /\ values[1] = id
  BY DEF SqlFiles, Parameters, Commands
<1>2. Broke(r, read, f, 1, p) \/ (Worked(r, read, f, 1, p) /\ (read.ok <=> Len(read.results) \in {1}))
  BY <1>1, OneCommand DEF GetPlayerAppearance
<1> HIDE DEF values
<1>3. p[1] = AskedUser(r, f, 1, id)
  BY <1>1, BoundUser
<1> HIDE DEF read, p
<1>4. Worked(r, read, f, 1, p) /\ (read.ok <=> Len(read.results) \in {1}) /\ f \notin r.failed
  BY <1>2 DEF Broke, Worked
<1>5. p[1] = id
  BY <1>1, <1>3, <1>4 DEF HeldHaveFailed, AskedUser
<1>6. read.results = Column(r.players[id].look)
  BY <1>4, <1>5 DEF Worked, Selected
<1>7. CASE r.players[id].look # Null
  <2>1. read.results = <<r.players[id].look>>
    BY <1>6, <1>7 DEF Column
  <2>2. read.ok /\ read.results[1] = r.players[id].look
    BY <1>4, <2>1
  <2>3. id > 0
    <3>1. IsRows(r.players)
      BY DEF IsState
    <3> QED BY <3>1, RowsAreSequence
  <2> QED BY <2>2, <2>3 DEF LookOf
<1> QED BY <1>7

LEMMA CreateKeepsLooks ==
  ASSUME NEW r, IsState(r), LooksHeld(r.players, r.held, r.failed), HeldHaveFailed(r.held, r.failed),
         NEW id, id = 0 \/ id \in DOMAIN r.players, NEW entity, NEW pick
  PROVE  LooksKept(r, CreateCharacter(r, entity, id, pick).store)
<1> DEFINE read == LookRead(r, entity, id)
           look == LookOf(read, entity, id, pick)
           again == OkSet(read, r.ok)
           confirmed == Confirmed(r, read, id, look)
           store == CreateCharacter(r, entity, id, pick).store
           e == EntityOf(entity)
<1>1. store = Call(confirmed, CacheFile(entity), Pair(e, look), Nat)
  <2>1. store = CreatedFrom(r, read, entity, id, pick).store
    BY DEF CreateCharacter
  <2> HIDE DEF read, store
  <2> QED BY <2>1, CreatedParts DEF look, e, confirmed
<1>2. LooksGoOn(r, read)
  <2>1. LooksGoOn(r, GetPlayerAppearance(r, id))
    BY CallLooks, TheFiles DEF GetPlayerAppearance
  <2>2. LooksGoOn(r, GetEntityAppearance(r, entity))
    BY CallLooks, TheFiles DEF GetEntityAppearance
  <2> QED BY <2>1, <2>2, LooksGoOnFrom DEF LookRead
<1>3. LooksKept(r, read)
  BY <1>2, LooksKeptFrom
<1>4. IsState(read) /\ LooksHeld(read.players, read.held, read.failed)
  BY <1>3 DEF LooksKept, Goes
<1>5. LooksKept(read, confirmed)
  <2>1. CASE id = 0
    <3>1. confirmed = read
      BY <2>1 DEF Confirmed
    <3>2. LooksKept(read, read)
      <4> HIDE DEF read
      <4> QED BY <1>4, LooksGoOnFrom, LooksKeptFrom
    <3> QED BY <3>1, <3>2
  <2>2. CASE id \in DOMAIN r.players
    <3>1. id > 0
      <4>1. IsRows(r.players)
        BY DEF IsState
      <4> QED BY <2>2, <4>1, RowsAreSequence
    <3>2. read = GetPlayerAppearance(r, id)
      BY <3>1 DEF LookRead
    <3>3. confirmed = UpdatePlayerAppearanceDetails(again, id, look)
      BY <3>1 DEF Confirmed
    <3>4. CASE r.ok
      <4>1. "GetPlayerAppearance" \notin read.failed => r.players[id].look \in {Null, look}
        BY <2>2, <3>2, <3>4, LookChosen
      <4> HIDE DEF read, look
      <4>2. r.ok \in BOOLEAN
        BY DEF IsState
      <4>3. /\ IsState(again) /\ again.players = read.players /\ again.held = read.held
            /\ again.failed = read.failed
        BY <1>4, <4>2, SetOk
      <4>4. Goes(read, again)
        BY <1>4, <4>2, SetOkGoesOn DEF GoesOn
      <4> HIDE DEF again, confirmed
      <4>5. "GetPlayerAppearance" \notin again.failed =>
              id \in DOMAIN again.players /\ again.players[id].look \in {Null, look}
        BY <1>2, <2>2, <4>1, <4>3 DEF LooksGoOn
      <4>6. LooksKept(again, confirmed)
        BY <1>4, <3>3, <4>3, <4>5, AppearanceConfirmed
      <4>7. LooksKept(read, again)
        BY <1>4, <4>3, <4>4 DEF LooksKept
      <4> QED BY <4>6, <4>7, LooksKeptFurther DEF again, confirmed
    <3>5. CASE ~r.ok
      <4> HIDE DEF read, look
      <4>1. r.ok \in BOOLEAN
        BY DEF IsState
      <4>2. again.ok = r.ok /\ LooksGoOn(read, again)
        BY <1>4, <4>1, SetOk, SetOkGoesOn DEF GoesOn, LooksGoOn
      <4>3. confirmed = again
        <5> HIDE DEF again, confirmed
        <5> QED BY <3>3, <3>5, <4>2 DEF UpdatePlayerAppearanceDetails, Call
      <4> HIDE DEF again, confirmed
      <4> QED BY <1>4, <4>2, <4>3, LooksKeptFrom DEF again, confirmed
    <3> QED BY <3>4, <3>5
  <2> QED BY <2>1, <2>2
<1> HIDE DEF confirmed, store, e, look, read
<1>6. IsState(confirmed) /\ LooksHeld(confirmed.players, confirmed.held, confirmed.failed)
  BY <1>5 DEF LooksKept, Goes
<1>7. LooksGoOn(confirmed, store)
  BY <1>1, <1>6, CallLooks, TheFiles DEF CacheFile
<1>8. LooksKept(r, store)
  BY <1>3, <1>5, <1>6, <1>7, LooksKeptFrom, LooksKeptFurther
<1> QED BY <1>8 DEF store

LEMMA AddKeepsLooks ==
  ASSUME NEW r, IsState(r), LooksHeld(r.players, r.held, r.failed), HeldHaveFailed(r.held, r.failed),
         NEW id, id = 0 \/ id \in DOMAIN r.players, NEW w, NEW entity, NEW atSpawn, NEW pick
  PROVE  LooksKept(r, AddPlayer(r, id, w, entity, atSpawn, pick).store)
<1> DEFINE saved == UpdatePlayerCurrentWorld(r, id, w)
           pos == PlaceRead(saved, id, atSpawn)
           made == CreateCharacter(pos, entity, id, pick)
           store == AddPlayer(r, id, w, entity, atSpawn, pick).store
<1>1. store = made.store
  BY DEF AddPlayer, EnteredAt, CharacterAt
<1>2. LooksGoOn(r, saved)
  BY CallLooks, TheFiles DEF UpdatePlayerCurrentWorld
<1> HIDE DEF saved, store
<1>3. IsState(saved)
  BY <1>2 DEF LooksGoOn, Goes
<1>4. LooksGoOn(saved, GetPosByPlayerId(saved, id))
  BY <1>3, CallLooks, TheFiles DEF GetPosByPlayerId
<1>5. LooksGoOn(saved, pos)
  BY <1>3, <1>4, LooksGoOnFrom DEF PlaceRead
<1> HIDE DEF pos
<1>6. LooksGoOn(r, pos)
  BY <1>2, <1>5, LooksGoOnFurther
<1>7. LooksKept(r, pos)
  BY <1>6, LooksKeptFrom
<1>8. /\ IsState(pos) /\ LooksHeld(pos.players, pos.held, pos.failed)
      /\ HeldHaveFailed(pos.held, pos.failed) /\ (id = 0 \/ id \in DOMAIN pos.players)
  BY <1>7 DEF LooksKept, Goes
<1>9. LooksKept(pos, made.store)
  BY <1>8, CreateKeepsLooks
<1>10. LooksKept(r, store)
  BY <1>1, <1>7, <1>9, LooksKeptFurther
<1> QED BY <1>10 DEF store

PlayersHaveIds(of) == \A u \in UserNames : of[u].character # Null => of[u].id # 0

LookInv == RowInv /\ LooksHeld(players, held, failed) /\ PlayersHaveIds(sessions)

LooksStay ==
  "GetPlayerAppearance" \notin failed' =>
    \A i \in DOMAIN players : players[i].look \in {Null, players'[i].look}

LEMMA LooksCommitted ==
  ASSUME LookInv, NEW fault, NEW q, LooksKept(Begin(fault), q), Commit(q)
  PROVE  LooksHeld(players', held', failed') /\ LooksStay
<1> DEFINE r == Begin(fault)
<1>1. Begun(r, fault)
  BY BeginState DEF LookInv, RowInv
<1> HIDE DEF r
<1>2. LooksKept(r, q)
  BY DEF r
<1> QED BY <1>1, <1>2 DEF Begun, LooksKept, Commit, LooksStay

LEMMA LooksUntouched ==
  ASSUME LookInv, players' = players, held' = held, failed' = failed
  PROVE  LooksHeld(players', held', failed') /\ LooksStay
BY DEF LookInv, LooksStay

LEMMA IdsHaveRows ==
  ASSUME RowInv, NEW u \in UserNames
  PROVE  sessions[u].id = 0 \/ sessions[u].id \in DOMAIN players
<1>1. sessions[u].id \in Nat /\ sessions[u].id <= Len(players)
  BY DEF RowInv, Shapes, IsSessions, OwnRows
<1>2. Len(players) \in Nat /\ DOMAIN players = 1..Len(players)
  BY RowsAreSequence DEF RowInv, Shapes
<1> QED BY <1>1, <1>2

LEMMA BeginLooks ==
  ASSUME LookInv, NEW fault
  PROVE  LET r == Begin(fault) IN
         /\ Begun(r, fault) /\ IsState(r) /\ LooksHeld(r.players, r.held, r.failed)
         /\ HeldHaveFailed(r.held, r.failed)
         /\ \A u \in UserNames : sessions[u].id = 0 \/ sessions[u].id \in DOMAIN r.players
<1> DEFINE r == Begin(fault)
<1>1. Begun(r, fault)
  BY BeginState DEF LookInv, RowInv
<1> HIDE DEF r
<1>2. \A u \in UserNames : sessions[u].id = 0 \/ sessions[u].id \in DOMAIN players
  BY IdsHaveRows DEF LookInv
<1> QED BY <1>1, <1>2 DEF Begun, LookInv, RowInv, r

LEMMA LookInvAuthenticate ==
  ASSUME LookInv, NEW u \in UserNames, HandlePlayerAuthenticate(u)
  PROVE  LooksHeld(players', held', failed') /\ LooksStay /\ PlayersHaveIds(sessions')
<1>1. PICK fault : /\ Commit(GetPlayerLoadDetails(IdAtLogin(Begin(fault), u), IdAtLogin(Begin(fault), u).results[1]))
                   /\ sessions' = IF GetPlayerLoadDetails(IdAtLogin(Begin(fault), u), IdAtLogin(Begin(fault), u).results[1]).ok
                                  THEN [sessions EXCEPT ![u].id = IdAtLogin(Begin(fault), u).results[1]] ELSE sessions
  BY DEF HandlePlayerAuthenticate
<1> DEFINE r == Begin(fault)
           found == GetPlayerIdByUserName(r, u)
           saved == IdAtLogin(r, u)
           id == saved.results[1]
           q == GetPlayerLoadDetails(saved, id)
<1>2. /\ Commit(q)
      /\ sessions' = IF q.ok THEN IdSet(sessions, u, id) ELSE sessions
  BY <1>1 DEF IdSet
<1>3. Begun(r, fault) /\ IsState(r) /\ LooksHeld(r.players, r.held, r.failed)
  BY BeginLooks
<1> HIDE DEF r
<1>4. LooksGoOn(r, found)
  BY <1>3, CallLooks, TheFiles DEF GetPlayerIdByUserName
<1>5. LooksGoOn(found, saved)
  <2>1. saved = IF found.results = << >> THEN InsertPlayer(found, u) ELSE UpdatePlayerLogin(found, u)
    BY DEF IdAtLogin
  <2> HIDE DEF found, saved
  <2>2. IsState(found)
    BY <1>4 DEF LooksGoOn, Goes
  <2>3. LooksGoOn(found, InsertPlayer(found, u)) /\ LooksGoOn(found, UpdatePlayerLogin(found, u))
    BY <2>2, CallLooks, TheFiles DEF InsertPlayer, UpdatePlayerLogin
  <2> QED BY <2>1, <2>3
<1>6. q.ok => saved.ok
  BY DEF GetPlayerLoadDetails, Call
<1>7. r.ok /\ (saved.ok => id \in DOMAIN saved.players)
  BY <1>3, LoginGoes DEF Begun
<1> HIDE DEF found, saved, id
<1>8. IsState(saved)
  BY <1>5 DEF LooksGoOn, Goes
<1>9. LooksGoOn(saved, q)
  BY <1>8, CallLooks, TheFiles DEF GetPlayerLoadDetails
<1> HIDE DEF q
<1>10. LooksGoOn(r, q)
  BY <1>4, <1>5, <1>9, LooksGoOnFurther
<1>11. LooksKept(r, q)
  BY <1>3, <1>10, LooksKeptFrom
<1>12. LooksHeld(players', held', failed') /\ LooksStay
  BY <1>2, <1>11, LooksCommitted DEF r
<1>13. PlayersHaveIds(sessions')
  <2>1. CASE q.ok
    <3>1. IsRows(saved.players)
      BY <1>8 DEF IsState
    <3>2. id \in Nat /\ id # 0
      BY <1>6, <1>7, <2>1, <3>1, RowsAreSequence
    <3>3. sessions'[u].id = id /\ \A v \in UserNames : v # u => sessions'[v] = sessions[v]
      BY <1>2, <2>1, <3>2, SessionSets DEF LookInv, RowInv, Shapes, OthersKept
    <3> QED BY <3>2, <3>3 DEF LookInv, PlayersHaveIds
  <2>2. CASE ~q.ok
    BY <1>2, <2>2 DEF LookInv
  <2> QED BY <2>1, <2>2
<1> QED BY <1>12, <1>13

LEMMA LookInvTestUdp ==
  ASSUME LookInv, NEW u \in UserNames, NEW pick, HandleTestUdp(u, pick)
  PROVE  LooksHeld(players', held', failed') /\ LooksStay /\ PlayersHaveIds(sessions')
<1> DEFINE Current(f) == GetCurrentWorldByPlayerId(Begin(f), sessions[u].id)
           New(f) == Current(f).results = << >>
           World(f) == IF New(f) THEN StartingWorld ELSE Current(f).results[1]
           Added(f) == AddPlayer(Current(f), sessions[u].id, World(f), 0, New(f), pick)
<1>1. PICK fault : /\ Commit(IF Current(fault).ok THEN Added(fault).store ELSE Current(fault))
                   /\ sessions' = [sessions EXCEPT ![u].udp = TRUE,
                          ![u].character = IF Current(fault).ok THEN Added(fault).character ELSE Null]
  BY DEF HandleTestUdp
<1> DEFINE r == Begin(fault)
           id == sessions[u].id
           current == Current(fault)
           added == Added(fault)
           q == IF current.ok THEN added.store ELSE current
           character == IF current.ok THEN added.character ELSE Null
<1>2. Commit(q) /\ sessions' = EnteredSet(sessions, u, character)
  BY <1>1 DEF EnteredSet, Yes
<1>3. /\ IsState(r) /\ LooksHeld(r.players, r.held, r.failed)
      /\ HeldHaveFailed(r.held, r.failed) /\ (id = 0 \/ id \in DOMAIN r.players)
  BY BeginLooks
<1>4. LooksGoOn(r, current)
  <2> HIDE DEF r
  <2>1. LooksGoOn(r, GetCurrentWorldByPlayerId(r, id))
    BY <1>3, CallLooks, TheFiles DEF GetCurrentWorldByPlayerId
  <2> QED BY <2>1 DEF r
<1>5. LooksKept(r, current)
  <2> HIDE DEF r, current
  <2> QED BY <1>3, <1>4, LooksKeptFrom
<1>6. LooksKept(current, added.store)
  <2>1. /\ IsState(current) /\ LooksHeld(current.players, current.held, current.failed)
        /\ HeldHaveFailed(current.held, current.failed) /\ (id = 0 \/ id \in DOMAIN current.players)
    <3> HIDE DEF r, id, current
    <3> QED BY <1>3, <1>5 DEF LooksKept, Goes
  <2> DEFINE isNew == New(fault)
             w == World(fault)
  <2>2. added = AddPlayer(current, id, w, 0, isNew, pick)
    OBVIOUS
  <2> HIDE DEF current, added, isNew, w, id
  <2> QED BY <2>1, <2>2, AddKeepsLooks
<1> HIDE DEF r, current, added, character
<1>7. LooksKept(r, q)
  BY <1>5, <1>6, LooksKeptFurther
<1> HIDE DEF q
<1>8. LooksHeld(players', held', failed') /\ LooksStay
  BY <1>2, <1>7, LooksCommitted DEF r
<1>9. sessions[u].id # 0
  BY DEF HandleTestUdp
<1>10. OthersKept(sessions, sessions', u) /\ sessions'[u].id = sessions[u].id
  BY <1>2, SessionSets DEF LookInv, RowInv, Shapes
<1>11. PlayersHaveIds(sessions')
  BY <1>9, <1>10 DEF LookInv, PlayersHaveIds, OthersKept
<1> QED BY <1>8, <1>11

LEMMA LookInvTransfer ==
  ASSUME LookInv, NEW u \in UserNames, NEW w, NEW pick, TransferPlayerToWorld(u, w, pick)
  PROVE  LooksHeld(players', held', failed') /\ LooksStay /\ PlayersHaveIds(sessions')
<1> DEFINE Added(f) == AddPlayer(Begin(f), sessions[u].id, w, sessions[u].character.entity, TRUE, pick)
<1>1. PICK fault : Commit(Added(fault).store) /\ sessions' = [sessions EXCEPT ![u].character = Added(fault).character]
  BY DEF TransferPlayerToWorld
<1> DEFINE r == Begin(fault)
           id == sessions[u].id
           q == Added(fault).store
           character == Added(fault).character
<1>2. Commit(q) /\ sessions' = CharacterSet(sessions, u, character)
  BY <1>1 DEF CharacterSet
<1>3. /\ IsState(r) /\ LooksHeld(r.players, r.held, r.failed)
      /\ HeldHaveFailed(r.held, r.failed) /\ (id = 0 \/ id \in DOMAIN r.players)
  BY BeginLooks
<1>4. LooksKept(r, q)
  <2> DEFINE entity == sessions[u].character.entity
  <2>1. q = AddPlayer(r, id, w, entity, Yes, pick).store
    BY DEF Yes
  <2> HIDE DEF r, q, id, entity
  <2> QED BY <1>3, <2>1, AddKeepsLooks
<1> HIDE DEF q, character
<1>5. LooksHeld(players', held', failed') /\ LooksStay
  BY <1>2, <1>4, LooksCommitted
<1>6. sessions[u].id # 0
  BY DEF TransferPlayerToWorld, LookInv, PlayersHaveIds
<1>7. OthersKept(sessions, sessions', u) /\ sessions'[u].id = sessions[u].id
  BY <1>2, SessionSets DEF LookInv, RowInv, Shapes
<1>8. PlayersHaveIds(sessions')
  BY <1>6, <1>7 DEF LookInv, PlayersHaveIds, OthersKept
<1> QED BY <1>5, <1>8

LEMMA LookInvNext ==
  ASSUME LookInv, [PersistenceNext]_persistenceVars
  PROVE  LooksHeld(players', held', failed') /\ LooksStay /\ PlayersHaveIds(sessions')
<1> DEFINE Goal == LooksHeld(players', held', failed') /\ LooksStay /\ PlayersHaveIds(sessions')
<1>1. IsSessions(sessions) /\ PlayersHaveIds(sessions)
  BY DEF LookInv, RowInv, Shapes
<1>2. CASE UNCHANGED persistenceVars
  BY <1>1, <1>2, LooksUntouched DEF persistenceVars
<1>3. CASE Restart
  <2>1. players' = players /\ failed' = failed /\ held' = Prepared
    BY <1>3 DEF Restart
  <2>2. held'["UpdatePlayerAppearance"][1] = Null
    BY <2>1, StartShapes DEF SqlFiles, Commands, Parameters
  <2>3. \A u \in UserNames : sessions'[u].character = Null
    BY <1>3 DEF Restart, NoSession
  <2> QED BY <2>1, <2>2, <2>3 DEF LooksHeld, LooksStay, PlayersHaveIds
<1>4. ASSUME NEW pick, AddCharacter(pick)
      PROVE  Goal
  <2>1. PICK fault : Commit(CreateCharacter(Begin(fault), 0, 0, pick).store) /\ sessions' = sessions
    BY <1>4 DEF AddCharacter
  <2> DEFINE r == Begin(fault)
             q == CreateCharacter(r, 0, 0, pick).store
  <2>2. IsState(r) /\ LooksHeld(r.players, r.held, r.failed) /\ HeldHaveFailed(r.held, r.failed)
    BY BeginLooks
  <2>3. LooksKept(r, q)
    <3> HIDE DEF r
    <3> QED BY <2>2, CreateKeepsLooks
  <2> HIDE DEF q
  <2> QED BY <1>1, <2>1, <2>3, LooksCommitted DEF q
<1>5. ASSUME NEW pick, TransferCharacterToWorld(pick)
      PROVE  Goal
  <2> DEFINE Saved(f) == UpdateEntityAppearance(Begin(f), npc.entity, npc.look, FALSE)
  <2>1. PICK fault : Commit(CreateCharacter(Saved(fault), npc.entity, 0, pick).store) /\ sessions' = sessions
    BY <1>5 DEF TransferCharacterToWorld
  <2> DEFINE r == Begin(fault)
             saved == Saved(fault)
             q == CreateCharacter(saved, npc.entity, 0, pick).store
  <2>2. IsState(r) /\ LooksHeld(r.players, r.held, r.failed) /\ HeldHaveFailed(r.held, r.failed)
    BY BeginLooks
  <2>3. LooksKept(r, saved)
    <3> DEFINE values == <<npc.entity, npc.look>>
    <3>1. saved = Call(r, "CacheUpdate", values, Nat)
      BY DEF UpdateEntityAppearance
    <3> HIDE DEF r, saved, values
    <3> QED BY <2>2, <3>1, CallLooks, LooksKeptFrom, TheFiles
  <2>4. LooksKept(saved, q)
    <3> HIDE DEF r, saved
    <3>1. /\ IsState(saved) /\ LooksHeld(saved.players, saved.held, saved.failed)
          /\ HeldHaveFailed(saved.held, saved.failed)
      BY <2>2, <2>3 DEF LooksKept, Goes
    <3> DEFINE entity == npc.entity
    <3> HIDE DEF entity
    <3>2. LooksKept(saved, CreateCharacter(saved, entity, 0, pick).store)
      BY <3>1, CreateKeepsLooks
    <3> QED BY <3>2 DEF entity
  <2>5. Commit(q)
    BY <2>1
  <2> HIDE DEF saved, q
  <2>6. LooksKept(r, q)
    <3> HIDE DEF r
    <3> QED BY <2>3, <2>4, LooksKeptFurther
  <2> QED BY <1>1, <2>1, <2>5, <2>6, LooksCommitted
<1>6. ASSUME NEW u \in UserNames, HandleRequestHashedPassword(u)
      PROVE  Goal
  <2>1. PICK fault : Commit(GetHashedPassword(Begin(fault), u)) /\ sessions' = sessions
    BY <1>6 DEF HandleRequestHashedPassword
  <2> DEFINE r == Begin(fault)
             q == GetHashedPassword(r, u)
  <2>2. IsState(r) /\ LooksHeld(r.players, r.held, r.failed)
    BY BeginLooks
  <2>3. LooksKept(r, q)
    <3> HIDE DEF r
    <3> QED BY <2>2, CallLooks, LooksKeptFrom, TheFiles DEF GetHashedPassword
  <2>4. Commit(q)
    BY <2>1
  <2> HIDE DEF q
  <2> QED BY <1>1, <2>1, <2>3, <2>4, LooksCommitted
<1>7. ASSUME NEW u \in UserNames, PersistPlayerState(u)
      PROVE  Goal
  <2>1. PICK fault : /\ Commit(UpdatePlayerState(Begin(fault), sessions[u].id, sessions[u].character.at))
                     /\ sessions' = sessions
    BY <1>7 DEF PersistPlayerState
  <2> DEFINE r == Begin(fault)
             q == UpdatePlayerState(r, sessions[u].id, sessions[u].character.at)
  <2>2. IsState(r) /\ LooksHeld(r.players, r.held, r.failed)
    BY BeginLooks
  <2>3. LooksKept(r, q)
    <3> DEFINE values == <<sessions[u].id, sessions[u].character.at[1], sessions[u].character.at[2]>>
    <3>1. q = Call(r, "UpdatePlayerState", values, Nat)
      BY DEF UpdatePlayerState
    <3> HIDE DEF r, q, values
    <3> QED BY <2>2, <3>1, CallLooks, LooksKeptFrom, TheFiles
  <2>4. Commit(q)
    BY <2>1
  <2> HIDE DEF q
  <2> QED BY <1>1, <2>1, <2>3, <2>4, LooksCommitted
<1>8. ASSUME NEW u \in UserNames, RemovePlayer(u)
      PROVE  Goal
  <2>1. \A v \in UserNames : sessions'[v] = IF v = u THEN NoSession ELSE sessions[v]
    BY <1>1, <1>8 DEF RemovePlayer, IsSessions
  <2>2. PlayersHaveIds(sessions')
    BY <1>1, <2>1 DEF PlayersHaveIds, NoSession
  <2> QED BY <1>8, <2>2, LooksUntouched DEF RemovePlayer
<1>9. ASSUME NEW u \in UserNames, NEW at, Walk(u, at)
      PROVE  Goal
  <2> DEFINE character == [sessions[u].character EXCEPT !.at = at]
  <2>1. sessions' = CharacterSet(sessions, u, character)
    BY <1>1, <1>9 DEF Walk, CharacterSet, IsSessions
  <2> HIDE DEF character
  <2>2. OthersKept(sessions, sessions', u) /\ sessions'[u].id = sessions[u].id
    BY <1>1, <2>1, SessionSets
  <2>3. PlayersHaveIds(sessions')
    BY <1>1, <1>9, <2>2 DEF Walk, OthersKept, PlayersHaveIds
  <2> QED BY <1>9, <2>3, LooksUntouched DEF Walk
<1> QED
  BY <1>2, <1>3, <1>4, <1>5, <1>6, <1>7, <1>8, <1>9, LookInvAuthenticate, LookInvTestUdp, LookInvTransfer
  DEF PersistenceNext

LEMMA LookInvHolds == PersistenceSpec => []LookInv
<1>1. PersistenceInit => LookInv
  <2> SUFFICES ASSUME PersistenceInit
               PROVE  LookInv
    OBVIOUS
  <2>1. RowInv
    BY RowInvInit
  <2>2. held["UpdatePlayerAppearance"][1] = Null
    BY StartShapes DEF PersistenceInit, SqlFiles, Commands, Parameters
  <2>3. \A u \in UserNames : sessions[u].character = Null
    BY DEF PersistenceInit, NoSession
  <2> QED BY <2>1, <2>2, <2>3 DEF LookInv, LooksHeld, PlayersHaveIds
<1>2. LookInv /\ [PersistenceNext]_persistenceVars => LookInv'
  BY LookInvNext, RowInvNext DEF LookInv
<1> QED BY <1>1, <1>2, PTL DEF PersistenceSpec

-----------------------------------------------------------------------------
(***************************************************************************)
(* Looks: the character without a player.                                  *)
(***************************************************************************)

Npc(entity, look) == [entity |-> entity, look |-> look]

NpcIs(it, next) ==
  /\ next \in Nat \ {0}
  /\ it # Null => \E e, look : e \in 1..MaxEntities /\ look # Null /\ it = Npc(e, look)

LEMMA NpcFields ==
  ASSUME NEW e, NEW look
  PROVE  Npc(e, look).entity = e /\ Npc(e, look).look = look
BY DEF Npc

LEMMA CreatedNpc ==
  ASSUME NEW r, NEW entity, NEW pick
  PROVE  CreateCharacter(r, entity, 0, pick).character
           = Npc(EntityOf(entity), LookOf(LookRead(r, entity, 0), entity, 0, pick))
BY DEF CreateCharacter, CreatedFrom, LookOf, EntityOf, Npc

LEMMA CacheSaved ==
  ASSUME NEW r, IsState(r), r.ok, HeldHaveFailed(r.held, r.failed), NEW values,
         NEW e \in 1..MaxEntities, NEW look, values[1] = e, values[2] = look
  PROVE  LET saved == Call(r, "CacheUpdate", values, Nat) IN
         "CacheUpdate" \notin saved.failed => saved.ok /\ saved.cache[e] = look
<1> DEFINE f == "CacheUpdate"
           saved == Call(r, f, values, Nat)
           p == Bound(r, f, 1, values)
<1> SUFFICES ASSUME f \notin saved.failed
             PROVE  saved.ok /\ saved.cache[e] = look
  OBVIOUS
<1>1. f \in SqlFiles \ {"InsertPlayer", "UpdatePlayerLogin"} /\ 1 \in Commands(f) /\ Parameters[f][1] = 2
  BY DEF SqlFiles, Parameters, Commands
<1>2. Broke(r, saved, f, 1, p) \/ (Worked(r, saved, f, 1, p) /\ (saved.ok <=> Len(saved.results) \in Nat))
  BY <1>1, OneCommand
<1> HIDE DEF saved
<1>3. Worked(r, saved, f, 1, p) /\ (saved.ok <=> Len(saved.results) \in Nat) /\ f \notin r.failed
  BY <1>2 DEF Broke, Worked
<1>4. r.held[f][1] = Null
  BY <1>1, <1>3 DEF HeldHaveFailed
<1>5. p[1] = e /\ p[2] = look
  <2>1. p = [i \in 1..2 |-> values[i]]
    BY <1>1, <1>4 DEF Bound
  <2> HIDE DEF p
  <2> QED BY <2>1
<1> HIDE DEF p
<1>6. saved.results = << >>
  BY <1>3 DEF Worked, Selected
<1>7. saved.cache = [r.cache EXCEPT ![e] = look]
  BY <1>3, <1>5 DEF Worked, CacheAfter
<1>8. e \in DOMAIN r.cache
  BY DEF IsState, IsCache
<1> QED BY <1>3, <1>6, <1>7, <1>8

LEMMA EntityLook ==
  ASSUME NEW r, IsState(r), r.ok, HeldHaveFailed(r.held, r.failed), NEW e, NEW look
  PROVE  LET read == GetEntityAppearance(r, e) IN
         /\ read.ok => read.results[1] # Null
         /\ "CacheGet" \notin read.failed /\ r.cache[e] = look /\ look # Null
            => read.ok /\ read.results[1] = look
<1> DEFINE f == "CacheGet"
           values == <<e>>
           read == GetEntityAppearance(r, e)
           p == Bound(r, f, 1, values)
<1>1. f \in SqlFiles \ {"InsertPlayer", "UpdatePlayerLogin"} /\ 1 \in Commands(f) /\ values[1] = e
  BY DEF SqlFiles, Parameters, Commands
<1>2. Broke(r, read, f, 1, p) \/ (Worked(r, read, f, 1, p) /\ (read.ok <=> Len(read.results) \in {1}))
  BY <1>1, OneCommand DEF GetEntityAppearance
<1> HIDE DEF values
<1>3. p[1] = AskedUser(r, f, 1, e)
  BY <1>1, BoundUser
<1> HIDE DEF read, p
<1>4. CASE Broke(r, read, f, 1, p)
  <2>1. ~read.ok /\ f \in read.failed
    BY <1>4 DEF Broke
  <2> QED BY <2>1 DEF read
<1>5. CASE Worked(r, read, f, 1, p) /\ (read.ok <=> Len(read.results) \in {1})
  <2> DEFINE was == r.cache[p[1]]
  <2>1. read.results = Column(was)
    BY <1>5 DEF Worked, Selected
  <2> HIDE DEF was
  <2>2. was # Null => read.results[1] = was /\ Len(read.results) = 1
    BY <2>1 DEF Column
  <2>3. was = Null => Len(read.results) = 0
    BY <2>1 DEF Column
  <2>4. f \notin read.failed => p[1] = e
    BY <1>1, <1>3, <1>5 DEF Worked, HeldHaveFailed, AskedUser
  <2> QED BY <1>5, <2>2, <2>3, <2>4 DEF was, read
<1> QED BY <1>2, <1>4, <1>5

NpcStays ==
  failed' \cap CharacterFiles = {} => (npc # Null /\ npc' # Null => npc' = npc)

LEMMA NpcTransferred ==
  ASSUME RowInv, NpcIs(npc, nextEntity), NEW pick \in Looks, TransferCharacterToWorld(pick)
  PROVE  NpcIs(npc', nextEntity') /\ NpcStays
<1>1. npc # Null /\ nextEntity' = nextEntity
  BY DEF TransferCharacterToWorld
<1>2. PICK e, look : e \in 1..MaxEntities /\ look # Null /\ npc = Npc(e, look)
  BY <1>1 DEF NpcIs
<1>3. npc.entity = e /\ npc.look = look /\ e # 0
  BY <1>2, NpcFields, PersistenceAssumption
<1> DEFINE Saved(f) == UpdateEntityAppearance(Begin(f), npc.entity, npc.look, FALSE)
           Made(f) == CreateCharacter(Saved(f), npc.entity, 0, pick)
<1>4. PICK fault : /\ Commit(Made(fault).store)
                   /\ npc' = CASE ~Saved(fault).ok -> npc
                               [] Saved(fault).ok /\ Made(fault).store.ok -> Made(fault).character
                               [] OTHER -> Null
  BY DEF TransferCharacterToWorld
<1> DEFINE r == Begin(fault)
           saved == Saved(fault)
           made == CreateCharacter(saved, e, 0, pick)
           read == GetEntityAppearance(saved, e)
           now == LookOf(read, e, 0, pick)
           values == <<e, look>>
<1>5. /\ Commit(made.store)
      /\ npc' = npc \/ npc' = Null \/ (saved.ok /\ npc' = made.character)
  BY <1>3, <1>4
<1>6. saved = Call(r, "CacheUpdate", values, Nat)
  BY <1>3 DEF UpdateEntityAppearance
<1>7. Begun(r, fault)
  BY BeginState DEF RowInv
<1>8. values[1] = e /\ values[2] = look
  OBVIOUS
<1> HIDE DEF r, saved, values
<1>9. IsState(r) /\ r.ok /\ HeldHaveFailed(r.held, r.failed)
  BY <1>7 DEF Begun, RowInv
<1>10. "CacheUpdate" \notin saved.failed => saved.ok /\ saved.cache[e] = look
  BY <1>2, <1>6, <1>8, <1>9, CacheSaved
<1>11. GoesOn(r, saved)
  BY <1>6, <1>9, CallGoesOn, TheFiles
<1>12. IsState(saved) /\ HeldHaveFailed(saved.held, saved.failed)
  BY <1>9, <1>11 DEF GoesOn, Goes
<1>13. saved.ok =>
         /\ read.ok => read.results[1] # Null
         /\ "CacheGet" \notin read.failed /\ saved.cache[e] = look => read.ok /\ read.results[1] = look
  BY <1>2, <1>12, EntityLook
<1>14. LookRead(saved, e, 0) = read
  BY <1>3 DEF LookRead
<1>15. GoesOn(saved, made.store) /\ GoesOn(read, made.store)
  BY <1>12, <1>14, CreateGoesOn
<1>16. made.character = Npc(e, now)
  <2>1. EntityOf(e) = e
    BY <1>3 DEF EntityOf
  <2> HIDE DEF read
  <2> QED BY <1>14, <2>1, CreatedNpc
<1>17. saved.ok => now # Null
  BY <1>3, <1>13, PersistenceAssumption DEF LookOf
<1>18. ASSUME failed' \cap CharacterFiles = {}, saved.ok
       PROVE  now = look
  <2>1. made.store.failed \cap CharacterFiles = {}
    BY <1>5, <1>18 DEF Commit
  <2> HIDE DEF made, read
  <2>2. "CacheUpdate" \notin saved.failed /\ "CacheGet" \notin read.failed
    BY <1>15, <2>1 DEF GoesOn, Goes, CharacterFiles
  <2>3. read.ok /\ read.results[1] = look
    BY <1>10, <1>13, <1>18, <2>2
  <2> QED BY <1>3, <2>3 DEF LookOf
<1> HIDE DEF now, made, read
<1>19. NpcIs(npc', nextEntity')
  BY <1>1, <1>2, <1>5, <1>16, <1>17 DEF NpcIs
<1>20. NpcStays
  BY <1>2, <1>5, <1>16, <1>18 DEF NpcStays
<1> QED BY <1>19, <1>20

LEMMA NpcAdded ==
  ASSUME NpcIs(npc, nextEntity), NEW pick \in Looks, AddCharacter(pick)
  PROVE  NpcIs(npc', nextEntity') /\ NpcStays
<1> DEFINE Made(f) == CreateCharacter(Begin(f), 0, 0, pick)
<1>1. PICK fault : npc' = IF Made(fault).store.ok THEN Made(fault).character ELSE Null
  BY DEF AddCharacter
<1>2. Made(fault).character = Npc(nextEntity, pick)
  <2> DEFINE r == Begin(fault)
             read == LookRead(r, 0, 0)
  <2>1. LookOf(read, 0, 0, pick) = pick /\ EntityOf(0) = nextEntity
    BY DEF LookOf, EntityOf
  <2> HIDE DEF r
  <2>2. CreateCharacter(r, 0, 0, pick).character = Npc(EntityOf(0), LookOf(read, 0, 0, pick))
    BY CreatedNpc
  <2> HIDE DEF read
  <2>3. CreateCharacter(r, 0, 0, pick).character = Npc(nextEntity, pick)
    BY <2>1, <2>2
  <2> QED BY <2>3 DEF r
<1>3. pick # Null
  BY PersistenceAssumption
<1>4. npc = Null /\ nextEntity' = nextEntity + 1 /\ nextEntity <= MaxEntities /\ nextEntity \in Nat \ {0}
  BY DEF AddCharacter, NpcIs
<1> HIDE DEF Made
<1>5. nextEntity \in 1..MaxEntities /\ nextEntity' \in Nat \ {0}
  BY <1>4, PersistenceAssumption
<1>6. npc' = Npc(nextEntity, pick) \/ npc' = Null
  BY <1>1, <1>2
<1> QED BY <1>3, <1>4, <1>5, <1>6 DEF NpcIs, NpcStays

LEMMA NpcNext ==
  ASSUME RowInv, NpcIs(npc, nextEntity), [PersistenceNext]_persistenceVars
  PROVE  NpcIs(npc', nextEntity') /\ NpcStays
<1>1. nextEntity \in Nat \ {0}
  BY DEF NpcIs
<1>2. CASE UNCHANGED persistenceVars
  BY <1>2 DEF persistenceVars, NpcStays
<1>3. CASE Restart
  BY <1>3 DEF Restart, NpcIs, NpcStays
<1>4. ASSUME NEW u \in UserNames, NEW pick, HandleTestUdp(u, pick)
      PROVE  NpcIs(npc', nextEntity') /\ NpcStays
  <2>1. npc' = npc /\ nextEntity' = nextEntity + 1
    BY <1>4 DEF HandleTestUdp
  <2>2. nextEntity' \in Nat \ {0}
    BY <1>1, <2>1
  <2> QED BY <2>1, <2>2 DEF NpcIs, NpcStays
<1>5. ASSUME npc' = npc, nextEntity' = nextEntity
      PROVE  NpcIs(npc', nextEntity') /\ NpcStays
  BY <1>5 DEF NpcStays
<1>6. ASSUME NEW u \in UserNames,
             \/ HandleRequestHashedPassword(u) \/ HandlePlayerAuthenticate(u)
             \/ PersistPlayerState(u) \/ RemovePlayer(u) \/ \E at \in Spots : Walk(u, at)
             \/ \E pick \in Looks, w \in DOMAIN SpawnPoints : TransferPlayerToWorld(u, w, pick)
      PROVE  npc' = npc /\ nextEntity' = nextEntity
  BY <1>6 DEF HandleRequestHashedPassword, HandlePlayerAuthenticate, PersistPlayerState, RemovePlayer,
              Walk, TransferPlayerToWorld
<1> QED BY <1>2, <1>3, <1>4, <1>5, <1>6, NpcAdded, NpcTransferred DEF PersistenceNext

\* What a player looks like is chosen once: the saved look stays over logins,
\* warps and crashes while no look could not be read; and a character without a
\* player keeps its look from world to world while the cache's commands work.
THEOREM AppearanceIsKeptAlways == PersistenceSpec => AppearanceIsKept
<1> DEFINE Inv == LookInv /\ NpcIs(npc, nextEntity)
           Kept == LooksStay /\ NpcStays
<1>1. PersistenceInit => NpcIs(npc, nextEntity)
  BY DEF PersistenceInit, NpcIs
<1>2. Inv /\ [PersistenceNext]_persistenceVars => NpcIs(npc', nextEntity') /\ Kept
  BY LookInvNext, NpcNext DEF LookInv
<1>3. PersistenceSpec => []NpcIs(npc, nextEntity)
  <2>1. LookInv /\ NpcIs(npc, nextEntity) /\ [PersistenceNext]_persistenceVars => NpcIs(npc, nextEntity)'
    BY <1>2
  <2> QED BY <1>1, <2>1, LookInvHolds, PTL DEF PersistenceSpec
<1>4. Kept => /\ failed' \cap {"GetPlayerAppearance"} = {} =>
                   \A i \in DOMAIN players : players[i].look \in {Null, players'[i].look}
              /\ failed' \cap {"CacheGet", "CacheInsert", "CacheUpdate"} = {} =>
                   (npc # Null /\ npc' # Null => npc' = npc)
  BY DEF LooksStay, NpcStays, CharacterFiles
<1>5. LookInv /\ NpcIs(npc, nextEntity) /\ [PersistenceNext]_persistenceVars =>
        [/\ failed' \cap {"GetPlayerAppearance"} = {} =>
              \A i \in DOMAIN players : players[i].look \in {Null, players'[i].look}
         /\ failed' \cap {"CacheGet", "CacheInsert", "CacheUpdate"} = {} =>
              (npc # Null /\ npc' # Null => npc' = npc)]_persistenceVars
  BY <1>2, <1>4
<1> QED BY <1>3, <1>5, LookInvHolds, PTL DEF PersistenceSpec, AppearanceIsKept

-----------------------------------------------------------------------------
(***************************************************************************)
(* Places: where players were saved.                                       *)
(***************************************************************************)

NoneFailed(fail) == fail \cap (LoginFiles \cup PlaceFiles) = {}

\* Rows stay where they are; one may be given a world, and new ones have no place.
SamePlaces(rows, after) ==
  /\ \A i \in DOMAIN rows :
       /\ i \in DOMAIN after /\ after[i].name = rows[i].name /\ after[i].at = rows[i].at
       /\ rows[i].world # Null => after[i].world # Null
  /\ \A i \in DOMAIN after : i \in DOMAIN rows \/ after[i].at = Null

PlacesKept(r, q) ==
  Goes(r, q) /\ (NoneFailed(q.failed) => SamePlaces(r.players, q.players))

LEMMA SamePlacesFrom ==
  ASSUME NEW rows
  PROVE  SamePlaces(rows, rows)
BY DEF SamePlaces

LEMMA SamePlacesFurther ==
  ASSUME NEW rows, NEW after, NEW last, SamePlaces(rows, after), SamePlaces(after, last)
  PROVE  SamePlaces(rows, last)
BY DEF SamePlaces

LEMMA PlacesAfter ==
  ASSUME NEW rows, IsRows(rows), NEW f \in SqlFiles, NEW k, NEW p,
         f \notin {"UpdatePlayerState", "UpdatePlayerCurrentWorld"}
  PROVE  SamePlaces(rows, PlayersAfter(rows, f, k, p))
<1>1. CASE f = "InsertPlayer" /\ k = 1
  <2> DEFINE row == NewRow(p[1], p[2])
             after == Append(rows, row)
  <2>1. PlayersAfter(rows, f, k, p) = after
    BY <1>1 DEF PlayersAfter
  <2>2. IsRow(row) /\ row.at = Null
    BY DEF NewRow, IsRow, Row
  <2> HIDE DEF row
  <2>3. /\ IsRows(after) /\ Len(after) = Len(rows) + 1
        /\ \A i \in DOMAIN rows : after[i] = rows[i]
        /\ after[Len(rows) + 1] = row
    BY <2>2, AppendRow
  <2>4. DOMAIN after = DOMAIN rows \cup {Len(rows) + 1}
    BY <2>3, RowsAreSequence
  <2> HIDE DEF after
  <2> QED BY <2>1, <2>2, <2>3, <2>4 DEF SamePlaces
<1>2. CASE f = "UpdatePlayerAppearance"
  <2> DEFINE i == p[1]
             x == p[2]
             after == LookSet(rows, i, x)
  <2>1. PlayersAfter(rows, f, k, p) = after
    BY <1>2 DEF PlayersAfter, LookSet
  <2> HIDE DEF i, x
  <2>2. /\ DOMAIN after = DOMAIN rows
        /\ \A j \in DOMAIN rows :
              /\ after[j].name = rows[j].name /\ after[j].world = rows[j].world
              /\ after[j].at = rows[j].at
    BY SetLook
  <2> HIDE DEF after
  <2> QED BY <2>1, <2>2 DEF SamePlaces
<1>3. CASE ~(f = "InsertPlayer" /\ k = 1) /\ f # "UpdatePlayerAppearance"
  BY <1>3, SamePlacesFrom DEF PlayersAfter
<1> QED BY <1>1, <1>2, <1>3

LEMMA PlacesKeptFrom ==
  ASSUME NEW r, IsState(r)
  PROVE  PlacesKept(r, r)
BY SamePlacesFrom DEF PlacesKept, Goes

LEMMA PlacesKeptFurther ==
  ASSUME NEW r, NEW q, NEW s, PlacesKept(r, q), PlacesKept(q, s)
  PROVE  PlacesKept(r, s)
<1>1. Goes(r, s) /\ (NoneFailed(s.failed) => NoneFailed(q.failed))
  BY DEF PlacesKept, Goes, NoneFailed
<1> QED BY <1>1, SamePlacesFurther DEF PlacesKept

LEMMA RanPlaces ==
  ASSUME NEW r, IsState(r), NEW q, NEW f \in SqlFiles, NEW k \in Commands(f), NEW p, Ran(r, q, f, k, p),
         f \notin {"UpdatePlayerState", "UpdatePlayerCurrentWorld"}
  PROVE  PlacesKept(r, q)
<1>1. IsRows(r.players)
  BY DEF IsState
<1>2. Goes(r, q)
  BY RanGoes
<1>3. SamePlaces(r.players, PlayersAfter(r.players, f, k, p)) /\ SamePlaces(r.players, r.players)
  BY <1>1, PlacesAfter, SamePlacesFrom
<1>4. q.players = r.players \/ q.players = PlayersAfter(r.players, f, k, p)
  BY DEF Ran, Broke, Worked
<1> QED BY <1>2, <1>3, <1>4 DEF PlacesKept

LEMMA EndsPlaces ==
  ASSUME NEW r, NEW q, NEW counts, Ends(r, q, counts)
  PROVE  PlacesKept(r, q)
BY SamePlacesFrom DEF Ends, PlacesKept, Goes

LEMMA CallPlaces ==
  ASSUME NEW r, IsState(r), NEW f \in SqlFiles \ {"UpdatePlayerState", "UpdatePlayerCurrentWorld"},
         NEW values, NEW counts
  PROVE  PlacesKept(r, Call(r, f, values, counts))
<1> DEFINE c == Call(r, f, values, counts)
<1>1. CASE r.ok
  <2>1. PICK q : /\ Ran(r, q, f, 1, Bound(r, f, 1, values))
                 /\ IF q.ok /\ Len(Parameters[f]) = 2
                    THEN \E s : Ran(q, s, f, 2, Bound(q, f, 2, values)) /\ Ends(s, c, counts)
                    ELSE Ends(q, c, counts)
    BY <1>1, CallRan
  <2> HIDE DEF c
  <2>2. PlacesKept(r, q)
    BY <2>1, FileFacts, RanPlaces
  <2>3. IsState(q)
    BY <2>2 DEF PlacesKept, Goes
  <2>4. CASE q.ok /\ Len(Parameters[f]) = 2
    <3>1. PICK s : Ran(q, s, f, 2, Bound(q, f, 2, values)) /\ Ends(s, c, counts)
      BY <2>1, <2>4
    <3>2. 2 \in Commands(f)
      BY <2>4, FileFacts
    <3>3. PlacesKept(q, s) /\ PlacesKept(s, c)
      BY <2>3, <3>1, <3>2, RanPlaces, EndsPlaces
    <3>4. PlacesKept(r, c)
      BY <2>2, <3>3, PlacesKeptFurther
    <3> QED BY <3>4 DEF c
  <2>5. CASE ~(q.ok /\ Len(Parameters[f]) = 2)
    <3>1. PlacesKept(q, c)
      BY <2>1, <2>5, EndsPlaces
    <3>2. PlacesKept(r, c)
      BY <2>2, <3>1, PlacesKeptFurther
    <3> QED BY <3>2 DEF c
  <2> QED BY <2>4, <2>5
<1>2. CASE ~r.ok
  <2>1. c = r
    BY <1>2 DEF Call
  <2> QED BY <2>1, PlacesKeptFrom
<1> QED BY <1>1, <1>2

\* A command that has not failed is given the values of its caller.
LEMMA UnfailedCall ==
  ASSUME NEW r, IsState(r), r.ok, HeldHaveFailed(r.held, r.failed), NEW values, NEW counts,
         NEW f \in SqlFiles \ {"InsertPlayer", "UpdatePlayerLogin"}
  PROVE  LET c == Call(r, f, values, counts) IN
         f \notin c.failed =>
           \E p : /\ \A i \in 1..Parameters[f][1] : p[i] = values[i]
                  /\ Worked(r, c, f, 1, p) /\ (c.ok <=> Len(c.results) \in counts)
<1> DEFINE c == Call(r, f, values, counts)
           p == Bound(r, f, 1, values)
<1> SUFFICES ASSUME f \notin c.failed
             PROVE  \E x : /\ \A i \in 1..Parameters[f][1] : x[i] = values[i]
                           /\ Worked(r, c, f, 1, x) /\ (c.ok <=> Len(c.results) \in counts)
  OBVIOUS
<1>1. Broke(r, c, f, 1, p) \/ (Worked(r, c, f, 1, p) /\ (c.ok <=> Len(c.results) \in counts))
  BY OneCommand
<1> HIDE DEF c
<1>2. Worked(r, c, f, 1, p) /\ (c.ok <=> Len(c.results) \in counts) /\ f \notin r.failed
  BY <1>1 DEF Broke, Worked
<1>3. r.held[f][1] = Null
  BY <1>2, FileFacts DEF HeldHaveFailed
<1>4. \A i \in 1..Parameters[f][1] : p[i] = values[i]
  BY <1>3 DEF Bound
<1> HIDE DEF p
<1> QED BY <1>2, <1>4

LEMMA WorldSaved ==
  ASSUME NEW r, IsState(r), HeldHaveFailed(r.held, r.failed), NEW id, NEW w, w # Null
  PROVE  LET c == UpdatePlayerCurrentWorld(r, id, w) IN
         /\ PlacesKept(r, c)
         /\ NoneFailed(c.failed) /\ r.ok => c.ok /\ (id \in DOMAIN r.players => c.players[id].world = w)
<1> DEFINE f == "UpdatePlayerCurrentWorld"
           values == <<id, w>>
           c == UpdatePlayerCurrentWorld(r, id, w)
<1>1. f \in SqlFiles \ {"InsertPlayer", "UpdatePlayerLogin"} /\ Parameters[f][1] = 2
  BY DEF SqlFiles, Parameters
<1>2. Goes(r, c)
  <2>1. GoesOn(r, c)
    BY <1>1, CallGoesOn DEF UpdatePlayerCurrentWorld
  <2> QED BY <2>1 DEF GoesOn
<1>3. CASE r.ok
  <2>1. ASSUME NoneFailed(c.failed)
        PROVE  /\ SamePlaces(r.players, c.players) /\ c.ok
               /\ id \in DOMAIN r.players => c.players[id].world = w
    <3>1. f \notin c.failed
      BY <2>1 DEF NoneFailed, PlaceFiles
    <3>2. PICK p : /\ \A i \in 1..2 : p[i] = values[i]
                   /\ Worked(r, c, f, 1, p) /\ (c.ok <=> Len(c.results) \in Nat)
      BY <1>1, <1>3, <3>1, UnfailedCall DEF UpdatePlayerCurrentWorld
    <3>3. p[1] = id /\ p[2] = w
      BY <3>2
    <3>4. c.players = WorldSet(r.players, id, w)
      BY <3>2, <3>3 DEF Worked, PlayersAfter, WorldSet
    <3>5. c.results = << >>
      BY <3>2 DEF Worked, Selected
    <3>6. c.ok
      BY <3>2, <3>5
    <3> HIDE DEF c
    <3>7. IsRows(r.players)
      BY DEF IsState
    <3>8. /\ DOMAIN c.players = DOMAIN r.players
          /\ \A j \in DOMAIN r.players :
               /\ c.players[j].name = r.players[j].name /\ c.players[j].at = r.players[j].at
               /\ c.players[j].world = IF j = id THEN w ELSE r.players[j].world
      BY <3>4, <3>7, SetWorld
    <3> QED BY <3>6, <3>8 DEF SamePlaces
  <2> QED BY <1>2, <1>3, <2>1 DEF PlacesKept
<1>4. CASE ~r.ok
  <2>1. c = r
    BY <1>4 DEF UpdatePlayerCurrentWorld, Call
  <2> QED BY <1>4, <2>1, PlacesKeptFrom
<1> QED BY <1>3, <1>4

LEMMA PlaceSaved ==
  ASSUME NEW r, IsState(r), r.ok, HeldHaveFailed(r.held, r.failed), NEW id, NEW at \in Int \X Int
  PROVE  LET c == UpdatePlayerState(r, id, at) IN
         NoneFailed(c.failed) =>
           /\ c.ok /\ DOMAIN c.players = DOMAIN r.players
           /\ \A j \in DOMAIN r.players :
                /\ c.players[j].name = r.players[j].name /\ c.players[j].world = r.players[j].world
                /\ c.players[j].at = IF j = id THEN at ELSE r.players[j].at
<1> DEFINE f == "UpdatePlayerState"
           values == <<id, at[1], at[2]>>
           c == UpdatePlayerState(r, id, at)
<1> SUFFICES ASSUME NoneFailed(c.failed)
             PROVE  /\ c.ok /\ DOMAIN c.players = DOMAIN r.players
                    /\ \A j \in DOMAIN r.players :
                         /\ c.players[j].name = r.players[j].name /\ c.players[j].world = r.players[j].world
                         /\ c.players[j].at = IF j = id THEN at ELSE r.players[j].at
  OBVIOUS
<1>1. f \in SqlFiles \ {"InsertPlayer", "UpdatePlayerLogin"} /\ Parameters[f][1] = 3
  BY DEF SqlFiles, Parameters
<1>2. f \notin c.failed
  BY DEF NoneFailed, PlaceFiles
<1>3. PICK p : /\ \A i \in 1..3 : p[i] = values[i]
               /\ Worked(r, c, f, 1, p) /\ (c.ok <=> Len(c.results) \in Nat)
  BY <1>1, <1>2, UnfailedCall DEF UpdatePlayerState
<1>4. p[1] = id /\ <<p[2], p[3]>> = at
  BY <1>3
<1>5. c.players = AtSet(r.players, id, at)
  <2> DEFINE there == <<p[2], p[3]>>
  <2>1. c.players = [r.players EXCEPT ![p[1]].at = there]
    BY <1>3 DEF Worked, PlayersAfter
  <2> HIDE DEF there, c
  <2> QED BY <1>4, <2>1 DEF AtSet, there
<1>6. c.results = << >>
  BY <1>3 DEF Worked, Selected
<1>7. c.ok
  BY <1>3, <1>6
<1> HIDE DEF c
<1>8. IsRows(r.players)
  BY DEF IsState
<1> QED BY <1>5, <1>7, <1>8, SetAt

LEMMA WorldRead ==
  ASSUME NEW r, IsState(r), r.ok, HeldHaveFailed(r.held, r.failed), NEW id
  PROVE  LET c == GetCurrentWorldByPlayerId(r, id) IN
         NoneFailed(c.failed) =>
           /\ c.ok /\ c.players = r.players
           /\ r.players[id].world # Null => Len(c.results) = 1 /\ c.results[1] = r.players[id].world
           /\ r.players[id].world = Null => c.results = NoRow
<1> DEFINE f == "GetCurrentWorld"
           values == <<id>>
           c == GetCurrentWorldByPlayerId(r, id)
<1> SUFFICES ASSUME NoneFailed(c.failed)
             PROVE  /\ c.ok /\ c.players = r.players
                    /\ r.players[id].world # Null => Len(c.results) = 1 /\ c.results[1] = r.players[id].world
                    /\ r.players[id].world = Null => c.results = NoRow
  OBVIOUS
<1>1. f \in SqlFiles \ {"InsertPlayer", "UpdatePlayerLogin"} /\ Parameters[f][1] = 1
  BY DEF SqlFiles, Parameters
<1>2. f \notin c.failed
  BY DEF NoneFailed, PlaceFiles
<1> HIDE DEF values
<1>3. PICK p : /\ \A i \in 1..Parameters[f][1] : p[i] = values[i]
               /\ Worked(r, c, f, 1, p) /\ (c.ok <=> Len(c.results) \in {0, 1})
  BY <1>1, <1>2, UnfailedCall DEF GetCurrentWorldByPlayerId, values
<1>4. p[1] = id
  BY <1>1, <1>3 DEF values
<1> DEFINE was == r.players[id].world
<1>5. c.players = r.players /\ c.results = Column(was)
  BY <1>3, <1>4 DEF Worked, PlayersAfter, Selected
<1> HIDE DEF c, was
<1>6. was # Null => Len(c.results) = 1 /\ c.results[1] = was
  BY <1>5 DEF Column
<1>7. was = Null => c.results = NoRow /\ Len(c.results) = 0
  BY <1>5 DEF Column, NoRow
<1>8. c.ok
  BY <1>3, <1>6, <1>7
<1> QED BY <1>5, <1>6, <1>7, <1>8 DEF was

LEMMA PlaceReadIn ==
  ASSUME NEW r, IsState(r), r.ok, HeldHaveFailed(r.held, r.failed), NEW id
  PROVE  LET c == GetPosByPlayerId(r, id) IN
         NoneFailed(c.failed) =>
           /\ c.players = r.players
           /\ r.players[id].at \in Int \X Int => c.ok /\ c.results = r.players[id].at
           /\ r.players[id].at = Null => ~c.ok
<1> DEFINE f == "GetPos"
           values == <<id>>
           c == GetPosByPlayerId(r, id)
<1> SUFFICES ASSUME NoneFailed(c.failed)
             PROVE  /\ c.players = r.players
                    /\ r.players[id].at \in Int \X Int => c.ok /\ c.results = r.players[id].at
                    /\ r.players[id].at = Null => ~c.ok
  OBVIOUS
<1>1. f \in SqlFiles \ {"InsertPlayer", "UpdatePlayerLogin"} /\ Parameters[f][1] = 1
  BY DEF SqlFiles, Parameters
<1>2. f \notin c.failed
  BY DEF NoneFailed, PlaceFiles
<1> HIDE DEF values
<1>3. PICK p : /\ \A i \in 1..Parameters[f][1] : p[i] = values[i]
               /\ Worked(r, c, f, 1, p) /\ (c.ok <=> Len(c.results) \in {2})
  BY <1>1, <1>2, UnfailedCall DEF GetPosByPlayerId, values
<1>4. p[1] = id
  BY <1>1, <1>3 DEF values
<1> DEFINE was == r.players[id].at
<1>5. c.players = r.players /\ c.results = IF was = Null THEN << >> ELSE was
  BY <1>3, <1>4 DEF Worked, PlayersAfter, Selected
<1> HIDE DEF c, was
<1>6. was \in Int \X Int => c.results = was /\ Len(c.results) = 2
  BY <1>5, PersistenceAssumption
<1>7. was = Null => Len(c.results) = 0
  BY <1>5
<1> QED BY <1>3, <1>5, <1>6, <1>7 DEF was

LEMMA CreatePlaces ==
  ASSUME NEW r, IsState(r), NEW entity, NEW id, NEW pick
  PROVE  PlacesKept(r, CreateCharacter(r, entity, id, pick).store)
<1> DEFINE read == LookRead(r, entity, id)
           look == LookOf(read, entity, id, pick)
           again == OkSet(read, r.ok)
           confirmed == Confirmed(r, read, id, look)
           store == CreateCharacter(r, entity, id, pick).store
           e == EntityOf(entity)
<1>1. store = Call(confirmed, CacheFile(entity), Pair(e, look), Nat)
  <2>1. store = CreatedFrom(r, read, entity, id, pick).store
    BY DEF CreateCharacter
  <2> HIDE DEF read, store
  <2> QED BY <2>1, CreatedParts DEF look, e, confirmed
<1>2. PlacesKept(r, read)
  <2>1. PlacesKept(r, GetPlayerAppearance(r, id))
    BY CallPlaces, TheFiles DEF GetPlayerAppearance
  <2>2. PlacesKept(r, GetEntityAppearance(r, entity))
    BY CallPlaces, TheFiles DEF GetEntityAppearance
  <2> QED BY <2>1, <2>2, PlacesKeptFrom DEF LookRead
<1> HIDE DEF read, look, store, e
<1>3. IsState(read) /\ r.ok \in BOOLEAN
  BY <1>2 DEF PlacesKept, Goes, IsState
<1>4. PlacesKept(read, again)
  BY <1>3, SetOk, SetOkGoesOn, SamePlacesFrom DEF GoesOn, PlacesKept
<1>5. confirmed = IF id > 0 THEN UpdatePlayerAppearanceDetails(again, id, look) ELSE read
  BY DEF Confirmed
<1> HIDE DEF again, confirmed
<1>6. IsState(again)
  BY <1>4 DEF PlacesKept, Goes
<1>7. PlacesKept(again, UpdatePlayerAppearanceDetails(again, id, look))
  BY <1>6, CallPlaces, TheFiles DEF UpdatePlayerAppearanceDetails
<1>8. PlacesKept(read, confirmed)
  BY <1>3, <1>4, <1>5, <1>7, PlacesKeptFrom, PlacesKeptFurther
<1>9. IsState(confirmed)
  BY <1>8 DEF PlacesKept, Goes
<1>10. PlacesKept(confirmed, store)
  BY <1>1, <1>9, CallPlaces, TheFiles DEF CacheFile
<1>11. PlacesKept(r, store)
  BY <1>2, <1>8, <1>10, PlacesKeptFurther
<1> QED BY <1>11 DEF store

\* A player's character is not created after a failure.
LEMMA CreatedOnlyIfOk ==
  ASSUME NEW r, IsState(r), ~r.ok, NEW entity, NEW id, id > 0, NEW pick
  PROVE  ~CreateCharacter(r, entity, id, pick).store.ok
<1> DEFINE look == LookOf(r, entity, id, pick)
           again == OkSet(r, r.ok)
           store == CreateCharacter(r, entity, id, pick).store
           e == EntityOf(entity)
<1>1. LookRead(r, entity, id) = r
  BY DEF LookRead, GetPlayerAppearance, Call
<1>2. store = CreatedFrom(r, r, entity, id, pick).store
  BY <1>1 DEF CreateCharacter
<1>3. Confirmed(r, r, id, look) = again
  <2>1. r.ok \in BOOLEAN
    BY DEF IsState
  <2>2. ~again.ok
    BY <2>1, SetOk
  <2> HIDE DEF look, again
  <2>3. UpdatePlayerAppearanceDetails(again, id, look) = again
    BY <2>2 DEF UpdatePlayerAppearanceDetails, Call
  <2> QED BY <2>3 DEF Confirmed, again
<1>4. store = Call(again, CacheFile(entity), Pair(e, look), Nat)
  <2> HIDE DEF store, again
  <2> QED BY <1>2, <1>3, CreatedParts DEF look, e
<1>5. ~again.ok
  <2>1. r.ok \in BOOLEAN
    BY DEF IsState
  <2> QED BY <2>1, SetOk
<1> HIDE DEF again, store, e, look
<1>6. store = again
  BY <1>4, <1>5 DEF Call
<1> QED BY <1>5, <1>6 DEF store

Character(entity, look, world, at) == [entity |-> entity, look |-> look, world |-> world, at |-> at]
InMetres(at) == <<Metres(at[1]), Metres(at[2])>>

LEMMA AddedCharacter ==
  ASSUME NEW r, NEW id, NEW w, NEW entity, NEW atSpawn, NEW pick
  PROVE  LET added == AddPlayer(r, id, w, entity, atSpawn, pick)
             pos == PlaceRead(UpdatePlayerCurrentWorld(r, id, w), id, atSpawn)
         IN  /\ added.store = CreateCharacter(pos, entity, id, pick).store
             /\ ~added.store.ok => added.character = Null
             /\ added.store.ok =>
                  \E e, look, at : /\ added.character = Character(e, look, w, at)
                                   /\ at = IF atSpawn THEN SpawnPoints[w] ELSE InMetres(pos.results)
<1> DEFINE added == AddPlayer(r, id, w, entity, atSpawn, pick)
           pos == PlaceRead(UpdatePlayerCurrentWorld(r, id, w), id, atSpawn)
           made == CreateCharacter(pos, entity, id, pick)
           at == IF atSpawn THEN SpawnPoints[w] ELSE InMetres(pos.results)
<1>1. added = CharacterAt(made, w, at)
  BY DEF AddPlayer, EnteredAt, InMetres
<1> HIDE DEF made, at
<1>2. added.store = made.store
  BY <1>1 DEF CharacterAt
<1>3. added.character = IF made.store.ok THEN Character(made.character.entity, made.character.look, w, at)
                                         ELSE Null
  BY <1>1 DEF CharacterAt, Character
<1> HIDE DEF added
<1>4. ~added.store.ok => added.character = Null
  BY <1>2, <1>3
<1>5. added.store.ok => \E e, look, there : /\ added.character = Character(e, look, w, there)
                                            /\ there = at
  BY <1>2, <1>3
<1> QED BY <1>2, <1>4, <1>5 DEF added, made, at

IsPlace(at) == at \in Int \X Int

\* Where a player comes to stand who was at the place was.
ComesTo(at, w, atSpawn, was) ==
  IF atSpawn THEN at = SpawnPoints[w] ELSE IsPlace(was) /\ at = InMetres(was)

LEMMA AddPlaces ==
  ASSUME NEW r, IsState(r), r.ok, HeldHaveFailed(r.held, r.failed), NEW id \in DOMAIN r.players,
         NEW w, w # Null, NEW entity, NEW atSpawn, NEW pick,
         r.players[id].at = Null \/ IsPlace(r.players[id].at)
  PROVE  LET added == AddPlayer(r, id, w, entity, atSpawn, pick) IN
         /\ PlacesKept(r, added.store)
         /\ NoneFailed(added.store.failed) =>
              /\ added.store.players[id].world # Null
              /\ \/ added.character = Null
                 \/ \E e, look, at : /\ added.character = Character(e, look, w, at)
                                     /\ ComesTo(at, w, atSpawn, r.players[id].at)
<1> DEFINE saved == UpdatePlayerCurrentWorld(r, id, w)
           pos == PlaceRead(saved, id, atSpawn)
           made == CreateCharacter(pos, entity, id, pick)
           added == AddPlayer(r, id, w, entity, atSpawn, pick)
           was == r.players[id].at
<1>1. /\ added.store = made.store
      /\ ~added.store.ok => added.character = Null
      /\ added.store.ok =>
           \E e, look, at : /\ added.character = Character(e, look, w, at)
                            /\ at = IF atSpawn THEN SpawnPoints[w] ELSE InMetres(pos.results)
  BY AddedCharacter
<1>2. /\ PlacesKept(r, saved)
      /\ NoneFailed(saved.failed) => saved.ok /\ saved.players[id].world = w
  BY WorldSaved
<1> HIDE DEF saved, added
<1>3. IsState(saved) /\ HeldHaveFailed(saved.held, saved.failed)
  BY <1>2 DEF PlacesKept, Goes
<1>4. PlacesKept(saved, GetPosByPlayerId(saved, id))
  BY <1>3, CallPlaces, TheFiles DEF GetPosByPlayerId
<1>5. PlacesKept(saved, pos)
  BY <1>3, <1>4, PlacesKeptFrom DEF PlaceRead
<1>6. ASSUME NoneFailed(pos.failed), ~atSpawn
      PROVE  /\ was \in Int \X Int => pos.ok /\ pos.results = was
             /\ was = Null => ~pos.ok
  <2>1. pos = GetPosByPlayerId(saved, id)
    BY <1>6 DEF PlaceRead
  <2> HIDE DEF pos
  <2>2. NoneFailed(saved.failed)
    BY <1>5, <1>6 DEF PlacesKept, Goes, NoneFailed
  <2>3. saved.ok /\ saved.players[id].at = was
    BY <1>2, <2>2 DEF PlacesKept, SamePlaces
  <2> HIDE DEF was
  <2> QED BY <1>3, <1>6, <2>1, <2>3, PlaceReadIn
<1> HIDE DEF pos
<1>7. IsState(pos)
  BY <1>5 DEF PlacesKept, Goes
<1>8. PlacesKept(pos, made.store)
  BY <1>7, CreatePlaces
<1>9. id > 0
  <2>1. IsRows(r.players)
    BY DEF IsState
  <2> QED BY <2>1, RowsAreSequence
<1>10. ~pos.ok => ~made.store.ok
  BY <1>7, <1>9, CreatedOnlyIfOk
<1> HIDE DEF made
<1>11. PlacesKept(r, added.store)
  BY <1>1, <1>2, <1>5, <1>8, PlacesKeptFurther
<1>12. ASSUME NoneFailed(added.store.failed)
       PROVE  /\ added.store.players[id].world # Null
              /\ \/ added.character = Null
                 \/ \E e, look, at : /\ added.character = Character(e, look, w, at)
                                     /\ ComesTo(at, w, atSpawn, was)
  <2>1. NoneFailed(pos.failed) /\ NoneFailed(saved.failed)
    BY <1>1, <1>5, <1>8, <1>12 DEF PlacesKept, Goes, NoneFailed
  <2>2. added.store.players[id].world # Null
    <3>1. id \in DOMAIN saved.players /\ saved.players[id].world # Null
      BY <1>2, <2>1 DEF PlacesKept, SamePlaces
    <3>2. id \in DOMAIN pos.players /\ pos.players[id].world # Null
      BY <1>5, <2>1, <3>1 DEF PlacesKept, SamePlaces
    <3> QED BY <1>1, <1>8, <1>12, <3>2 DEF PlacesKept, SamePlaces
  <2>3. CASE ~added.store.ok
    BY <1>1, <2>2, <2>3
  <2>4. CASE added.store.ok
    <3>1. PICK e, look, at : /\ added.character = Character(e, look, w, at)
                             /\ at = IF atSpawn THEN SpawnPoints[w] ELSE InMetres(pos.results)
      BY <1>1, <2>4
    <3>2. pos.ok
      BY <1>1, <1>10, <2>4
    <3>3. ~atSpawn => IsPlace(was) /\ at = InMetres(was)
      BY <1>6, <2>1, <3>1, <3>2 DEF IsPlace
    <3>4. ComesTo(at, w, atSpawn, was)
      BY <3>1, <3>3 DEF ComesTo
    <3> QED BY <2>2, <3>1, <3>4
  <2> QED BY <2>3, <2>4
<1> QED BY <1>11, <1>12 DEF added, was

Placed(rows) == \A i \in DOMAIN rows : rows[i].at = Null \/ IsPlace(rows[i].at)

\* A player who was seen has a row, with a world and the place of the last save.
Seen(rows, seen) ==
  \A u \in Playing : seen[u] # Null =>
    /\ IsPlace(seen[u].at)
    /\ \E i \in DOMAIN rows : rows[i].name = u /\ rows[i].world # Null /\ rows[i].at = seen[u].at

InWorld(character) ==
  \E e, look, w, at : IsPlace(at) /\ character = Character(e, look, w, at)

\* A player with a character has a row with a world.
Standing(rows, of) ==
  \A u \in UserNames : of[u].character # Null =>
    /\ of[u].id \in DOMAIN rows /\ rows[of[u].id].world # Null
    /\ InWorld(of[u].character)

PlaceInv ==
  LookInv /\ (NoneFailed(failed) =>
                Placed(players) /\ Seen(players, lastSeen) /\ Standing(players, sessions))

PlacesHold ==
  NoneFailed(failed') => Placed(players') /\ Seen(players', lastSeen') /\ Standing(players', sessions')

EntersWhereSaved ==
  NoneFailed(failed') =>
    \A u \in Playing :
      Enters(u) /\ sessions'[u].character.world = lastSeen[u].world =>
        \A i \in {1, 2} :
          lastSeen[u].at[i] - sessions'[u].character.at[i] \in 0..UnitsPerMetre-1

LEMMA PlacesStay ==
  ASSUME NEW rows, NEW after, SamePlaces(rows, after), NEW seen, NEW of,
         Placed(rows), Seen(rows, seen), Standing(rows, of)
  PROVE  Placed(after) /\ Seen(after, seen) /\ Standing(after, of)
<1>1. Placed(after)
  BY DEF SamePlaces, Placed
<1>2. Seen(after, seen)
  BY DEF SamePlaces, Seen
<1>3. Standing(after, of)
  BY DEF SamePlaces, Standing
<1> QED BY <1>1, <1>2, <1>3

LEMMA NobodyEnters ==
  ASSUME \A u \in UserNames : sessions'[u].character # Null => sessions[u].character # Null
  PROVE  EntersWhereSaved
BY PersistenceAssumption DEF EntersWhereSaved, Enters

\* All handlers but the saving one, if the characters are the same.
LEMMA PlacesCommitted ==
  ASSUME PlaceInv, NEW fault, NEW q, PlacesKept(Begin(fault), q), Commit(q), lastSeen' = lastSeen
  PROVE  NoneFailed(failed') =>
           Placed(players') /\ Seen(players', lastSeen') /\ Standing(players', sessions)
<1> DEFINE r == Begin(fault)
<1>1. Begun(r, fault)
  BY BeginState DEF PlaceInv, LookInv, RowInv
<1> HIDE DEF r
<1>2. PlacesKept(r, q)
  BY DEF r
<1>3. ASSUME NoneFailed(failed')
      PROVE  NoneFailed(failed) /\ SamePlaces(players, players')
  BY <1>1, <1>2, <1>3 DEF Begun, PlacesKept, Goes, Commit, NoneFailed
<1> QED BY <1>3, PlacesStay DEF PlaceInv

\* The characters are the same, or gone.
LEMMA StandingStill ==
  ASSUME NEW rows, NEW of, NEW now, Standing(rows, of),
         \A u \in UserNames : \/ now[u].character = Null
                              \/ now[u].id = of[u].id /\ now[u].character = of[u].character
  PROVE  Standing(rows, now)
BY DEF Standing

LEMMA PlacesUntouched ==
  ASSUME PlaceInv, players' = players, failed' = failed, lastSeen' = lastSeen,
         \A u \in UserNames : \/ sessions'[u].character = Null
                              \/ /\ sessions'[u].id = sessions[u].id
                                 /\ sessions'[u].character = sessions[u].character
  PROVE  PlacesHold /\ EntersWhereSaved
<1>1. EntersWhereSaved
  BY NobodyEnters
<1> QED BY <1>1, StandingStill DEF PlaceInv, PlacesHold

\* A handler that saves no place and leaves the characters as they are.
LEMMA PlacesCommittedStill ==
  ASSUME PlaceInv, NEW fault, NEW q, PlacesKept(Begin(fault), q), Commit(q), lastSeen' = lastSeen,
         \A u \in UserNames : \/ sessions'[u].character = Null
                              \/ /\ sessions'[u].id = sessions[u].id
                                 /\ sessions'[u].character = sessions[u].character
  PROVE  PlacesHold /\ EntersWhereSaved
<1>1. EntersWhereSaved
  BY NobodyEnters
<1> QED BY <1>1, PlacesCommitted, StandingStill DEF PlacesHold

LEMMA PosTestUdp ==
  ASSUME PlaceInv, NEW u \in UserNames, NEW pick, HandleTestUdp(u, pick)
  PROVE  PlacesHold /\ EntersWhereSaved
<1> DEFINE Current(f) == GetCurrentWorldByPlayerId(Begin(f), sessions[u].id)
           New(f) == Current(f).results = << >>
           World(f) == IF New(f) THEN StartingWorld ELSE Current(f).results[1]
           Added(f) == AddPlayer(Current(f), sessions[u].id, World(f), 0, New(f), pick)
<1>1. PICK fault : /\ Commit(IF Current(fault).ok THEN Added(fault).store ELSE Current(fault))
                   /\ sessions' = [sessions EXCEPT ![u].udp = TRUE,
                          ![u].character = IF Current(fault).ok THEN Added(fault).character ELSE Null]
  BY DEF HandleTestUdp
<1>2. lastSeen' = lastSeen /\ sessions[u].id # 0
  BY DEF HandleTestUdp
<1> SUFFICES ASSUME NoneFailed(failed')
             PROVE  /\ Placed(players') /\ Seen(players', lastSeen') /\ Standing(players', sessions')
                    /\ EntersWhereSaved
  BY DEF PlacesHold, EntersWhereSaved
<1> DEFINE r == Begin(fault)
           id == sessions[u].id
           current == Current(fault)
           isNew == New(fault)
           w == World(fault)
           added == Added(fault)
           q == IF current.ok THEN added.store ELSE current
           character == IF current.ok THEN added.character ELSE Null
<1>3. Commit(q) /\ sessions' = EnteredSet(sessions, u, character)
  BY <1>1 DEF EnteredSet, Yes
<1>4. Begun(r, fault) /\ HeldHaveFailed(r.held, r.failed) /\ id \in DOMAIN players
  BY <1>2, BeginLooks, IdsHaveRows DEF PlaceInv, LookInv
<1>5. /\ current = GetCurrentWorldByPlayerId(r, id) /\ added = AddPlayer(current, id, w, 0, isNew, pick)
      /\ isNew <=> current.results = NoRow
      /\ w = IF isNew THEN StartingWorld ELSE current.results[1]
  BY DEF NoRow
<1> HIDE DEF r, current, isNew, w, added, character
<1>6. IsState(r) /\ GoesOn(r, current)
  BY <1>4, <1>5, CallGoesOn, TheFiles DEF GetCurrentWorldByPlayerId, Begun
<1>7. GoesOn(current, added.store)
  <2>1. IsState(current)
    BY <1>6 DEF GoesOn, Goes
  <2> HIDE DEF id
  <2> QED BY <1>5, <2>1, AddGoesOn
<1>8. NoneFailed(q.failed) /\ NoneFailed(current.failed) /\ NoneFailed(failed)
  <2>1. failed' = q.failed /\ failed = r.failed
    BY <1>3, <1>4 DEF Commit, Begun
  <2> QED BY <1>6, <1>7, <2>1 DEF GoesOn, Goes, NoneFailed
<1>9. Placed(players) /\ Seen(players, lastSeen) /\ Standing(players, sessions)
  BY <1>8 DEF PlaceInv
<1> DEFINE row == players[id]
<1>10. /\ current.ok /\ current.players = players
       /\ row.world # Null => Len(current.results) = 1 /\ current.results[1] = row.world
       /\ row.world = Null => current.results = NoRow
  <2> HIDE DEF id
  <2> QED BY <1>4, <1>5, <1>6, <1>8, WorldRead DEF Begun
<1>11. /\ w # Null /\ (isNew => IsPlace(SpawnPoints[w])) /\ (row.world # Null => ~isNew)
  <2>1. Len(NoRow) = 0
    BY DEF NoRow
  <2>2. StartingWorld # Null /\ IsPlace(SpawnPoints[StartingWorld])
    BY PersistenceAssumption DEF IsPlace
  <2> HIDE DEF id, row
  <2> QED BY <1>5, <1>10, <2>1, <2>2
<1>12. row.at = Null \/ IsPlace(row.at)
  BY <1>4, <1>9 DEF Placed
<1>13. /\ PlacesKept(current, added.store)
       /\ added.store.players[id].world # Null
       /\ \/ added.character = Null
          \/ \E e, look, at : /\ added.character = Character(e, look, w, at)
                              /\ ComesTo(at, w, isNew, row.at)
  <2>1. HeldHaveFailed(current.held, current.failed) /\ IsState(current)
    BY <1>4, <1>6 DEF GoesOn, Goes
  <2>2. q = added.store
    BY <1>10
  <2>3. current.players[id].at = Null \/ IsPlace(current.players[id].at)
    BY <1>10, <1>12
  <2>4. id \in DOMAIN current.players
    BY <1>4, <1>10
  <2>5. NoneFailed(added.store.failed) /\ w # Null /\ current.ok
    BY <1>8, <1>10, <1>11, <2>2
  <2>6. current.players[id].at = row.at
    BY <1>10
  <2> HIDE DEF id, q, row
  <2> QED BY <1>5, <2>1, <2>3, <2>4, <2>5, <2>6, AddPlaces
<1>14. SamePlaces(players, players') /\ players' = added.store.players
  BY <1>3, <1>8, <1>10, <1>13 DEF PlacesKept, Commit
<1>15. Placed(players') /\ Seen(players', lastSeen') /\ Standing(players', sessions)
  BY <1>2, <1>9, <1>14, PlacesStay
<1>16. /\ OthersKept(sessions, sessions', u) /\ sessions'[u].id = id
       /\ sessions'[u].character = added.character
  BY <1>3, <1>10, SessionSets DEF PlaceInv, LookInv, RowInv, Shapes, character
<1>17. CASE added.character = Null
  <2>1. \A v \in UserNames : sessions'[v].character = Null \/ sessions'[v] = sessions[v]
    BY <1>16, <1>17 DEF OthersKept
  <2>2. EntersWhereSaved
    BY <2>1, NobodyEnters
  <2> QED BY <1>15, <2>1, <2>2, StandingStill
<1>18. CASE added.character # Null
  <2>1. PICK e, look, at :
               added.character = Character(e, look, w, at) /\ ComesTo(at, w, isNew, row.at)
    BY <1>13, <1>18
  <2>2. IsPlace(at)
    <3>1. \A x : IsPlace(x) => IsPlace(InMetres(x))
      BY MetresBelow DEF IsPlace, InMetres
    <3> QED BY <1>11, <2>1, <3>1 DEF ComesTo
  <2>3. InWorld(added.character)
    BY <2>1, <2>2 DEF InWorld
  <2>4. id \in DOMAIN players' /\ players'[id].world # Null
    BY <1>4, <1>13, <1>14 DEF SamePlaces
  <2>5. Standing(players', sessions')
    BY <1>15, <1>16, <2>3, <2>4 DEF Standing, OthersKept
  <2>6. ASSUME u \in Playing, lastSeen[u] # Null
        PROVE  \A i \in {1, 2} : lastSeen[u].at[i] - at[i] \in 0..UnitsPerMetre-1
    <3>1. PICK i \in DOMAIN players : players[i].name = u /\ players[i].world # Null /\ players[i].at = lastSeen[u].at
      BY <1>9, <2>6 DEF Seen
    <3>2. i = id
      <4>1. row.name = u /\ UniqueNames(players)
        BY <1>2, <1>8 DEF PlaceInv, LookInv, RowInv, OwnRows, NamesOnce, NoneFailed, LoginFiles, IdFiles
      <4> QED BY <1>4, <3>1, <4>1 DEF UniqueNames
    <3>3. IsPlace(row.at) /\ at = InMetres(row.at)
      BY <1>11, <2>1, <3>1, <3>2 DEF ComesTo
    <3> DEFINE saved == row.at
    <3> HIDE DEF row
    <3>4. saved[1] \in Int /\ saved[2] \in Int /\ at[1] = Metres(saved[1]) /\ at[2] = Metres(saved[2])
      BY <3>3 DEF IsPlace, InMetres
    <3> HIDE DEF saved
    <3>5. \A axis \in {1, 2} : saved[axis] - at[axis] \in 0..UnitsPerMetre-1
      BY <3>4, MetresBelow
    <3> QED BY <3>1, <3>2, <3>5 DEF saved, row
  <2>7. sessions'[u].character.at = at
    BY <1>16, <2>1 DEF Character
  <2>8. \A v \in UserNames : v # u => ~Enters(v)
    BY <1>16 DEF OthersKept, Enters
  <2>9. EntersWhereSaved
    BY <2>6, <2>7, <2>8, PersistenceAssumption DEF EntersWhereSaved, Enters
  <2> QED BY <1>15, <2>5, <2>9
<1> QED BY <1>17, <1>18

LEMMA PosTransfer ==
  ASSUME PlaceInv, NEW u \in UserNames, NEW w \in DOMAIN SpawnPoints, NEW pick,
         TransferPlayerToWorld(u, w, pick)
  PROVE  PlacesHold /\ EntersWhereSaved
<1> DEFINE Added(f) == AddPlayer(Begin(f), sessions[u].id, w, sessions[u].character.entity, TRUE, pick)
<1>1. PICK fault : Commit(Added(fault).store) /\ sessions' = [sessions EXCEPT ![u].character = Added(fault).character]
  BY DEF TransferPlayerToWorld
<1>2. lastSeen' = lastSeen /\ sessions[u].character # Null
  BY DEF TransferPlayerToWorld
<1> DEFINE r == Begin(fault)
           id == sessions[u].id
           entity == sessions[u].character.entity
           added == Added(fault)
           q == added.store
           character == added.character
<1>3. Commit(q) /\ sessions' = CharacterSet(sessions, u, character) /\ added = AddPlayer(r, id, w, entity, Yes, pick)
  BY <1>1 DEF CharacterSet, Yes
<1>4. Begun(r, fault) /\ HeldHaveFailed(r.held, r.failed) /\ id \in DOMAIN players
  BY <1>2, BeginLooks, IdsHaveRows DEF PlaceInv, LookInv, PlayersHaveIds
<1> HIDE DEF r, entity, added
<1>5. OthersKept(sessions, sessions', u) /\ sessions'[u].id = id /\ sessions'[u].character = character
  BY <1>3, SessionSets DEF PlaceInv, LookInv, RowInv, Shapes
<1>6. EntersWhereSaved
  <2>1. \A v \in UserNames : sessions'[v].character # Null => sessions[v].character # Null
    BY <1>2, <1>5 DEF OthersKept
  <2> QED BY <2>1, NobodyEnters
<1>7. ASSUME NoneFailed(failed')
      PROVE  Placed(players') /\ Seen(players', lastSeen') /\ Standing(players', sessions')
  <2>1. GoesOn(r, q)
    <3> HIDE DEF id
    <3> QED BY <1>3, <1>4, AddGoesOn DEF Begun
  <2>2. NoneFailed(q.failed) /\ NoneFailed(failed)
    BY <1>3, <1>4, <1>7, <2>1 DEF Commit, Begun, GoesOn, Goes, NoneFailed
  <2>3. Placed(players) /\ Seen(players, lastSeen) /\ Standing(players, sessions)
    BY <2>2 DEF PlaceInv
  <2>4. w # Null /\ IsPlace(SpawnPoints[w])
    BY PersistenceAssumption DEF IsPlace
  <2>5. /\ PlacesKept(r, q) /\ q.players[id].world # Null
        /\ \/ character = Null
           \/ \E e, look, at : /\ character = Character(e, look, w, at)
                               /\ ComesTo(at, w, Yes, r.players[id].at)
    <3>1. r.players[id].at = Null \/ IsPlace(r.players[id].at)
      BY <1>4, <2>3 DEF Begun, Placed
    <3> HIDE DEF id
    <3> QED BY <1>3, <1>4, <2>2, <2>4, <3>1, AddPlaces DEF Begun
  <2>6. SamePlaces(players, players') /\ players' = q.players
    BY <1>3, <1>4, <2>2, <2>5 DEF PlacesKept, Commit, Begun
  <2>7. Placed(players') /\ Seen(players', lastSeen') /\ Standing(players', sessions)
    BY <1>2, <2>3, <2>6, PlacesStay
  <2>8. character = Null \/ InWorld(character)
    BY <2>4, <2>5 DEF InWorld, ComesTo, Yes
  <2>9. id \in DOMAIN players' /\ players'[id].world # Null
    BY <1>4, <2>5, <2>6 DEF SamePlaces
  <2>10. Standing(players', sessions')
    BY <1>5, <2>7, <2>8, <2>9 DEF Standing, OthersKept
  <2> QED BY <2>7, <2>10
<1> QED BY <1>6, <1>7 DEF PlacesHold

LEMMA PosPersist ==
  ASSUME PlaceInv, NEW u \in UserNames, PersistPlayerState(u)
  PROVE  PlacesHold /\ EntersWhereSaved
<1> DEFINE c == sessions[u].character
           id == sessions[u].id
           Saved(f) == UpdatePlayerState(Begin(f), id, c.at)
<1>1. PICK fault : /\ Commit(Saved(fault))
                   /\ lastSeen' = [v \in Playing |-> IF Saved(fault).ok /\ v = u
                                                     THEN [world |-> c.world, at |-> c.at] ELSE lastSeen[v]]
  BY DEF PersistPlayerState
<1>2. c # Null /\ sessions' = sessions
  BY DEF PersistPlayerState
<1>3. EntersWhereSaved
  BY <1>2, NobodyEnters
<1> DEFINE r == Begin(fault)
           q == Saved(fault)
<1>4. /\ Begun(r, fault) /\ HeldHaveFailed(r.held, r.failed)
      /\ id \in DOMAIN players /\ id # 0
  BY <1>2, BeginLooks, IdsHaveRows DEF PlaceInv, LookInv, PlayersHaveIds
<1>5. Commit(q) /\ q = UpdatePlayerState(r, id, c.at)
  BY <1>1
<1> HIDE DEF r
<1>6. GoesOn(r, q)
  <2> DEFINE values == <<id, c.at[1], c.at[2]>>
  <2>1. q = Call(r, "UpdatePlayerState", values, Nat)
    BY <1>5 DEF UpdatePlayerState
  <2> HIDE DEF q, values
  <2> QED BY <1>4, <2>1, CallGoesOn, TheFiles DEF Begun
<1>7. ASSUME NoneFailed(failed')
      PROVE  Placed(players') /\ Seen(players', lastSeen') /\ Standing(players', sessions')
  <2>1. NoneFailed(q.failed) /\ NoneFailed(failed)
    <3> HIDE DEF q
    <3> QED BY <1>4, <1>5, <1>6, <1>7 DEF Commit, Begun, GoesOn, Goes, NoneFailed
  <2>2. Placed(players) /\ Seen(players, lastSeen) /\ Standing(players, sessions)
    BY <2>1 DEF PlaceInv
  <2>3. PICK e, look, w, at : IsPlace(at) /\ c = Character(e, look, w, at)
    BY <1>2, <2>2 DEF Standing, InWorld
  <2>4. c.at = at
    BY <2>3 DEF Character
  <2>5. /\ q.ok /\ players' = q.players /\ DOMAIN players' = DOMAIN players
        /\ \A j \in DOMAIN players :
             /\ players'[j].name = players[j].name /\ players'[j].world = players[j].world
             /\ players'[j].at = IF j = id THEN at ELSE players[j].at
    <3>1. q = UpdatePlayerState(r, id, at) /\ at \in Int \X Int /\ players' = q.players
      BY <1>5, <2>3, <2>4 DEF IsPlace, Commit
    <3> HIDE DEF q, id, c
    <3> QED BY <1>4, <2>1, <3>1, PlaceSaved DEF Begun
  <2> DEFINE seen == [world |-> c.world, at |-> c.at]
  <2>6. \A v \in Playing : lastSeen'[v] = IF v = u THEN seen ELSE lastSeen[v]
    BY <1>1, <2>5
  <2> HIDE DEF q
  <2>7. Placed(players')
    BY <2>2, <2>3, <2>5 DEF Placed
  <2>8. Standing(players', sessions')
    BY <1>2, <2>2, <2>5 DEF Standing
  <2>9. ASSUME NEW v \in Playing, lastSeen'[v] # Null
        PROVE  /\ IsPlace(lastSeen'[v].at)
               /\ \E i \in DOMAIN players' : /\ players'[i].name = v /\ players'[i].world # Null
                                             /\ players'[i].at = lastSeen'[v].at
    <3>1. players[id].name = u /\ players[id].world # Null
      <4>1. failed \cap IdFiles = {}
        BY <2>1 DEF NoneFailed, LoginFiles, IdFiles
      <4> QED BY <1>2, <1>4, <2>2, <4>1 DEF PlaceInv, LookInv, RowInv, OwnRows, Standing
    <3>2. CASE v = u
      <4>1. lastSeen'[v] = seen
        BY <2>6, <3>2
      <4>2. lastSeen'[v].at = at
        BY <2>4, <4>1
      <4> HIDE DEF seen, id, c
      <4> QED BY <1>4, <2>3, <2>5, <3>1, <3>2, <4>2
    <3>3. CASE v # u
      <4>1. lastSeen'[v] = lastSeen[v]
        BY <2>6, <3>3
      <4>2. PICK i \in DOMAIN players : /\ players[i].name = v /\ players[i].world # Null
                                        /\ players[i].at = lastSeen[v].at
        BY <2>2, <2>9, <4>1 DEF Seen
      <4>3. i # id
        BY <3>1, <3>3, <4>2
      <4>4. IsPlace(lastSeen[v].at)
        BY <2>2, <2>9, <4>1 DEF Seen
      <4> QED BY <2>5, <4>1, <4>2, <4>3, <4>4
    <3> QED BY <3>2, <3>3
  <2>10. Seen(players', lastSeen')
    BY <2>9 DEF Seen
  <2> QED BY <2>7, <2>8, <2>10
<1> QED BY <1>3, <1>7 DEF PlacesHold

LEMMA PosNext ==
  ASSUME PlaceInv, [PersistenceNext]_persistenceVars
  PROVE  PlacesHold /\ EntersWhereSaved
<1> DEFINE Goal == PlacesHold /\ EntersWhereSaved
<1>1. IsSessions(sessions)
  BY DEF PlaceInv, LookInv, RowInv, Shapes
<1>2. CASE UNCHANGED persistenceVars
  BY <1>2, PlacesUntouched DEF persistenceVars
<1>3. CASE Restart
  <2>1. \A u \in UserNames : sessions'[u].character = Null
    BY <1>3 DEF Restart, NoSession
  <2> QED BY <1>3, <2>1, PlacesUntouched DEF Restart
<1>4. ASSUME NEW pick, AddCharacter(pick)
      PROVE  Goal
  <2>1. PICK fault : Commit(CreateCharacter(Begin(fault), 0, 0, pick).store)
    BY <1>4 DEF AddCharacter
  <2> DEFINE r == Begin(fault)
             q == CreateCharacter(r, 0, 0, pick).store
  <2>2. IsState(r)
    BY BeginLooks DEF PlaceInv
  <2>3. PlacesKept(r, q)
    <3> HIDE DEF r
    <3> QED BY <2>2, CreatePlaces
  <2>4. Commit(q) /\ sessions' = sessions /\ lastSeen' = lastSeen
    BY <1>4, <2>1 DEF AddCharacter
  <2> HIDE DEF q
  <2> QED BY <2>3, <2>4, PlacesCommittedStill
<1>5. ASSUME NEW pick, TransferCharacterToWorld(pick)
      PROVE  Goal
  <2> DEFINE Saved(f) == UpdateEntityAppearance(Begin(f), npc.entity, npc.look, FALSE)
  <2>1. PICK fault : Commit(CreateCharacter(Saved(fault), npc.entity, 0, pick).store)
    BY <1>5 DEF TransferCharacterToWorld
  <2> DEFINE r == Begin(fault)
             saved == Saved(fault)
             q == CreateCharacter(saved, npc.entity, 0, pick).store
  <2>2. IsState(r)
    BY BeginLooks DEF PlaceInv
  <2>3. PlacesKept(r, saved)
    <3> DEFINE values == <<npc.entity, npc.look>>
    <3>1. saved = Call(r, "CacheUpdate", values, Nat)
      BY DEF UpdateEntityAppearance
    <3> HIDE DEF r, saved, values
    <3> QED BY <2>2, <3>1, CallPlaces, TheFiles
  <2>4. PlacesKept(saved, q)
    <3> HIDE DEF saved
    <3>1. IsState(saved)
      BY <2>3 DEF PlacesKept, Goes
    <3> DEFINE entity == npc.entity
    <3> HIDE DEF entity
    <3>2. PlacesKept(saved, CreateCharacter(saved, entity, 0, pick).store)
      BY <3>1, CreatePlaces
    <3> QED BY <3>2 DEF entity
  <2>5. Commit(q) /\ sessions' = sessions /\ lastSeen' = lastSeen
    BY <1>5, <2>1 DEF TransferCharacterToWorld
  <2> HIDE DEF saved, q
  <2>6. PlacesKept(r, q)
    <3> HIDE DEF r
    <3> QED BY <2>3, <2>4, PlacesKeptFurther
  <2> QED BY <2>5, <2>6, PlacesCommittedStill
<1>6. ASSUME NEW u \in UserNames, HandleRequestHashedPassword(u)
      PROVE  Goal
  <2>1. PICK fault : Commit(GetHashedPassword(Begin(fault), u))
    BY <1>6 DEF HandleRequestHashedPassword
  <2> DEFINE r == Begin(fault)
             q == GetHashedPassword(r, u)
  <2>2. IsState(r)
    BY BeginLooks DEF PlaceInv
  <2>3. PlacesKept(r, q)
    <3> HIDE DEF r
    <3> QED BY <2>2, CallPlaces, TheFiles DEF GetHashedPassword
  <2>4. Commit(q) /\ sessions' = sessions /\ lastSeen' = lastSeen
    BY <1>6, <2>1 DEF HandleRequestHashedPassword
  <2> HIDE DEF q
  <2> QED BY <2>3, <2>4, PlacesCommittedStill
<1>7. ASSUME NEW u \in UserNames, HandlePlayerAuthenticate(u)
      PROVE  Goal
  <2>1. PICK fault : /\ Commit(GetPlayerLoadDetails(IdAtLogin(Begin(fault), u), IdAtLogin(Begin(fault), u).results[1]))
                     /\ sessions' = IF GetPlayerLoadDetails(IdAtLogin(Begin(fault), u), IdAtLogin(Begin(fault), u).results[1]).ok
                                    THEN [sessions EXCEPT ![u].id = IdAtLogin(Begin(fault), u).results[1]] ELSE sessions
    BY <1>7 DEF HandlePlayerAuthenticate
  <2> DEFINE r == Begin(fault)
             found == GetPlayerIdByUserName(r, u)
             saved == IdAtLogin(r, u)
             id == saved.results[1]
             q == GetPlayerLoadDetails(saved, id)
  <2>2. Commit(q) /\ sessions' = IF q.ok THEN IdSet(sessions, u, id) ELSE sessions
    BY <2>1 DEF IdSet
  <2>3. Begun(r, fault) /\ IsState(r)
    BY BeginLooks DEF PlaceInv
  <2>4. PlacesKept(r, found)
    <3> HIDE DEF r
    <3> QED BY <2>3, CallPlaces, TheFiles DEF GetPlayerIdByUserName
  <2>5. PlacesKept(found, saved)
    <3>1. saved = IF found.results = << >> THEN InsertPlayer(found, u) ELSE UpdatePlayerLogin(found, u)
      BY DEF IdAtLogin
    <3> HIDE DEF found, saved
    <3>2. IsState(found)
      BY <2>4 DEF PlacesKept, Goes
    <3>3. PlacesKept(found, InsertPlayer(found, u)) /\ PlacesKept(found, UpdatePlayerLogin(found, u))
      BY <3>2, CallPlaces, TheFiles DEF InsertPlayer, UpdatePlayerLogin
    <3> QED BY <3>1, <3>3
  <2>6. q.ok => id \in DOMAIN saved.players
    <3>1. q.ok => saved.ok
      BY DEF GetPlayerLoadDetails, Call
    <3>2. saved.ok => id \in DOMAIN saved.players
      <4> HIDE DEF r
      <4> QED BY <2>3, LoginGoes DEF Begun, PlaceInv, LookInv, RowInv
    <3> QED BY <3>1, <3>2
  <2>7. PlacesKept(saved, q)
    <3> HIDE DEF saved, id
    <3>1. IsState(saved)
      BY <2>5 DEF PlacesKept, Goes
    <3> QED BY <3>1, CallPlaces, TheFiles DEF GetPlayerLoadDetails
  <2> HIDE DEF r, found, saved, id, q
  <2>8. PlacesKept(r, q)
    BY <2>4, <2>5, <2>7, PlacesKeptFurther
  <2>9. sessions[u].id = 0 /\ sessions[u].character = Null
    BY <1>7 DEF HandlePlayerAuthenticate, PlaceInv, LookInv, PlayersHaveIds
  <2>10. \A v \in UserNames : sessions'[v].character = Null \/ sessions'[v] = sessions[v]
    <3>1. q.ok => id \in Nat
      <4>1. IsRows(saved.players)
        BY <2>5 DEF PlacesKept, Goes, IsState
      <4> QED BY <2>6, <4>1, RowsAreSequence
    <3> QED BY <1>1, <2>2, <2>9, <3>1, SessionSets DEF OthersKept
  <2>11. lastSeen' = lastSeen
    BY <1>7 DEF HandlePlayerAuthenticate
  <2>12. PlacesKept(Begin(fault), q)
    BY <2>8 DEF r
  <2> QED BY <2>2, <2>10, <2>11, <2>12, PlacesCommittedStill
<1>8. ASSUME NEW u \in UserNames, RemovePlayer(u)
      PROVE  Goal
  <2>1. \A v \in UserNames : sessions'[v] = IF v = u THEN NoSession ELSE sessions[v]
    BY <1>1, <1>8 DEF RemovePlayer, IsSessions
  <2>2. \A v \in UserNames : sessions'[v].character = Null \/ sessions'[v] = sessions[v]
    BY <2>1 DEF NoSession
  <2> QED BY <1>8, <2>2, PlacesUntouched DEF RemovePlayer
<1>9. ASSUME NEW u \in UserNames, NEW at \in Spots, Walk(u, at)
      PROVE  Goal
  <2> DEFINE character == [sessions[u].character EXCEPT !.at = at]
  <2>1. sessions' = CharacterSet(sessions, u, character) /\ sessions[u].character # Null
    BY <1>1, <1>9 DEF Walk, CharacterSet, IsSessions
  <2>2. InWorld(sessions[u].character) => InWorld(character)
    <3>1. IsPlace(at)
      BY PersistenceAssumption DEF IsPlace
    <3>2. \A e, look, w, was : [Character(e, look, w, was) EXCEPT !.at = at] = Character(e, look, w, at)
      BY DEF Character
    <3> QED BY <3>1, <3>2 DEF InWorld
  <2> HIDE DEF character
  <2>3. /\ OthersKept(sessions, sessions', u) /\ sessions'[u].id = sessions[u].id
        /\ sessions'[u].character = character
    BY <1>1, <2>1, SessionSets
  <2>4. players' = players /\ failed' = failed /\ lastSeen' = lastSeen
    BY <1>9 DEF Walk
  <2>5. EntersWhereSaved
    BY <2>1, <2>3, NobodyEnters DEF OthersKept
  <2>6. Standing(players, sessions) => Standing(players', sessions')
    BY <2>1, <2>2, <2>3, <2>4 DEF Standing, OthersKept
  <2> QED BY <2>4, <2>5, <2>6 DEF PlaceInv, PlacesHold
<1> QED
  BY <1>2, <1>3, <1>4, <1>5, <1>6, <1>7, <1>8, <1>9, PosPersist, PosTestUdp, PosTransfer
  DEF PersistenceNext

LEMMA PlaceInvHolds == PersistenceSpec => []PlaceInv
<1>1. PersistenceInit => Placed(players) /\ Seen(players, lastSeen) /\ Standing(players, sessions)
  BY DEF PersistenceInit, NoSession, Placed, Seen, Standing
<1> DEFINE Places == NoneFailed(failed) => Placed(players) /\ Seen(players, lastSeen) /\ Standing(players, sessions)
<1>2. LookInv /\ Places /\ [PersistenceNext]_persistenceVars => Places'
  BY PosNext DEF PlaceInv, PlacesHold
<1>3. PersistenceInit => Places
  BY <1>1
<1>4. LookInv /\ Places => PlaceInv
  BY DEF PlaceInv
<1> HIDE DEF Places
<1> QED BY <1>2, <1>3, <1>4, LookInvHolds, PTL DEF PersistenceSpec

\* A player who comes back, over crashes too, stands where the last save of that
\* world saw the character, less than a metre off in each direction, while no
\* command failed that gives an id, a world or a place.
THEOREM PositionSurvivesAlways == PersistenceSpec => PositionSurvives
<1>1. PlaceInv /\ [PersistenceNext]_persistenceVars => [EntersWhereSaved]_persistenceVars
  BY PosNext
<1> QED BY <1>1, PlaceInvHolds, PTL DEF PersistenceSpec, PositionSurvives, EntersWhereSaved, NoneFailed

=============================================================================
