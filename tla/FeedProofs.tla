----------------------------- MODULE FeedProofs -----------------------------
(***************************************************************************)
(* Theorems about ServiceFeed, for any number of units, fields and         *)
(* channels and any size of their queues.                                  *)
(***************************************************************************)
EXTENDS ServiceFeed, TLAPS

Messages == Unit \X Loaded
Subscriptions == [at : {"off", "listed", "on", "leaving", "over"}, view : Units]

LEMMA Constants ==
  /\ Gone \notin Loaded /\ Fallback \in Loaded /\ Look \subseteq Loaded /\ Empty \in Value
  /\ Size \in Nat /\ Size > 0
BY FeedAssumption DEF FeedAssumption, Loaded

\* Merging two looks gives a look, and the difference of two looks is one.
LEMMA Patching ==
  ASSUME NEW old \in Loaded, NEW new \in Loaded
  PROVE  /\ Blank \in Loaded /\ Merge(old, new) \in Loaded /\ Diff(old, new) \in Loaded
         /\ Diff(Gone, new) \in Loaded
BY Constants DEF Loaded, Blank, Merge, Diff

-----------------------------------------------------------------------------
(***************************************************************************)
(* What a client sees at a place once its queue is empty, without a choice *)
(* of the last entry: the entry after which no other carries the place, or *)
(* what the client has.                                                    *)
(***************************************************************************)
Newest(q, view, p, v) ==
  \/ \E k \in 1..Len(q) :
       p \in Carried(q[k]) /\ q[k][2][p[2]] = v /\ \A j \in 1..Len(q) : j > k => p \notin Carried(q[j])
  \/ v = Shown(view, p) /\ \A j \in 1..Len(q) : p \notin Carried(q[j])

LEMMA NewestIsAhead ==
  ASSUME NEW s \in Sub, NEW p \in Place, NEW v, queue[s] \in Seq(Messages),
         Newest(queue[s], sub[s].view, p, v)
  PROVE  Ahead(s, p) = v
<1> DEFINE q == queue[s]
<1>1. CASE v = Shown(sub[s].view, p) /\ \A j \in 1..Len(q) : p \notin Carried(q[j])
  BY <1>1 DEF Ahead, InQueue
<1>2. ASSUME NEW k \in 1..Len(q), p \in Carried(q[k]), q[k][2][p[2]] = v,
             \A j \in 1..Len(q) : j > k => p \notin Carried(q[j])
      PROVE  Ahead(s, p) = v
  <2>0. Len(q) \in Nat
    OBVIOUS
  <2>1. k \in InQueue(s, p) /\ \A j \in InQueue(s, p) : j <= k
    BY <1>2, <2>0 DEF InQueue
  <2>2. \A m \in InQueue(s, p) : (\A j \in InQueue(s, p) : j <= m) => m = k
    BY <1>2, <2>0, <2>1 DEF InQueue
  <2>3. (CHOOSE m \in InQueue(s, p) : \A j \in InQueue(s, p) : j <= m) = k
    BY <2>1, <2>2
  <2>4. QED
    BY <1>2, <2>1, <2>3 DEF Ahead
<1>3. QED
  BY <1>1, <1>2 DEF Newest

LEMMA NewestAfterAppend ==
  ASSUME NEW q \in Seq(Messages), NEW view, NEW d \in Messages, NEW p \in Place, NEW v
  PROVE  /\ p \in Carried(d) => Newest(Append(q, d), view, p, d[2][p[2]])
         /\ p \notin Carried(d) /\ Newest(q, view, p, v) => Newest(Append(q, d), view, p, v)
<1> DEFINE n == Len(q) + 1 r == Append(q, d)
<1>1. /\ Len(q) \in Nat /\ Len(r) = n /\ r[n] = d
      /\ \A k \in 1..Len(q) : r[k] = q[k] /\ k \in 1..n /\ k < n
      /\ \A k \in 1..n : k = n \/ k \in 1..Len(q)
  OBVIOUS
<1> HIDE DEF r
<1>2. ASSUME p \in Carried(d) PROVE Newest(r, view, p, d[2][p[2]])
  BY <1>1, <1>2 DEF Newest
<1>3. ASSUME p \notin Carried(d), Newest(q, view, p, v) PROVE Newest(r, view, p, v)
  BY <1>1, <1>3 DEF Newest
<1>4. QED
  BY <1>2, <1>3 DEF r

LEMMA UpdatedIsUnits ==
  ASSUME NEW view \in Units, NEW d \in Messages
  PROVE  Updated(view, d) \in Units
<1>1. d[1] \in Unit /\ d[2] \in Loaded /\ (view[d[1]] # Gone => view[d[1]] \in Loaded)
  BY DEF Messages, Units
<1>2. Merge(IF view[d[1]] = Gone THEN Fallback ELSE view[d[1]], d[2]) \in Loaded
  BY <1>1, Constants, Patching
<1>3. QED
  BY <1>1, <1>2 DEF Units, Updated

\* A difference changes what the client sees where it carries something; elsewhere only
\* of a unit the client had not heard of.
LEMMA SeenAfterUpdate ==
  ASSUME NEW view \in Units, NEW d \in Messages, NEW p \in Place
  PROVE  /\ p \in Carried(d) => Shown(Updated(view, d), p) = d[2][p[2]]
         /\ p \notin Carried(d) => Shown(view, p) \in {Empty, Shown(Updated(view, d), p)}
<1> DEFINE base == IF view[d[1]] = Gone THEN Fallback ELSE view[d[1]]
           seen == Updated(view, d)
<1>1. d[1] \in Unit /\ d[2] \in Loaded /\ base \in Loaded /\ p[1] \in Unit /\ p[2] \in Field
  BY Constants DEF Messages, Place, Units
<1>2. Merge(base, d[2]) \in Loaded
  BY <1>1, Patching
<1>3. /\ seen[d[1]] = Merge(base, d[2])
      /\ \A u \in Unit : u # d[1] => seen[u] = view[u]
  BY <1>1, <1>2 DEF Units, Updated
<1>4. p \in Carried(d) <=> p[1] = d[1] /\ d[2][p[2]] # Empty
  BY DEF Carried
<1>5. Merge(base, d[2])[p[2]] = IF d[2][p[2]] = Empty THEN base[p[2]] ELSE d[2][p[2]]
  BY <1>1 DEF Merge
<1>6. CASE p[1] # d[1]
  BY <1>1, <1>3, <1>4, <1>6 DEF Shown
<1>7. CASE p[1] = d[1]
  <2>1. Shown(seen, p) = Merge(base, d[2])[p[2]]
    BY <1>2, <1>3, <1>7, Constants DEF Shown
  <2>2. Shown(view, p) \in {Empty, base[p[2]]}
    BY <1>7 DEF Shown
  <2>3. QED
    BY <1>3, <1>4, <1>5, <1>7, <2>1, <2>2
<1>8. QED
  BY <1>6, <1>7

LEMMA NewestAfterRead ==
  ASSUME NEW q \in Seq(Messages), q # <<>>, NEW view \in Units, NEW p \in Place, NEW v, v # Empty,
         Newest(q, view, p, v)
  PROVE  Newest(Tail(q), Updated(view, Head(q)), p, v)
<1> DEFINE r == Tail(q) seen == Updated(view, Head(q))
<1>1. /\ Len(q) \in Nat /\ Len(r) = Len(q) - 1 /\ 1 \in 1..Len(q) /\ Head(q) = q[1]
      /\ \A k \in 1..Len(r) : r[k] = q[k + 1] /\ k + 1 \in 1..Len(q)
      /\ \A k \in 1..Len(q) : k = 1 \/ (k - 1 \in 1..Len(r) /\ r[k - 1] = q[k])
  OBVIOUS
<1>2. /\ p \in Carried(q[1]) => Shown(seen, p) = q[1][2][p[2]]
      /\ p \notin Carried(q[1]) => Shown(view, p) \in {Empty, Shown(seen, p)}
  <2>1. Head(q) \in Messages
    OBVIOUS
  <2>2. QED
    BY <1>1, <2>1, SeenAfterUpdate
<1> HIDE DEF r, seen
<1>3. ASSUME NEW k \in 1..Len(q), p \in Carried(q[k]), q[k][2][p[2]] = v,
             \A j \in 1..Len(q) : j > k => p \notin Carried(q[j])
      PROVE  Newest(r, seen, p, v)
  <2>1. CASE k = 1
    <3>1. \A j \in 1..Len(r) : p \notin Carried(r[j])
      BY <1>1, <1>3, <2>1
    <3>2. QED
      BY <1>2, <1>3, <2>1, <3>1 DEF Newest
  <2>2. CASE k # 1
    <3>1. k - 1 \in 1..Len(r) /\ p \in Carried(r[k - 1]) /\ r[k - 1][2][p[2]] = v
      BY <1>1, <1>3, <2>2
    <3>2. \A j \in 1..Len(r) : j > k - 1 => p \notin Carried(r[j])
      BY <1>1, <1>3
    <3>3. QED
      BY <3>1, <3>2 DEF Newest
  <2>3. QED
    BY <2>1, <2>2
<1>4. ASSUME v = Shown(view, p), \A j \in 1..Len(q) : p \notin Carried(q[j])
      PROVE  Newest(r, seen, p, v)
  BY <1>1, <1>2, <1>4 DEF Newest
<1>5. QED
  BY <1>3, <1>4 DEF Newest, r, seen

-----------------------------------------------------------------------------
(***************************************************************************)
(* The inductive invariant: before the first list nothing is known,        *)
(* published or queued, a channel of changes is filled between subscribing *)
(* and closing only, and what the manager knows of a place of which no     *)
(* difference has passed a subscriber by is on its way to it or there.     *)
(***************************************************************************)
NothingBefore ==
  watch \in {"off", "first"} =>
    todo = {} /\ (\A u \in Unit : known[u] = Gone) /\ \A s \in Sub : queue[s] = <<>>

InTurn ==
  \A s \in Sub :
    /\ sub[s].at \in {"off", "listed"} => s \notin members /\ queue[s] = <<>>
    /\ s \in members => sub[s].at \in {"on", "leaving"}
    /\ s \in closed => sub[s].at = "over"

OnItsWay(s, p) ==
  s \in members /\ p \notin missed[s] \cup Pending /\ Shown(known, p) # Empty
    => Newest(queue[s], sub[s].view, p, Shown(known, p))

Feeds ==
  /\ TypeOK /\ DifferenceIsCurrent /\ NothingBefore /\ InTurn
  /\ \A s \in Sub, p \in Place : OnItsWay(s, p)

LEMMA InitFeeds == Init => Feeds
<1> SUFFICES ASSUME Init PROVE Feeds
  OBVIOUS
<1>1. TypeOK
  BY Constants DEF Init, TypeOK, Units
<1>2. QED
  BY <1>1 DEF Init, Feeds, DifferenceIsCurrent, NothingBefore, InTurn, OnItsWay

\* Nothing of what a list says is not in systemd's units.
LEMMA ListsAreUnits ==
  ASSUME actual \in Units, NEW list \in Lists
  PROVE  list \in Units
<1>1. PICK lost \in SUBSET Unit :
        list = [u \in Unit |-> IF u \in lost /\ actual[u] # Gone THEN Unread(actual[u]) ELSE actual[u]]
  BY DEF Lists
<1>2. \A look \in Loaded : Unread(look) \in Loaded
  BY Constants DEF Loaded, Unread
<1>3. QED
  BY <1>1, <1>2 DEF Units

-----------------------------------------------------------------------------
(***************************************************************************)
(* systemd and watch().                                                    *)
(***************************************************************************)
LEMMA ChangesFeeds ==
  ASSUME Feeds, NEW u \in Unit, NEW look \in Look \cup {Gone}, Changes(u, look)
  PROVE  Feeds'
<1>1. UNCHANGED <<watch, todo, known, sub, queue, members, closed, missed>>
  BY DEF Changes, subVars
<1>2. TypeOK'
  <2>1. changes' \in Nat /\ actual' \in Units
    BY Constants DEF Feeds, TypeOK, Units, Changes
  <2>2. signals' \in Seq(Messages)
    <3>1. signals \in Seq(Messages)
      BY DEF Feeds, TypeOK, Messages
    <3>2. CASE UNCHANGED signals
      BY <3>1, <3>2
    <3>3. CASE look # Gone /\ ~UNCHANGED signals
      <4>1. PICK sent \in SUBSET (Field \ Queried) :
              signals' = Append(signals, <<u, [f \in Field |-> IF f \in sent THEN look[f] ELSE Empty]>>)
        BY <3>3 DEF Changes
      <4>2. [f \in Field |-> IF f \in sent THEN look[f] ELSE Empty] \in Loaded
        BY <3>3, Constants DEF Loaded
      <4>3. QED
        BY <3>1, <4>1, <4>2 DEF Messages
    <3>4. QED
      BY <3>2, <3>3 DEF Changes
  <2>3. QED
    BY <1>1, <2>1, <2>2 DEF Feeds, TypeOK, Messages
<1>3. QED
  BY <1>1, <1>2 DEF Feeds, DifferenceIsCurrent, NothingBefore, InTurn, OnItsWay, Pending

LEMMA WatchListsFeeds == Feeds /\ WatchLists => Feeds'
<1> SUFFICES ASSUME Feeds, WatchLists PROVE Feeds'
  OBVIOUS
<1>1. /\ watch = "first" /\ watch' = "match"
      /\ UNCHANGED <<actual, changes, signals, todo, sub, queue, members, closed>>
  BY DEF WatchLists
<1>2. todo = {} /\ (\A u \in Unit : known[u] = Gone) /\ \A s \in Sub : queue[s] = <<>>
  BY <1>1 DEF Feeds, NothingBefore
<1>3. CASE UNCHANGED <<known, missed>>
  <2>1. TypeOK'
    BY <1>1, <1>3 DEF Feeds, TypeOK
  <2>2. \A p \in Place : Shown(known', p) = Empty
    BY <1>2, <1>3 DEF Shown, Place
  <2>3. QED
    BY <1>1, <1>2, <1>3, <2>1, <2>2 DEF Feeds, DifferenceIsCurrent, NothingBefore, InTurn, OnItsWay
<1>4. ASSUME NEW list \in Lists, known' = list,
             missed' = [s \in Sub |-> IF s \in members THEN Behind(list, sub[s].view) ELSE missed[s]]
      PROVE  Feeds'
  <2>1. TypeOK'
    <3>1. missed' \in [Sub -> SUBSET Place]
      BY <1>4 DEF Feeds, TypeOK, Behind
    <3>2. known' \in Units
      BY <1>4, ListsAreUnits DEF Feeds, TypeOK
    <3>3. QED
      BY <1>1, <3>1, <3>2 DEF Feeds, TypeOK
  <2>2. ASSUME NEW s \in Sub, NEW p \in Place PROVE OnItsWay(s, p)'
    <3> SUFFICES ASSUME s \in members', p \notin missed'[s], Shown(known', p) # Empty
                 PROVE  Newest(queue'[s], sub'[s].view, p, Shown(known', p))
      BY DEF OnItsWay
    <3>1. Shown(known', p) = Shown(sub'[s].view, p) /\ queue'[s] = <<>>
      BY <1>1, <1>2, <1>4 DEF Behind
    <3>2. QED
      BY <3>1 DEF Newest
  <2>3. QED
    BY <1>1, <1>2, <2>1, <2>2 DEF Feeds, DifferenceIsCurrent, NothingBefore, InTurn
<1>5. QED
  BY <1>3, <1>4 DEF WatchLists

LEMMA WatchMovesFeeds == Feeds /\ (WatchMatches \/ WatchEnds) => Feeds'
<1> SUFFICES ASSUME Feeds, WatchMatches \/ WatchEnds PROVE Feeds'
  OBVIOUS
<1>1. /\ UNCHANGED <<actual, changes, signals, todo, known, sub, queue, members, closed, missed>>
      /\ watch \in {"match", "loop"} /\ watch' \in {"loop", "ended"}
  BY DEF WatchMatches, WatchEnds, subVars
<1>2. QED
  BY <1>1 DEF Feeds, TypeOK, DifferenceIsCurrent, NothingBefore, InTurn, OnItsWay, Pending

\* What is new about a unit, if the manager had something to compare it with or not.
News(u, old, new) ==
  /\ \A p \in Carried(<<u, Diff(old, new)>>) : new[p[2]] = Diff(old, new)[p[2]]
  /\ \A f \in Field :
       \/ new[f] = Empty
       \/ old # Gone /\ new[f] = old[f]
       \/ <<u, f>> \in Carried(<<u, Diff(old, new)>>)

LEMMA DiffIsNews ==
  ASSUME NEW u \in Unit, NEW old \in Loaded \cup {Gone}, NEW new \in Loaded
  PROVE  News(u, old, new)
<1>1. \A f \in Field : Diff(old, new)[f] = IF old # Gone /\ old[f] = new[f] THEN Empty ELSE new[f]
  BY DEF Diff
<1>2. ASSUME NEW p \in Carried(<<u, Diff(old, new)>>) PROVE new[p[2]] = Diff(old, new)[p[2]]
  BY <1>1 DEF Carried, Place
<1>3. ASSUME NEW f \in Field
      PROVE  \/ new[f] = Empty
             \/ old # Gone /\ new[f] = old[f]
             \/ <<u, f>> \in Carried(<<u, Diff(old, new)>>)
  BY <1>1 DEF Carried, Place
<1>4. QED
  BY <1>2, <1>3 DEF News

\* What the manager writes down anew, and is not empty, it is about to publish: it has
\* merged a signal into a unit.
LEMMA SignalIsNews ==
  ASSUME Feeds, NEW u \in Unit, NEW patch \in Loaded, todo = {}, FromSignal(u, patch)
  PROVE  /\ known' \in Units /\ todo' \subseteq Messages /\ DifferenceIsCurrent'
         /\ \A p \in Place : Shown(known', p) \in {Empty, Shown(known, p)} \/ p \in Pending'
<1> DEFINE old == IF known[u] = Gone THEN Blank ELSE known[u]
           new == Merge(old, patch)
<1>1. known \in Units
  BY DEF Feeds, TypeOK
<1>2. old \in Loaded /\ new \in Loaded /\ Diff(old, new) \in Loaded
  <2>1. old \in Loaded
    BY <1>1, Patching DEF Units
  <2> HIDE DEF old
  <2>2. QED
    BY <2>1, Patching
<1>3. News(u, old, new)
  BY <1>2, DiffIsNews
<1>4. \A f \in Field : old[f] \in {Empty, Shown(known, <<u, f>>)}
  BY DEF Blank, Shown
<1>5. known' = [known EXCEPT ![u] = new] /\ todo' = IF new = old THEN {} ELSE {<<u, Diff(old, new)>>}
  BY DEF FromSignal
<1> HIDE DEF old, new
<1>6. /\ known' \in Units /\ known'[u] = new
      /\ \A v \in Unit : v # u => known'[v] = known[v]
  BY <1>1, <1>2, <1>5 DEF Units
<1>7. \A f \in Field : Shown(known', <<u, f>>) = new[f]
  BY <1>2, <1>6, Constants DEF Shown
<1>8. todo' \subseteq Messages
  BY <1>2, <1>5 DEF Messages
<1>9. ASSUME NEW d \in todo', NEW p \in Carried(d) PROVE Shown(known', p) = d[2][p[2]]
  <2>1. d = <<u, Diff(old, new)>>
    BY <1>5
  <2>2. p[1] = u /\ p[2] \in Field
    BY <2>1 DEF Carried, Place
  <2>3. QED
    BY <1>3, <1>6, <1>2, <2>1, <2>2, Constants DEF News, Shown
<1>10. ASSUME NEW p \in Place PROVE Shown(known', p) \in {Empty, Shown(known, p)} \/ p \in Pending'
  <2>1. CASE p[1] # u
    BY <1>6, <2>1 DEF Place, Shown
  <2>2. ASSUME NEW f \in Field, p = <<u, f>>
        PROVE  Shown(known', p) \in {Empty, Shown(known, p)} \/ p \in Pending'
    <3>1. CASE new[f] = Empty \/ new[f] = old[f]
      BY <1>4, <1>7, <2>2, <3>1
    <3>2. CASE new[f] # old[f] /\ <<u, f>> \in Carried(<<u, Diff(old, new)>>)
      BY <1>5, <2>2, <3>2 DEF Pending
    <3>3. QED
      BY <1>3, <3>1, <3>2 DEF News
  <2>3. QED
    BY <2>1, <2>2 DEF Place
<1>11. QED
  BY <1>6, <1>8, <1>9, <1>10 DEF DifferenceIsCurrent

\* The same, of a list.
LEMMA PollIsNews ==
  ASSUME Feeds, NEW list \in Lists, PollReads(list)
  PROVE  /\ known' \in Units /\ todo' \subseteq Messages /\ DifferenceIsCurrent'
         /\ \A p \in Place : Shown(known', p) \in {Empty, Shown(known, p)} \/ p \in Pending'
<1>1. known \in Units /\ list \in Units
  BY ListsAreUnits DEF Feeds, TypeOK
<1>2. known' = list /\ todo' = Differences(list)
  BY DEF PollReads
<1>3. \A u \in Unit : list[u] # Gone => /\ list[u] \in Loaded /\ Diff(known[u], list[u]) \in Loaded
                                        /\ News(u, known[u], list[u])
  <2> SUFFICES ASSUME NEW u \in Unit, list[u] # Gone
               PROVE  /\ list[u] \in Loaded /\ Diff(known[u], list[u]) \in Loaded
                      /\ News(u, known[u], list[u])
    OBVIOUS
  <2>1. list[u] \in Loaded /\ known[u] \in Loaded \cup {Gone}
    BY <1>1 DEF Units
  <2>2. QED
    BY <2>1, Patching, DiffIsNews
<1>4. todo' \subseteq Messages
  BY <1>2, <1>3 DEF Differences, Messages
<1>5. ASSUME NEW d \in todo', NEW p \in Carried(d) PROVE Shown(known', p) = d[2][p[2]]
  <2>1. PICK u \in Unit : list[u] # Gone /\ d = <<u, Diff(known[u], list[u])>>
    BY <1>2 DEF Differences
  <2>2. p[1] = u
    BY <2>1 DEF Carried
  <2>3. QED
    BY <1>2, <1>3, <2>1, <2>2 DEF News, Shown
<1>6. ASSUME NEW p \in Place PROVE Shown(known', p) \in {Empty, Shown(known, p)} \/ p \in Pending'
  <2> SUFFICES ASSUME NEW u \in Unit, NEW f \in Field, p = <<u, f>>
               PROVE  Shown(known', p) \in {Empty, Shown(known, p)} \/ p \in Pending'
    BY DEF Place
  <2>1. CASE list[u] \in {Gone, known[u]}
    BY <1>2, <2>1 DEF Shown
  <2>2. CASE list[u] \notin {Gone, known[u]}
    <3>1. <<u, Diff(known[u], list[u])>> \in todo' /\ Shown(known', p) = list[u][f]
      BY <1>2, <2>2 DEF Differences, Shown
    <3>2. CASE list[u][f] = Empty \/ (known[u] # Gone /\ list[u][f] = known[u][f])
      BY <3>1, <3>2 DEF Shown
    <3>3. CASE <<u, f>> \in Carried(<<u, Diff(known[u], list[u])>>)
      BY <3>1, <3>3 DEF Pending
    <3>4. QED
      BY <1>3, <2>2, <3>2, <3>3 DEF News
  <2>3. QED
    BY <2>1, <2>2
<1>7. QED
  BY <1>1, <1>2, <1>4, <1>5, <1>6 DEF DifferenceIsCurrent

LEMMA NewsFeeds == Feeds /\ (TakesSignal \/ Polls) => Feeds'
<1> SUFFICES ASSUME Feeds, TakesSignal \/ Polls PROVE Feeds'
  OBVIOUS
<1>1. /\ watch = "loop" /\ todo = {}
      /\ UNCHANGED <<actual, changes, watch, sub, queue, members, closed, missed>>
  BY DEF TakesSignal, Polls, PollReads, subVars
<1>2. /\ signals' \in Seq(Messages) /\ known' \in Units /\ todo' \subseteq Messages
      /\ DifferenceIsCurrent'
      /\ \A p \in Place : Shown(known', p) \in {Empty, Shown(known, p)} \/ p \in Pending'
  <2>1. CASE TakesSignal
    <3> DEFINE u == Head(signals)[1] patch == Head(signals)[2]
    <3>1. signals \in Seq(Messages) /\ signals # <<>> /\ signals' = Tail(signals)
      BY <2>1 DEF Feeds, TypeOK, TakesSignal, Messages
    <3>2. Head(signals) \in Messages /\ signals' \in Seq(Messages)
      BY <3>1
    <3>3. u \in Unit /\ patch \in Loaded /\ FromSignal(u, patch)
      BY <2>1, <3>2 DEF Messages, TakesSignal
    <3> HIDE DEF u, patch
    <3>4. QED
      BY <1>1, <3>2, <3>3, SignalIsNews
  <2>2. CASE Polls
    <3>1. signals' \in Seq(Messages)
      BY <2>2 DEF Feeds, TypeOK, Messages, Polls, PollReads
    <3>2. QED
      BY <2>2, <3>1, PollIsNews DEF Polls
  <2>3. QED
    BY <2>1, <2>2
<1>3. TypeOK' /\ NothingBefore' /\ InTurn'
  BY <1>1, <1>2 DEF Feeds, TypeOK, NothingBefore, InTurn, Messages
<1>4. ASSUME NEW s \in Sub, NEW p \in Place PROVE OnItsWay(s, p)'
  <2> SUFFICES ASSUME s \in members', p \notin missed'[s], p \notin Pending', Shown(known', p) # Empty
               PROVE  Newest(queue'[s], sub'[s].view, p, Shown(known', p))
    BY DEF OnItsWay
  <2>1. Shown(known', p) = Shown(known, p) /\ p \notin Pending
    BY <1>1, <1>2 DEF Pending
  <2>2. QED
    BY <1>1, <2>1 DEF Feeds, OnItsWay
<1>5. QED
  BY <1>2, <1>3, <1>4 DEF Feeds

LEMMA PublishesFeeds == Feeds /\ Publishes => Feeds'
<1> SUFFICES ASSUME Feeds, NEW d \in todo,
               LET full == {s \in members : Len(queue[s]) = Size} IN
               /\ todo' = todo \ {d}
               /\ queue' = [s \in Sub |-> IF s \in members \ full THEN Append(queue[s], d) ELSE queue[s]]
               /\ missed' = [s \in Sub |-> IF s \in full THEN missed[s] \cup Carried(d)
                                ELSE IF s \in members THEN missed[s] \ Carried(d) ELSE missed[s]]
               /\ UNCHANGED <<actual, changes, signals, watch, known, sub, members, closed>>
             PROVE  Feeds'
  BY DEF Publishes
<1>1. /\ d \in Messages /\ Carried(d) \subseteq Place
      /\ \A p \in Carried(d) : Shown(known, p) = d[2][p[2]]
      /\ \A s \in Sub : queue[s] \in Seq(Messages) /\ Len(queue[s]) <= Size
      /\ members \subseteq Sub
  BY DEF Feeds, TypeOK, DifferenceIsCurrent, Messages, Carried
<1>2. ASSUME NEW s \in Sub
      PROVE  \/ s \notin members /\ queue'[s] = queue[s] /\ missed'[s] = missed[s]
             \/ s \in members /\ queue'[s] = queue[s] /\ missed'[s] = missed[s] \cup Carried(d)
             \/ /\ s \in members /\ Len(queue[s]) < Size
                /\ queue'[s] = Append(queue[s], d) /\ missed'[s] = missed[s] \ Carried(d)
  BY <1>1, Constants
<1>3. TypeOK'
  <2>1. queue' \in [Sub -> Seq(Messages)] /\ \A s \in Sub : Len(queue'[s]) <= Size
    <3>1. \A s \in Sub : queue'[s] \in Seq(Messages) /\ Len(queue'[s]) <= Size
      BY <1>1, <1>2, Constants
    <3>2. QED
      BY <1>1, <3>1
  <2>2. missed' \in [Sub -> SUBSET Place]
    BY <1>1 DEF Feeds, TypeOK
  <2>3. QED
    BY <2>1, <2>2 DEF Feeds, TypeOK, Messages
<1>4. watch \notin {"off", "first"}
  BY DEF Feeds, NothingBefore
<1>5. DifferenceIsCurrent' /\ NothingBefore' /\ InTurn'
  BY <1>2, <1>4 DEF Feeds, DifferenceIsCurrent, NothingBefore, InTurn
<1>6. ASSUME NEW s \in Sub, NEW p \in Place PROVE OnItsWay(s, p)'
  <2> SUFFICES ASSUME s \in members', p \notin missed'[s], p \notin Pending', Shown(known', p) # Empty
               PROVE  Newest(queue'[s], sub'[s].view, p, Shown(known', p))
    BY DEF OnItsWay
  <2>1. CASE p \in Carried(d)
    BY <1>1, <1>2, <2>1, NewestAfterAppend
  <2>2. CASE p \notin Carried(d)
    <3>1. p \notin Pending /\ p \notin missed[s]
      BY <1>2, <2>2 DEF Pending
    <3>2. Newest(queue[s], sub[s].view, p, Shown(known, p))
      BY <3>1 DEF Feeds, OnItsWay
    <3>3. QED
      BY <1>1, <1>2, <2>2, <3>2, NewestAfterAppend
  <2>3. QED
    BY <2>1, <2>2
<1>7. QED
  BY <1>3, <1>5, <1>6 DEF Feeds

-----------------------------------------------------------------------------
(***************************************************************************)
(* The channels.                                                           *)
(***************************************************************************)
\* A step of one channel: the others see nothing of it.
LEMMA OthersOnTheirWay ==
  ASSUME Feeds, NEW s \in Sub, NEW t \in Sub, NEW p \in Place, t # s,
         sub'[t] = sub[t], queue'[t] = queue[t], missed'[t] = missed[t],
         t \in members' <=> t \in members, UNCHANGED <<known, todo>>
  PROVE  OnItsWay(t, p)'
BY DEF Feeds, OnItsWay, Pending

LEMMA SubListsFeeds == ASSUME Feeds, NEW s \in Sub, SubLists(s) PROVE Feeds'
<1>1. PICK list \in Lists : sub' = [sub EXCEPT ![s] = [at |-> "listed", view |-> list]]
  BY DEF SubLists
<1> DEFINE new == [at |-> "listed", view |-> list]
<1>2. /\ sub[s].at = "off" /\ sub' = [sub EXCEPT ![s] = new]
      /\ UNCHANGED <<actual, changes, signals, watch, todo, known, queue, members, closed, missed>>
  BY <1>1 DEF SubLists, feedVars
<1>3. new \in Subscriptions /\ new.at = "listed"
  BY ListsAreUnits DEF Feeds, TypeOK, Subscriptions
<1> HIDE DEF new
<1>4. /\ sub' \in [Sub -> Subscriptions] /\ sub'[s] = new
      /\ \A t \in Sub : t # s => sub'[t] = sub[t]
  BY <1>2, <1>3 DEF Feeds, TypeOK, Subscriptions
<1>5. TypeOK' /\ DifferenceIsCurrent' /\ NothingBefore'
  BY <1>2, <1>4 DEF Feeds, TypeOK, DifferenceIsCurrent, NothingBefore, Subscriptions
<1>6. InTurn'
  BY <1>2, <1>3, <1>4 DEF Feeds, InTurn
<1>7. \A t \in Sub, p \in Place : OnItsWay(t, p)'
  <2>1. s \notin members'
    BY <1>2 DEF Feeds, InTurn
  <2>2. QED
    BY <1>2, <1>4, <2>1, OthersOnTheirWay DEF OnItsWay
<1>8. QED
  BY <1>5, <1>6, <1>7 DEF Feeds

\* What has been listed is what is known, or a difference has passed by.
LEMMA SubSubscribesFeeds == ASSUME Feeds, NEW s \in Sub, SubSubscribes(s) PROVE Feeds'
<1>1. /\ sub[s].at = "listed" /\ sub' = [sub EXCEPT ![s].at = "on"]
      /\ members' = members \cup {s}
      /\ watch' = IF watch = "off" THEN "first" ELSE watch
      /\ missed' = [missed EXCEPT ![s] = Behind(known, sub[s].view) \ Pending]
      /\ UNCHANGED <<actual, changes, signals, todo, known, queue, closed>>
  BY DEF SubSubscribes
<1>2. /\ sub' \in [Sub -> Subscriptions] /\ sub'[s].at = "on" /\ sub'[s].view = sub[s].view
      /\ \A t \in Sub : t # s => sub'[t] = sub[t]
  BY <1>1 DEF Feeds, TypeOK, Subscriptions
<1>3. /\ missed' \in [Sub -> SUBSET Place] /\ \A t \in Sub : t # s => missed'[t] = missed[t]
      /\ missed'[s] = Behind(known, sub[s].view) \ Pending
  BY <1>1 DEF Feeds, TypeOK, Behind
<1>4. TypeOK' /\ DifferenceIsCurrent' /\ NothingBefore'
  BY <1>1, <1>2, <1>3 DEF Feeds, TypeOK, DifferenceIsCurrent, NothingBefore, Subscriptions
<1>5. InTurn'
  BY <1>1, <1>2 DEF Feeds, InTurn
<1>6. ASSUME NEW p \in Place PROVE OnItsWay(s, p)'
  <2> SUFFICES ASSUME p \notin missed'[s], p \notin Pending', Shown(known', p) # Empty
               PROVE  Newest(queue'[s], sub'[s].view, p, Shown(known', p))
    BY DEF OnItsWay
  <2>1. Shown(known', p) = Shown(sub'[s].view, p) /\ queue'[s] = <<>>
    BY <1>1, <1>2, <1>3 DEF Feeds, InTurn, Pending, Behind
  <2>2. QED
    BY <2>1 DEF Newest
<1>7. \A t \in Sub, p \in Place : OnItsWay(t, p)'
  BY <1>1, <1>2, <1>3, <1>6, OthersOnTheirWay
<1>8. QED
  BY <1>4, <1>5, <1>7 DEF Feeds

LEMMA SubReadsFeeds == ASSUME Feeds, NEW s \in Sub, SubReads(s) PROVE Feeds'
<1> DEFINE d == Head(queue[s]) seen == Updated(sub[s].view, d)
<1>1. /\ sub[s].at = "on" /\ queue[s] # <<>>
      /\ sub' = [sub EXCEPT ![s].view = Updated(@, d)] /\ queue' = [queue EXCEPT ![s] = Tail(@)]
      /\ UNCHANGED <<actual, changes, signals, watch, todo, known, members, closed, missed>>
  BY DEF SubReads, feedVars
<1>2. queue[s] \in Seq(Messages) /\ sub[s].view \in Units /\ Len(queue[s]) <= Size
  BY DEF Feeds, TypeOK, Messages
<1>3. d \in Messages /\ Tail(queue[s]) \in Seq(Messages) /\ Len(Tail(queue[s])) <= Size
  BY <1>1, <1>2, Constants
<1>4. seen \in Units
  BY <1>2, <1>3, UpdatedIsUnits
<1>5. /\ sub' \in [Sub -> Subscriptions] /\ sub'[s].at = "on" /\ sub'[s].view = seen
      /\ \A t \in Sub : t # s => sub'[t] = sub[t]
  <2>1. sub \in [Sub -> Subscriptions]
    BY DEF Feeds, TypeOK, Subscriptions
  <2>2. sub' = [sub EXCEPT ![s] = [sub[s] EXCEPT !.view = seen]]
    BY <1>1, <2>1
  <2>3. [sub[s] EXCEPT !.view = seen] \in Subscriptions
    BY <1>4, <2>1 DEF Subscriptions
  <2> HIDE DEF seen
  <2>4. QED
    BY <1>1, <2>1, <2>2, <2>3 DEF Subscriptions
<1>6. /\ queue' \in [Sub -> Seq(Messages)] /\ queue'[s] = Tail(queue[s])
      /\ \A t \in Sub : t # s => queue'[t] = queue[t]
  BY <1>1, <1>3 DEF Feeds, TypeOK, Messages
<1>7. watch \notin {"off", "first"}
  BY <1>1 DEF Feeds, NothingBefore
<1>8. TypeOK' /\ DifferenceIsCurrent' /\ NothingBefore'
  BY <1>1, <1>3, <1>5, <1>6, <1>7
  DEF Feeds, TypeOK, DifferenceIsCurrent, NothingBefore, Subscriptions, Messages
<1>9. InTurn'
  BY <1>1, <1>5, <1>6 DEF Feeds, InTurn
<1>10. ASSUME NEW p \in Place PROVE OnItsWay(s, p)'
  <2> SUFFICES ASSUME s \in members', p \notin missed'[s], p \notin Pending', Shown(known', p) # Empty
               PROVE  Newest(queue'[s], sub'[s].view, p, Shown(known', p))
    BY DEF OnItsWay
  <2>1. Newest(queue[s], sub[s].view, p, Shown(known, p)) /\ Shown(known, p) # Empty
    BY <1>1 DEF Feeds, OnItsWay, Pending
  <2>2. Newest(Tail(queue[s]), seen, p, Shown(known, p))
    BY <1>1, <1>2, <2>1, NewestAfterRead
  <2>3. QED
    BY <1>1, <1>5, <1>6, <2>2
<1>11. \A t \in Sub, p \in Place : OnItsWay(t, p)'
  BY <1>1, <1>5, <1>6, <1>10, OthersOnTheirWay
<1>12. QED
  BY <1>8, <1>9, <1>11 DEF Feeds

LEMMA SubEndsFeeds == ASSUME Feeds, NEW s \in Sub, SubLeaves(s) \/ Unsubscribes(s) PROVE Feeds'
<1>1. /\ UNCHANGED <<actual, changes, signals, watch, todo, known, queue, missed>>
      /\ sub[s].at \in {"listed", "on", "leaving"}
      /\ \/ s \in members /\ sub' = [sub EXCEPT ![s].at = "leaving"] /\ UNCHANGED <<members, closed>>
         \/ s \notin members /\ sub' = [sub EXCEPT ![s].at = "over"] /\ UNCHANGED <<members, closed>>
         \/ /\ sub' = [sub EXCEPT ![s].at = "over"]
            /\ members' = members \ {s} /\ closed' = closed \cup {s}
  BY DEF SubLeaves, Unsubscribes, feedVars
<1>2. /\ sub' \in [Sub -> Subscriptions] /\ sub'[s].at \in {"leaving", "over"}
      /\ s \in members' => sub'[s].at = "leaving"
      /\ s \in closed' => sub'[s].at = "over"
      /\ sub'[s].view = sub[s].view
      /\ \A t \in Sub : t # s => sub'[t] = sub[t]
  <2>1. sub \in [Sub -> Subscriptions]
    BY DEF Feeds, TypeOK, Subscriptions
  <2>2. ASSUME NEW place \in {"leaving", "over"}, sub' = [sub EXCEPT ![s].at = place]
        PROVE  /\ sub' \in [Sub -> Subscriptions] /\ sub'[s].at = place
               /\ sub'[s].view = sub[s].view
               /\ \A t \in Sub : t # s => sub'[t] = sub[t]
    BY <2>1, <2>2 DEF Subscriptions
  <2>3. s \notin closed
    BY <1>1 DEF Feeds, InTurn
  <2>4. QED
    BY <1>1, <2>2, <2>3
<1>3. TypeOK' /\ DifferenceIsCurrent' /\ NothingBefore'
  BY <1>1, <1>2 DEF Feeds, TypeOK, DifferenceIsCurrent, NothingBefore, Subscriptions
<1>4. InTurn'
  BY <1>1, <1>2 DEF Feeds, InTurn
<1>5. \A p \in Place : OnItsWay(s, p)'
  BY <1>1, <1>2 DEF Feeds, OnItsWay, Pending
<1>6. \A t \in Sub, p \in Place : OnItsWay(t, p)'
  BY <1>1, <1>2, <1>5, OthersOnTheirWay
<1>7. QED
  BY <1>3, <1>4, <1>6 DEF Feeds

-----------------------------------------------------------------------------
LEMMA FeedsInvariant == Spec => []Feeds
<1>1. Feeds /\ UNCHANGED vars => Feeds'
  BY DEF vars, feedVars, subVars, Feeds, TypeOK, DifferenceIsCurrent, NothingBefore, InTurn,
         OnItsWay, Pending
<1>2. Feeds /\ [Next]_vars => Feeds'
  BY <1>1, ChangesFeeds, WatchListsFeeds, WatchMovesFeeds, NewsFeeds, PublishesFeeds, SubListsFeeds,
     SubSubscribesFeeds, SubReadsFeeds, SubEndsFeeds
  DEF Next, Watches, Serves
<1>3. QED
  BY <1>2, InitFeeds, PTL DEF Spec

\* The manager's bookkeeping and the channels' fit together, for any number of units, fields
\* and channels and any size of a queue: differences are current, no closed channel is
\* written to, and what the manager knows of a field, unless it is empty, a channel has
\* been told or is about to be, if the last difference in that field has not passed it by.
THEOREM FeedIsRight == Spec => []FeedInv
<1>1. Feeds => FeedInv
  <2> SUFFICES ASSUME Feeds PROVE FeedInv
    OBVIOUS
  <2>1. NoSendOnClosed
    BY DEF Feeds, InTurn, TypeOK, NoSendOnClosed
  <2>2. FeedIsExact
    <3> SUFFICES ASSUME NEW s \in Sub, NEW p \in Place, s \in members,
                        p \notin missed[s] \cup Pending, Shown(known, p) # Empty
                 PROVE  Ahead(s, p) = Shown(known, p)
      BY DEF FeedIsExact, Feeds, TypeOK
    <3>1. Newest(queue[s], sub[s].view, p, Shown(known, p))
      BY DEF Feeds, OnItsWay
    <3>2. queue[s] \in Seq(Messages)
      BY DEF Feeds, TypeOK, Messages
    <3>3. QED
      BY <3>1, <3>2, NewestIsAhead
  <2>3. QED
    BY <2>1, <2>2 DEF Feeds, FeedInv
<1>2. QED
  BY <1>1, FeedsInvariant, PTL
=============================================================================
