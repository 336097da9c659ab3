----------------------------- MODULE ServiceFeed -----------------------------
(***************************************************************************)
(* The live list of services: systemd, the manager that watches it         *)
(* (internal/services), and the channels it feeds (wsapi runServices).     *)
(*                                                                         *)
(* One goroutine takes systemd's signals and polls, keeps the units as it  *)
(* knows them, and publishes differences into bounded queues; a full queue *)
(* loses the difference.  A channel sends a snapshot it has fetched itself *)
(* and subscribes after that.  A difference has the fields that changed;   *)
(* an empty one is left out of the JSON, so that "changed to nothing" and  *)
(* "unchanged" look alike.  The client merges field by field.  A list that *)
(* fails changes nothing, but for the first (WatchLists).                  *)
(***************************************************************************)
EXTENDS Naturals, Sequences

CONSTANTS
  Unit,
  Field,      \* the fields of a unit beside its name
  Queried,    \* those a list asks for unit by unit, and no signal has: EnabledState
  Value,      \* what a field may hold
  Empty,      \* the empty string
  Look,       \* the ways a loaded unit looks
  Fallback,   \* what the client takes a unit for that it has not heard of
  Gone,       \* a unit that is not loaded, or not known
  Sub,        \* the channels
  Size,       \* subscriberSize
  MaxChanges  \* bound: how often systemd changes a unit

ASSUME FeedAssumption ==
  /\ Queried \subseteq Field /\ Empty \in Value
  /\ Look \cup {Fallback} \subseteq [Field -> Value] /\ Gone \notin [Field -> Value]
  /\ {Size, MaxChanges} \subseteq Nat /\ Size > 0

VARIABLES
  actual,   \* actual[u]: the unit in systemd
  changes,  \* how often a unit has changed
  signals,  \* PropertiesChanged on their way to the manager
  watch,    \* watch(): where it is
  todo,     \* the differences it has found and not published yet
  known,    \* Manager.state
  sub,      \* sub[s]: runServices, with what its client has been told
  queue,    \* queue[s]: the channel of changes
  members,  \* changeBroker.subs
  closed,   \* the channels of changes that are closed
  missed    \* history, missed[s]: the places of which a difference passed s by

feedVars == <<signals, watch, todo, known>>
subVars == <<sub, queue, members, closed, missed>>
vars == <<actual, changes, feedVars, subVars>>

Loaded == [Field -> Value]
Units == [Unit -> Loaded \cup {Gone}]
Place == Unit \X Field

\* What units says at a place; nothing, of a unit it does not have.
Shown(units, p) == IF units[p[1]] = Gone THEN Empty ELSE units[p[1]][p[2]]

\* The places where the reader of view does not see what units says.
Behind(units, view) == {p \in Place : Shown(units, p) \notin {Empty, Shown(view, p)}}

Blank == [f \in Field |-> Empty]

\* diffUnits, for one unit, with what omitempty leaves of it.
Diff(old, new) == [f \in Field |-> IF old # Gone /\ old[f] = new[f] THEN Empty ELSE new[f]]

\* What the manager makes of a signal, and the client of a difference.
Merge(look, patch) == [f \in Field |-> IF patch[f] = Empty THEN look[f] ELSE patch[f]]

\* The places a difference <<u, patch>> says something about.
Carried(d) == {p \in Place : p[1] = d[1] /\ d[2][p[2]] # Empty}
Pending == UNION {Carried(d) : d \in todo}

\* What s's client sees at p once its queue is empty.
InQueue(s, p) == {k \in 1..Len(queue[s]) : p \in Carried(queue[s][k])}
Ahead(s, p) ==
  IF InQueue(s, p) = {} THEN Shown(sub[s].view, p)
  ELSE queue[s][CHOOSE k \in InQueue(s, p) : \A j \in InQueue(s, p) : j <= k][2][p[2]]

-----------------------------------------------------------------------------
(***************************************************************************)
(* systemd.                                                                *)
(***************************************************************************)
\* A unit changes, with a signal if the manager has asked for signals; it has some of the
\* fields it may have, and the manager ignores one that has none.  Enabling, loading and
\* unloading change a unit without PropertiesChanged.
Changes(u, look) ==
  /\ changes < MaxChanges /\ changes' = changes + 1
  /\ actual[u] # look /\ actual' = [actual EXCEPT ![u] = look]
  /\ \/ UNCHANGED signals
     \/ /\ watch = "loop" /\ look # Gone
        /\ \E sent \in SUBSET (Field \ Queried) :
             LET patch == [f \in Field |-> IF f \in sent THEN look[f] ELSE Empty] IN
             patch # Blank /\ signals' = Append(signals, <<u, patch>>)
  /\ UNCHANGED <<watch, todo, known, subVars>>

\* listUnits: GetUnitFileState may fail for any of the units, which reads as empty.
Unread(look) == [f \in Field |-> IF f \in Queried THEN Empty ELSE look[f]]
Lists ==
  {[u \in Unit |-> IF u \in lost /\ actual[u] # Gone THEN Unread(actual[u]) ELSE actual[u]] :
    lost \in SUBSET Unit}

-----------------------------------------------------------------------------
(***************************************************************************)
(* watch().                                                                *)
(***************************************************************************)
\* The first list is taken over without a word to anybody; if it fails, watch goes on.
WatchLists ==
  /\ watch = "first" /\ watch' = "match"
  /\ \/ \E list \in Lists :
          /\ known' = list
          /\ missed' = [s \in Sub |-> IF s \in members THEN Behind(list, sub[s].view) ELSE missed[s]]
     \/ UNCHANGED <<known, missed>>
  /\ UNCHANGED <<actual, changes, signals, todo, sub, queue, members, closed>>

\* AddMatch and Subscribe.
WatchMatches ==
  /\ watch = "match" /\ watch' = "loop"
  /\ UNCHANGED <<actual, changes, signals, todo, known, subVars>>

\* One of the two failed, or the bus has gone: nobody starts watch again.
WatchEnds ==
  /\ watch \in {"match", "loop"} /\ todo = {}
  /\ watch' = "ended"
  /\ UNCHANGED <<actual, changes, signals, todo, known, subVars>>

\* Mutant of FromSignal: the manager's own copy is left to the next poll.
FromSignalOnly(u, patch) ==
  LET old == IF known[u] = Gone THEN Blank ELSE known[u]
      new == Merge(old, patch)
  IN  /\ todo' = IF new = old THEN {} ELSE {<<u, Diff(old, new)>>}
      /\ UNCHANGED known

\* handlePropertiesChanged, up to where it keeps what it has found.
FromSignal(u, patch) ==
  LET old == IF known[u] = Gone THEN Blank ELSE known[u]
      new == Merge(old, patch)
  IN  /\ known' = [known EXCEPT ![u] = new]
      /\ todo' = IF new = old THEN {} ELSE {<<u, Diff(old, new)>>}

TakesSignal ==
  /\ watch = "loop" /\ todo = {} /\ signals # <<>>
  /\ FromSignal(Head(signals)[1], Head(signals)[2])
  /\ signals' = Tail(signals)
  /\ UNCHANGED <<actual, changes, watch, subVars>>

\* Mutant of Differences: a unit that is new to the manager is no difference.
DifferencesOfKnown(list) ==
  {<<u, Diff(known[u], list[u])>> : u \in {v \in Unit : Gone \notin {list[v], known[v]} /\ list[v] # known[v]}}

\* diffUnits: a unit that is not in the list is no difference.
Differences(list) ==
  {<<u, Diff(known[u], list[u])>> : u \in {v \in Unit : list[v] \notin {Gone, known[v]}}}

\* poll, for the ticker, UnitNew or UnitRemoved: the list replaces what was known, also
\* where signals of older changes are still on their way.
PollReads(list) ==
  /\ watch = "loop" /\ todo = {}
  /\ known' = list
  /\ todo' = Differences(list)
  /\ UNCHANGED <<actual, changes, signals, watch, subVars>>

Polls == \E list \in Lists : PollReads(list)

\* publish: who has no room does not get it.
Publishes ==
  \E d \in todo :
    LET full == {s \in members : Len(queue[s]) = Size} IN
    /\ todo' = todo \ {d}
    /\ queue' = [s \in Sub |-> IF s \in members \ full THEN Append(queue[s], d) ELSE queue[s]]
    /\ missed' = [s \in Sub |-> IF s \in full THEN missed[s] \cup Carried(d)
                                ELSE IF s \in members THEN missed[s] \ Carried(d) ELSE missed[s]]
    /\ UNCHANGED <<actual, changes, signals, watch, known, sub, members, closed>>

-----------------------------------------------------------------------------
(***************************************************************************)
(* runServices and the subscription.                                       *)
(***************************************************************************)
\* List, and the snapshot is sent.
SubLists(s) ==
  /\ sub[s].at = "off"
  /\ \E list \in Lists : sub' = [sub EXCEPT ![s] = [at |-> "listed", view |-> list]]
  /\ UNCHANGED <<actual, changes, feedVars, queue, members, closed, missed>>

\* SubscribeChanges; the first one starts watch.
SubSubscribes(s) ==
  /\ sub[s].at = "listed"
  /\ sub' = [sub EXCEPT ![s].at = "on"]
  /\ members' = members \cup {s}
  /\ watch' = IF watch = "off" THEN "first" ELSE watch
  /\ missed' = [missed EXCEPT ![s] = Behind(known, sub[s].view) \ Pending]
  /\ UNCHANGED <<actual, changes, signals, todo, known, queue, closed>>

\* subscribeServices, in the browser: what the client makes of a change.
Updated(view, d) ==
  [view EXCEPT ![d[1]] = Merge(IF @ = Gone THEN Fallback ELSE @, d[2])]

\* A change is sent, and reaches the client.
SubReads(s) ==
  /\ sub[s].at = "on" /\ queue[s] # <<>>
  /\ sub' = [sub EXCEPT ![s].view = Updated(@, Head(queue[s]))]
  /\ queue' = [queue EXCEPT ![s] = Tail(@)]
  /\ UNCHANGED <<actual, changes, feedVars, members, closed, missed>>

\* The channel's context ends.
SubLeaves(s) ==
  /\ sub[s].at \in {"listed", "on"}
  /\ sub' = [sub EXCEPT ![s].at = IF s \in members THEN "leaving" ELSE "over"]
  /\ UNCHANGED <<actual, changes, feedVars, queue, members, closed, missed>>

\* The goroutine of SubscribeChanges that waits for the context.
Unsubscribes(s) ==
  /\ sub[s].at = "leaving" /\ s \in members
  /\ closed' = closed \cup {s} /\ members' = members \ {s}
  /\ sub' = [sub EXCEPT ![s].at = "over"]
  /\ UNCHANGED <<actual, changes, feedVars, queue, missed>>

-----------------------------------------------------------------------------
Init ==
  /\ actual \in [Unit -> Look \cup {Gone}] /\ changes = 0
  /\ signals = <<>> /\ watch = "off" /\ todo = {} /\ known = [u \in Unit |-> Gone]
  /\ sub = [s \in Sub |-> [at |-> "off", view |-> [u \in Unit |-> Gone]]]
  /\ queue = [s \in Sub |-> <<>>] /\ members = {} /\ closed = {}
  /\ missed = [s \in Sub |-> {}]

Watches == WatchLists \/ WatchMatches \/ TakesSignal \/ Publishes

Serves(s) == SubSubscribes(s) \/ SubReads(s) \/ Unsubscribes(s)

Next ==
  \/ \E u \in Unit, look \in Look \cup {Gone} : Changes(u, look)
  \/ Watches \/ Polls \/ WatchEnds
  \/ \E s \in Sub : SubLists(s) \/ Serves(s) \/ SubLeaves(s)

Spec == Init /\ [][Next]_vars

\* Goroutines run; the ticker fires again and again, select does not pass it over for
\* ever, and not every answer of systemd fails.
FairSpec ==
  /\ Spec
  /\ WF_vars(Watches) /\ SF_vars(PollReads(actual))
  /\ \A s \in Sub : WF_vars(Serves(s))

-----------------------------------------------------------------------------
(***************************************************************************)
(* Properties.                                                             *)
(***************************************************************************)
\* Every variable stays within its range, a queue within its size.
TypeOK ==
  /\ actual \in Units /\ known \in Units /\ changes \in Nat
  /\ signals \in Seq(Unit \X Loaded) /\ todo \subseteq Unit \X Loaded
  /\ watch \in {"off", "first", "match", "loop", "ended"}
  /\ sub \in [Sub -> [at : {"off", "listed", "on", "leaving", "over"}, view : Units]]
  /\ queue \in [Sub -> Seq(Unit \X Loaded)] /\ \A s \in Sub : Len(queue[s]) <= Size
  /\ members \subseteq Sub /\ closed \subseteq Sub /\ missed \in [Sub -> SUBSET Place]

\* What a client has been told of a field, with what is queued for it and what is still
\* to be published, is what the manager knows, unless that is nothing or the last
\* difference in the field passed the client by: before it subscribed, in the manager's
\* first list, or at a full queue.  A difference in another field does not make up for it.
FeedIsExact ==
  \A s \in members : \A p \in Place \ (missed[s] \cup Pending) :
    Shown(known, p) \in {Empty, Ahead(s, p)}

\* A difference that is still to be published says what the manager has written down.
DifferenceIsCurrent == \A d \in todo : \A p \in Carried(d) : Shown(known, p) = d[2][p[2]]

\* publish never meets a closed channel, which would panic in watch and take the agent
\* with it.
NoSendOnClosed == members \cap closed = {}

\* The bookkeeping of manager, broker and channels, and what it is for.
FeedInv == TypeOK /\ DifferenceIsCurrent /\ NoSendOnClosed /\ FeedIsExact

\* A client that stays is told each field of each loaded unit in the end, unless the field
\* is empty or its last difference passed the client by.
ViewCatchesUp ==
  \A s \in Sub : <>[](sub[s].at = "on" /\ watch # "ended" => Behind(actual, sub[s].view) \subseteq missed[s])

\* docs/PROTOCOL.md: "This is how edits made over SSH surface in the browser without a page
\* refresh."  A client that stays sees systemd's list in the end.  It does not if a
\* difference passed it by: the next poll compares with what the manager knows.
EditsSurface ==
  \A s \in Sub : <>[](sub[s].at = "on" /\ watch # "ended" => Behind(actual, sub[s].view) = {})
=============================================================================
