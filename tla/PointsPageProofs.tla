--------------------------- MODULE PointsPageProofs ---------------------------
(***************************************************************************)
(* What holds of the store and of the page that edits it for any tags, any   *)
(* page sizes and any number of points: the file can be opened whenever the  *)
(* process was killed, and a page deletes only what its user has seen.       *)
(*                                                                          *)
(* The second is about the ids of points: an id in an old list stands for    *)
(* the same point in the file, because sqlite_sequence outlives the rows and *)
(* no id is given twice.                                                     *)
(***************************************************************************)
EXTENDS PointsPage, FunctionTheorems, FiniteSetTheorems, TLAPS

Point == [id : Nat, tag : Tag, nth : Nat]

\* A migration and its record are one; the last one has seen to every device.
Schema ==
    /\ opening \in {Down, Up} \cup Migration
    /\ kafka \in BOOLEAN
    /\ \A v \in Migration \ {1} : v \in applied <=> v \in recorded
    /\ IsUp => KafkaMigration \in recorded
    /\ KafkaMigration \in recorded /\ device = "there" => kafka

\* The points in the file, in the list, and in the hands of DeletePage.
Known == points \cup items \cup (IF delete = None THEN {} ELSE delete)

\* An id names one point, and is not given again.
Named ==
    /\ sequence \in Nat /\ made \in Nat
    /\ Known \subseteq Point
    /\ \A p \in Known : p.id <= sequence
    /\ \A p, q \in Known : p.id = q.id => p.nth = q.nth

----------------------------------------------------------------------------
(* The schema.                                                              *)

LEMMA SchemaInit == Init => Schema
<1> SUFFICES ASSUME StoreInit PROVE Schema
  BY DEF Init
<1>1. opening = Down /\ applied = recorded
  BY DEF StoreInit
<1>2. kafka = (device = "there" /\ KafkaMigration \in applied)
  BY DEF StoreInit
<1>3. kafka \in BOOLEAN /\ (KafkaMigration \in recorded /\ device = "there" => kafka)
  BY <1>1, <1>2
<1> QED
  BY <1>1, <1>3 DEF Schema, Down, Up, IsUp

\* The steps that leave the schema to itself.
LEMMA SchemaKept ==
  ASSUME Schema,
         UNCHANGED <<schemaVars, device, kafka>>
  PROVE  Schema'
BY DEF Schema, schemaVars, IsUp

LEMMA SchemaStep == Schema /\ [Next]_vars => Schema'
<1> SUFFICES ASSUME Schema, [Next]_vars PROVE Schema'
  OBVIOUS
<1>1. CASE StartProcess \/ CreateTables
  BY <1>1 DEF StartProcess, CreateTables, Schema, rowVars, Migration, KafkaMigration, Down, Up,
     Refused, IsUp
<1>2. ASSUME NEW v \in Migration \ {1}, ApplyMigration(v) PROVE Schema'
  <2>1. CASE v \in recorded
    BY <1>2, <2>1 DEF ApplyMigration, Schema, Migration, KafkaMigration, Down, Up, Refused, IsUp
  <2>2. CASE v \notin recorded
    <3>1. /\ v \notin applied
          /\ opening = v /\ opening' = v + 1
          /\ applied' = applied \cup {v} /\ recorded' = recorded \cup {v}
          /\ kafka' = (kafka \/ (v = KafkaMigration /\ device = "there"))
          /\ device' = device
      BY <1>2, <2>2 DEF ApplyMigration, Schema, Records, RowsOf
    <3>2. kafka' \in BOOLEAN /\ (v = KafkaMigration /\ device = "there" => kafka')
             /\ (kafka => kafka')
      BY <3>1 DEF Schema
    <3> QED
      BY <3>1, <3>2 DEF Schema, Migration, KafkaMigration, Down, Up, IsUp
  <2> QED BY <2>1, <2>2
<1>3. CASE CreateDevice \/ DeleteDevice
  BY <1>3 DEF CreateDevice, DeleteDevice, Schema, schemaVars, IsUp
<1>4. CASE Edit
  BY <1>4, SchemaKept DEF Edit, CreatePoint, UpdatePoint, DeletePoints, ReplacePoints, Edits
<1>5. CASE Crash
  BY <1>5 DEF Crash, Die, Schema, rowVars, Down, Up, IsUp
<1>6. CASE Count \/ AnswerLatest \/ AnswerStale \/ (\E q \in Queries : TypeSearch(q))
           \/ DeletePage \/ BatchRefused
  BY <1>6, SchemaKept DEF Count, AnswerLatest, AnswerStale, TypeSearch, DeletePage,
     BatchRefused, storeVars, rowVars
<1>7. CASE Loads
  BY <1>7, SchemaKept DEF Loads, Reload, SetPage, ChangeQuery, SearchTimer, BatchDeleted,
     DeletePoints, Edits, storeVars, rowVars
<1>8. CASE UNCHANGED vars
  BY <1>8, SchemaKept DEF vars, storeVars, rowVars
<1> QED
  BY <1>1, <1>2, <1>3, <1>4, <1>5, <1>6, <1>7, <1>8 DEF Next, OpenStep

\* However often the process is killed, and in whichever migration, the next start
\* finds a file it can open: AlwaysOpens.
THEOREM FileOpens == Spec => []AlwaysOpens
<1>1. Schema => AlwaysOpens
  BY DEF Schema, AlwaysOpens, Migration, Down, Up, Refused
<1> QED BY <1>1, SchemaInit, SchemaStep, PTL DEF Spec

\* Once the service is up, each device has a push configuration, also one that an older
\* version has made: EveryDeviceCanPush.
THEOREM DevicesCanPush == Spec => []EveryDeviceCanPush
<1>1. Schema => EveryDeviceCanPush
  BY DEF Schema, EveryDeviceCanPush, IsUp
<1> QED BY <1>1, SchemaInit, SchemaStep, PTL DEF Spec

----------------------------------------------------------------------------
(* Ids.                                                                     *)

LEMMA TagsCount ==
  ASSUME NEW tags \in SUBSET Tag
  PROVE  IsFiniteSet(tags) /\ Cardinality(tags) \in Nat
BY StoreAssumption, FS_Subset, FS_CardinalityType

\* The ids of new points follow the last one, in step with their numbers.
LEMMA NewIds ==
  ASSUME NEW tags \in SUBSET Tag, NEW n \in Nat, NEW m \in Nat,
         NEW p \in PointsOf(tags, n, m)
  PROVE  /\ p \in Point
         /\ n < p.id /\ p.id <= n + Cardinality(tags)
         /\ p.nth = m + (p.id - n)
<1> DEFINE rank(t) == Cardinality({u \in tags : u <= t})
<1>1. PICK t \in tags : p = [id |-> n + rank(t), tag |-> t, nth |-> m + rank(t)]
  BY DEF PointsOf
<1>2. rank(t) \in Nat /\ rank(t) <= Cardinality(tags)
  BY TagsCount, FS_Subset, FS_CardinalityType
<1>3. rank(t) # 0
  <2>1. t \in {u \in tags : u <= t}
    BY StoreAssumption
  <2>2. IsFiniteSet({u \in tags : u <= t})
    BY TagsCount, FS_Subset
  <2> QED BY <2>1, <2>2, FS_EmptySet
<1> HIDE DEF rank
<1> QED
  BY <1>1, <1>2, <1>3, TagsCount DEF Point

LEMMA NamedInit == Init => Named
<1> SUFFICES ASSUME Init PROVE Named
  OBVIOUS
<1>1. PICK tags \in SUBSET Tag : /\ points = PointsOf(tags, 0, 0)
                                 /\ sequence = Cardinality(tags) /\ made = Cardinality(tags)
  BY DEF Init, StoreInit
<1>2. Known = points
  BY DEF Init, Known
<1>3. \A p \in points : p \in Point /\ p.id <= sequence /\ p.nth = p.id
  BY <1>1, NewIds, TagsCount DEF Point
<1> QED
  BY <1>1, <1>2, <1>3, TagsCount DEF Named

\* No point is new and none is forgotten that could come back.
LEMMA NamedKept ==
  ASSUME Named, Known' \subseteq Known, UNCHANGED <<sequence, made>>
  PROVE  Named'
<1>1. /\ sequence' = sequence /\ made' = made
  OBVIOUS
<1> QED BY <1>1 DEF Named

LEMMA NamedInserted ==
  ASSUME Named, NEW rows \in SUBSET points, NEW tags \in SUBSET Tag,
         Inserted(rows, tags), UNCHANGED <<items, delete>>
  PROVE  Named'
<1> DEFINE new == PointsOf(tags, sequence, made)
<1>1. /\ points' = rows \cup new
      /\ sequence' = sequence + Cardinality(tags) /\ made' = made + Cardinality(tags)
  BY DEF Inserted, LastId
<1>2. Known' \subseteq Known \cup new
  BY <1>1 DEF Known
<1>3. \A p \in new : /\ p \in Point
                     /\ sequence < p.id /\ p.id <= sequence'
                     /\ p.nth = made + (p.id - sequence)
  BY <1>1, NewIds DEF Named
<1>4. sequence' \in Nat /\ made' \in Nat /\ sequence <= sequence'
  BY <1>1, TagsCount DEF Named
<1>5. \A p \in Known : p \in Point /\ p.id <= sequence
  BY DEF Named
<1>6. \A p \in Known' : p \in Point /\ p.id <= sequence'
  BY <1>2, <1>3, <1>4, <1>5 DEF Named, Point
<1>7. ASSUME NEW p \in Known', NEW q \in Known', p.id = q.id PROVE p.nth = q.nth
  <2>1. CASE p \in new /\ q \in new
    BY <2>1, <1>3, <1>7
  <2>2. CASE p \in Known /\ q \in Known
    BY <2>2, <1>7 DEF Named
  <2>3. \A r \in new, o \in Known : r.id # o.id
    BY <1>3, <1>5 DEF Named, Point
  <2> QED BY <1>2, <1>7, <2>1, <2>2, <2>3
<1> QED BY <1>4, <1>6, <1>7 DEF Named

LEMMA NamedUpdated ==
  ASSUME Named, NEW p \in points, NEW tag \in Tag, UpdatePoint(p, tag),
         UNCHANGED <<items, delete>>
  PROVE  Named'
<1> DEFINE new == [p EXCEPT !.tag = tag]
<1>1. p \in Known /\ p \in Point
  BY DEF Known, Named
<1>2. new \in Point /\ new.id = p.id /\ new.nth = p.nth
  BY <1>1 DEF Point
<1>3. Known' \subseteq Known \cup {new}
  BY DEF UpdatePoint, Known
<1>4. sequence' = sequence /\ made' = made
  BY DEF UpdatePoint
<1> HIDE DEF new
<1> QED BY <1>1, <1>2, <1>3, <1>4 DEF Named

LEMMA NamedDeleted ==
  ASSUME Named, NEW ids, DeletePoints(ids), items' = items,
         delete' = delete \/ delete' = None
  PROVE  Named'
<1>1. Known' \subseteq Known
  BY DEF DeletePoints, Known
<1> QED BY <1>1, NamedKept DEF DeletePoints

LEMMA NamedEdit == Named /\ Edit /\ UNCHANGED pageVars => Named'
<1> SUFFICES ASSUME Named, Edit, UNCHANGED pageVars PROVE Named'
  OBVIOUS
<1>1. UNCHANGED <<items, delete>>
  BY DEF pageVars
<1>2. ASSUME NEW tag \in Tag, CreatePoint(tag) PROVE Named'
  BY <1>1, <1>2, NamedInserted DEF CreatePoint
<1>3. ASSUME NEW p \in points, NEW tag \in Tag, UpdatePoint(p, tag) PROVE Named'
  BY <1>1, <1>3, NamedUpdated
<1>4. ASSUME NEW p \in points, DeletePoints({p.id}) PROVE Named'
  BY <1>1, <1>4, NamedDeleted
<1>5. ASSUME NEW tags \in SUBSET Tag, ReplacePoints(tags) PROVE Named'
  BY <1>1, <1>5, NamedInserted DEF ReplacePoints
<1> QED BY <1>2, <1>3, <1>4, <1>5 DEF Edit

LEMMA NamedStep == Named /\ [Next]_vars => Named'
<1> SUFFICES ASSUME Named, [Next]_vars PROVE Named'
  OBVIOUS
<1>1. CASE OpenStep /\ UNCHANGED pageVars
  <2>1. UNCHANGED <<points, sequence, made, items, delete>>
    BY <1>1 DEF OpenStep, StartProcess, CreateTables, ApplyMigration, rowVars, pageVars
  <2> QED BY <2>1, NamedKept DEF Known
<1>2. CASE (CreateDevice \/ DeleteDevice) /\ UNCHANGED pageVars
  <2>1. points' \subseteq points /\ UNCHANGED <<sequence, made, items, delete>>
    BY <1>2 DEF CreateDevice, DeleteDevice, pageVars
  <2> QED BY <2>1, NamedKept DEF Known
<1>3. CASE Edit /\ UNCHANGED pageVars
  BY <1>3, NamedEdit
<1>4. CASE Crash \/ Count \/ AnswerStale \/ BatchRefused \/ (\E q \in Queries : TypeSearch(q))
  <2>1. /\ UNCHANGED <<points, sequence, made, items>>
        /\ delete' = delete \/ delete' = None
    BY <1>4 DEF Crash, Die, Count, AnswerStale, Ignore, BatchRefused, TypeSearch, storeVars, rowVars
  <2> QED BY <2>1, NamedKept DEF Known
<1>5. CASE AnswerLatest
  <2>1. UNCHANGED <<points, sequence, made, delete>> /\ items' \subseteq items \cup points
    BY <1>5 DEF AnswerLatest, Show, Fail, Page, Matching, storeVars, rowVars
  <2> QED BY <2>1, NamedKept DEF Known
<1>6. CASE DeletePage
  <2>1. UNCHANGED <<points, sequence, made, items>> /\ delete' = items
    BY <1>6 DEF DeletePage, storeVars, rowVars
  <2> QED BY <2>1, NamedKept DEF Known
<1>7. CASE BatchDeleted
  BY <1>7, NamedDeleted DEF BatchDeleted
<1>8. CASE Reload \/ (\E n \in 1 .. Cardinality(Tag) : SetPage(n))
           \/ (\E q \in Queries : ChangeQuery(q)) \/ SearchTimer
  <2>1. UNCHANGED <<points, sequence, made, items, delete>>
    BY <1>8 DEF Reload, SetPage, ChangeQuery, SearchTimer, storeVars, rowVars
  <2> QED BY <2>1, NamedKept DEF Known
<1>9. CASE UNCHANGED vars
  <2>1. UNCHANGED <<points, sequence, made, items, delete>>
    BY <1>9 DEF vars, storeVars, rowVars, pageVars
  <2> QED BY <2>1, NamedKept DEF Known
<1> QED
  BY <1>1, <1>2, <1>3, <1>4, <1>5, <1>6, <1>7, <1>8, <1>9 DEF Next, Loads

\* Whatever others have made of the points since the list was shown, what the page
\* deletes is what was in it: DeletesWhatWasSeen.
THEOREM OnlySeenDeleted == Spec => DeletesWhatWasSeen
<1>1. ASSUME Named, [Next]_vars, delete # None, delete' = None,
             NEW p \in points \ points'
      PROVE  \E s \in delete : s.nth = p.nth
  <2>1. BatchDeleted \/ BatchRefused
    BY <1>1 DEF Next, Crash, Count, AnswerLatest, AnswerStale, Loads, Reload, SetPage, ChangeQuery,
       SearchTimer, TypeSearch, DeletePage, pageVars, vars
  <2>2. BatchDeleted
    BY <1>1, <2>1 DEF BatchRefused, storeVars, rowVars
  <2>3. PICK s \in delete : s.id = p.id
    BY <1>1, <2>2 DEF BatchDeleted, DeletePoints, Ids
  <2>4. s \in Known /\ p \in Known
    BY <1>1 DEF Known
  <2> QED BY <1>1, <2>3, <2>4 DEF Named
<1>2. Named /\ [Next]_vars =>
        [delete # None /\ delete' = None =>
            \A p \in points \ points' : \E s \in delete : s.nth = p.nth]_vars
  BY <1>1
<1> QED BY <1>2, NamedInit, NamedStep, PTL DEF Spec, DeletesWhatWasSeen

----------------------------------------------------------------------------
(* Requests.                                                                *)

LEMMA NewFinite ==
  ASSUME NEW tags \in SUBSET Tag, NEW n, NEW m
  PROVE  IsFiniteSet(PointsOf(tags, n, m))
<1> DEFINE rank(t) == Cardinality({u \in tags : u <= t})
           f == [t \in tags |-> [id |-> n + rank(t), tag |-> t, nth |-> m + rank(t)]]
<1>1. PointsOf(tags, n, m) = {f[t] : t \in tags}
  BY DEF PointsOf
<1> HIDE DEF f
<1>2. f \in [tags -> {f[t] : t \in tags}]
  BY DEF f
<1>3. f \in Surjection(tags, {f[t] : t \in tags})
  BY <1>2 DEF Surjection
<1> QED BY <1>1, <1>3, TagsCount, FS_Surjection

\* A list of points can be counted.
Finite == IsFiniteSet(points)

LEMMA FiniteInit == Init => Finite
  BY NewFinite DEF Init, StoreInit, Finite

LEMMA FiniteStep == Finite /\ [Next]_vars => Finite'
<1> SUFFICES ASSUME Finite, [Next]_vars PROVE Finite'
  OBVIOUS
<1>1. CASE points' = points
  BY <1>1 DEF Finite
<1>2. CASE DeleteDevice \/ (\E ids : DeletePoints(ids))
  BY <1>2, FS_Subset, FS_EmptySet DEF DeleteDevice, DeletePoints, Finite
<1>3. ASSUME NEW p \in points, NEW tag \in Tag, UpdatePoint(p, tag) PROVE Finite'
  BY <1>3, FS_AddElement, FS_RemoveElement DEF UpdatePoint, Finite
<1>4. ASSUME NEW rows \in SUBSET points, NEW tags \in SUBSET Tag, Inserted(rows, tags)
      PROVE  Finite'
  BY <1>4, NewFinite, FS_Subset, FS_Union DEF Inserted, Finite
<1>5. CASE Edit
  <2>1. ASSUME NEW tag \in Tag, CreatePoint(tag) PROVE Finite'
    BY <2>1, <1>4 DEF CreatePoint
  <2>2. ASSUME NEW tags \in SUBSET Tag, ReplacePoints(tags) PROVE Finite'
    BY <2>2, <1>4 DEF ReplacePoints
  <2> QED BY <1>2, <1>3, <1>5, <2>1, <2>2 DEF Edit
<1>6. points' = points \/ DeleteDevice \/ (\E ids : DeletePoints(ids)) \/ Edit
  BY DEF Next, OpenStep, StartProcess, CreateTables, ApplyMigration, CreateDevice, Crash, Die, Count,
     AnswerLatest, AnswerStale, Loads, Reload, SetPage, ChangeQuery, SearchTimer, BatchDeleted,
     TypeSearch, DeletePage, BatchRefused, vars, storeVars, rowVars
<1> QED BY <1>1, <1>2, <1>5, <1>6

\* The request under way, when no search is to follow it, is for what the controls show.
Paging ==
    /\ query \in Queries /\ number \in Nat
    /\ latest # None => latest \in ListRequest
    /\ enabled \in BOOLEAN /\ ButtonsComeBack
    /\ latest # None /\ ~typing => Asks(latest) = [query |-> query, number |-> number]
    /\ ShownIsAsked

LEMMA PagingInit == Init => Paging
  BY DEF Init, Paging, ButtonsComeBack, ShownIsAsked

LEMMA MatchingCount ==
  ASSUME Finite, NEW q
  PROVE  Cardinality(Matching(q)) \in Nat
BY FS_Subset, FS_CardinalityType DEF Finite, Matching

LEMMA PagesCount ==
  ASSUME NEW n \in Nat, NEW size \in Nat \ {0}
  PROVE  Pages(n, size) \in Nat
<1>1. (n + size - 1) \div size \in Nat
  OBVIOUS
<1> QED BY <1>1 DEF Pages

\* A new request is one, and for what it was made for.
LEMMA RequestIs ==
  ASSUME NEW q \in Queries, NEW n \in Nat
  PROVE  /\ Request(q, n) \in ListRequest
         /\ Request(q, n) # None
         /\ Asks(Request(q, n)) = [query |-> q, number |-> n]
BY NoneAssumption DEF Request, ListRequest, Asks

LEMMA LoadOK ==
  ASSUME Paging, query' \in Queries, number' \in Nat, Load(query', number')
  PROVE  Paging'
<1>1. latest' = Request(query', number') /\ enabled' = FALSE
  BY DEF Load
<1>2. /\ latest' \in ListRequest /\ latest' # None
      /\ Asks(latest') = [query |-> query', number |-> number']
  BY <1>1, RequestIs
<1>3. Asks(latest)' = Asks(latest')
  BY DEF Asks
<1> QED BY <1>1, <1>2, <1>3 DEF Paging, ButtonsComeBack, ShownIsAsked

LEMMA AnswerOK == Paging /\ AnswerLatest => Paging'
<1> SUFFICES ASSUME Paging, AnswerLatest PROVE Paging'
  OBVIOUS
<1>1. latest \in ListRequest /\ query' = query /\ typing' = typing
  BY DEF AnswerLatest, Paging
<1>2. CASE Fail
  BY <1>1, <1>2 DEF Fail, RestoreButtons, Paging, ButtonsComeBack, ShownIsAsked
<1>3. CASE Show(latest, latest.total) /\ number > Pages(latest.total, query.size)
  <2>1. /\ number' = Pages(latest.total, query.size)
        /\ latest' = Request(query, number')
        /\ enabled' = enabled
    BY <1>3 DEF Show
  <2>2. latest.total \in Nat /\ query.size \in Nat \ {0}
    BY <1>1, PageAssumption DEF ListRequest, Paging
  <2>3. number' \in Nat
    BY <2>1, <2>2, PagesCount
  <2>4. /\ latest' \in ListRequest /\ latest' # None
        /\ Asks(latest') = [query |-> query', number |-> number']
    BY <1>1, <2>1, <2>3, RequestIs DEF Paging
  <2>5. Asks(latest)' = Asks(latest')
    BY DEF Asks
  <2>6. latest # None
    BY DEF AnswerLatest
  <2> QED BY <1>1, <2>1, <2>3, <2>4, <2>5, <2>6 DEF Paging, ButtonsComeBack, ShownIsAsked
<1>4. CASE Show(latest, latest.total) /\ ~(number > Pages(latest.total, query.size))
  <2>1. /\ shown' = Asks(latest) /\ enabled' = TRUE /\ latest' = None /\ number' = number
    BY <1>4 DEF Show
  <2>2. ~typing => Asks(latest) = [query |-> query, number |-> number]
    BY DEF AnswerLatest, Paging
  <2> QED BY <1>1, <2>1, <2>2 DEF Paging, ButtonsComeBack, ShownIsAsked
<1> QED BY <1>2, <1>3, <1>4 DEF AnswerLatest

\* The steps that leave the page's requests alone.
LEMMA PagingKept ==
  ASSUME Paging, UNCHANGED <<query, number, typing, enabled, latest, shown>>
  PROVE  Paging'
BY DEF Paging, ButtonsComeBack, ShownIsAsked, Asks

LEMMA PagingStep == Finite /\ Paging /\ [Next]_vars => Paging'
<1> SUFFICES ASSUME Finite, Paging, [Next]_vars PROVE Paging'
  OBVIOUS
<1>1. CASE \/ UNCHANGED pageVars \/ UNCHANGED vars
           \/ AnswerStale \/ DeletePage \/ BatchRefused
  BY <1>1, PagingKept DEF pageVars, vars, AnswerStale, Ignore, DeletePage, BatchRefused
<1>2. CASE Crash \/ Count
  <2>1. /\ UNCHANGED <<query, number, typing, enabled, shown>>
        /\ latest = None => latest' = None
    BY <1>2 DEF Crash, Count
  <2>2. ASSUME latest # None PROVE latest' \in ListRequest /\ Asks(latest)' = Asks(latest)
    <3>1. latest \in ListRequest
      BY <2>2 DEF Paging
    <3>2. Cardinality(Matching(latest.query)) \in Nat
      BY MatchingCount
    <3>3. \/ latest' = [latest EXCEPT !.at = "counted", !.total = Cardinality(Matching(latest.query))]
          \/ latest' = [latest EXCEPT !.at = "failed"]
          \/ latest' = [latest EXCEPT !.at = "failed", !.total = 0]
      BY <1>2, <2>2 DEF Crash, Count
    <3>4. Asks(latest)' = [query |-> latest'.query, number |-> latest'.number]
      BY DEF Asks
    <3>5. ASSUME NEW k \in Nat, NEW at \in {"counted", "failed"},
                 latest' = [latest EXCEPT !.at = at, !.total = k] \/ latest' = [latest EXCEPT !.at = at]
          PROVE  latest' \in ListRequest /\ latest'.query = latest.query /\ latest'.number = latest.number
      BY <3>1, <3>5 DEF ListRequest
    <3> QED BY <3>2, <3>3, <3>4, <3>5 DEF Asks
  <2>3. latest = None <=> latest' = None
    BY <2>1, <2>2, NoneAssumption
  <2>4. CASE latest = None
    BY <2>1, <2>3, <2>4 DEF Paging, ButtonsComeBack, ShownIsAsked
  <2>5. CASE latest # None
    BY <2>1, <2>2, <2>3, <2>5 DEF Paging, ButtonsComeBack, ShownIsAsked
  <2> QED BY <2>4, <2>5
<1>3. CASE AnswerLatest
  BY <1>3, AnswerOK
<1>4. CASE \E q \in Queries : TypeSearch(q)
  BY <1>4 DEF TypeSearch, Paging, ButtonsComeBack, ShownIsAsked
<1>5. CASE Loads
  <2>1. query' \in Queries /\ number' \in Nat
    BY <1>5 DEF Loads, Reload, SetPage, ChangeQuery, SearchTimer, BatchDeleted, Paging
  <2>2. Load(query', number')
    BY <1>5 DEF Loads, Reload, SetPage, ChangeQuery, SearchTimer, BatchDeleted
  <2> QED BY <2>1, <2>2, LoadOK
<1> QED BY <1>1, <1>2, <1>3, <1>4, <1>5 DEF Next

LEMMA PagingInductive == Spec => [](Finite /\ Paging)
  BY FiniteInit, FiniteStep, PagingInit, PagingStep, PTL DEF Spec

\* In whatever order requests are made and answered, a list at rest is the one that the
\* controls show the query and page of: ShownIsAsked.
THEOREM ListIsAsked == Spec => []ShownIsAsked
<1>1. Paging => ShownIsAsked
  BY DEF Paging
<1> QED BY <1>1, PagingInductive, PTL

\* The paging buttons are enabled exactly when no request is under way: ButtonsComeBack.
THEOREM ButtonsAreBack == Spec => []ButtonsComeBack
<1>1. Paging => ButtonsComeBack
  BY DEF Paging
<1> QED BY <1>1, PagingInductive, PTL

==============================================================================
