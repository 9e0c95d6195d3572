-------------------------------- MODULE Store --------------------------------
(***************************************************************************)
(* The SQLite file of a device and its points: the migrations of             *)
(* internal/store/database.go, which the process runs whenever it starts and *)
(* may be killed in, and the transactions of internal/store/point.go and     *)
(* device.go.                                                                *)
(*                                                                          *)
(* The store has one connection, so a transaction excludes every other       *)
(* statement, and SQLite makes it atomic: each is one step.  A point is its  *)
(* id and tag name; tag names are numbers, by which a list is ordered.       *)
(***************************************************************************)
EXTENDS Naturals, FiniteSets

CONSTANTS
    Tag,       \* tag names
    MaxPoints  \* bound on the points ever made

ASSUME StoreAssumption == Tag \subseteq Nat /\ IsFiniteSet(Tag) /\ MaxPoints \in Nat

VARIABLES
    opening,   \* the migration the process is at, Up, Refused or Down
    applied,   \* the migrations the file's tables show
    recorded,  \* the rows of schema_migrations
    device,    \* whether the device has its row, before that and after: "none" and "gone"
    kafka,     \* whether it has a row in device_kafka_configs
    points,    \* its points
    sequence,  \* the last id of a point, in sqlite_sequence
    made       \* points made so far, by which each can be told from any other

schemaVars == <<opening, applied, recorded>>
rowVars    == <<device, kafka, points, sequence, made>>
storeVars  == <<schemaVars, rowVars>>

Migration == 1..4
KafkaMigration == 4
Down == 0
Up == 5
Refused == 6
IsUp == opening = Up

Ids(ps) == {p.id : p \in ps}
Tags(ps) == {p.tag : p \in ps}

\* Points for some tags, made in the order of the tags.
PointsOf(tags, lastId, lastMade) ==
    LET rank(t) == Cardinality({u \in tags : u <= t})
    IN  {[id |-> lastId + rank(t), tag |-> t, nth |-> lastMade + rank(t)] : t \in tags}

\* A new file, or one that an older version of the program has left.
StoreInit ==
    /\ opening = Down
    /\ \E n \in 0 .. Cardinality(Migration) : applied = 1..n /\ recorded = 1..n
    /\ device \in {"none", "there"} /\ (applied = {} => device = "none")
    /\ kafka = (device = "there" /\ KafkaMigration \in applied)
    /\ \E tags \in IF device = "there" THEN {{}, Tag} ELSE {{}} :
          /\ points = PointsOf(tags, 0, 0)
          /\ sequence = Cardinality(tags) /\ made = Cardinality(tags)

----------------------------------------------------------------------------
(* Open and migrate.                                                        *)

StartProcess ==
    /\ opening = Down
    /\ opening' = 1
    /\ UNCHANGED <<applied, recorded, rowVars>>

\* The process is killed, or fails to open its database and exits.
Die ==
    /\ opening # Down /\ opening' = Down
    /\ UNCHANGED <<applied, recorded, rowVars>>

\* The schema's statements, each on its own, each for what is not there yet.
CreateTables ==
    /\ opening = 1
    /\ applied' = applied \cup {1}
    /\ \/ recorded' = recorded \cup {1} /\ opening' = 2
       \/ 1 \notin recorded /\ UNCHANGED <<recorded, opening>>
    /\ UNCHANGED rowVars

\* Mutant: a migration leaves the record to its caller.
RecordsNothing(v) == {}
Records(v) == {v}

\* Mutant: the new table has no rows for the devices there are.
TableOnly(v) == kafka
RowsOf(v) == kafka \/ (v = KafkaMigration /\ device = "there")

\* The tables of a migration and its record, in one transaction, unless recorded.
ApplyMigration(v) ==
    /\ opening = v
    /\ IF v \in recorded THEN opening' = v + 1 /\ UNCHANGED <<applied, recorded, kafka>>
       ELSE IF v \in applied THEN opening' = Refused /\ UNCHANGED <<applied, recorded, kafka>>
       ELSE /\ opening' = v + 1
            /\ applied' = applied \cup {v}
            /\ recorded' = recorded \cup Records(v)
            /\ kafka' = RowsOf(v)
    /\ UNCHANGED <<device, points, sequence, made>>

OpenStep == StartProcess \/ CreateTables \/ \E v \in Migration \ {1} : ApplyMigration(v)

----------------------------------------------------------------------------
(* Devices and points.                                                      *)

CreateDevice ==
    /\ IsUp
    /\ device = "none" /\ device' = "there"
    /\ kafka' = TRUE
    /\ UNCHANGED <<schemaVars, points, sequence, made>>

\* With all that belongs to it.
DeleteDevice ==
    /\ IsUp
    /\ device = "there" /\ device' = "gone"
    /\ kafka' = FALSE /\ points' = {}
    /\ UNCHANGED <<schemaVars, sequence, made>>

\* An edit is one of a device that exists: its config_version is counted up.
Edits ==
    /\ IsUp /\ device = "there"
    /\ UNCHANGED <<schemaVars, device, kafka>>

\* The last id given, of which the rows that are left say nothing.
\* Mutant: the last of the rows.
LastOf(rows) == IF rows = {} THEN 0 ELSE CHOOSE n \in Ids(rows) : \A k \in Ids(rows) : k <= n
LastId(rows) == sequence

Inserted(rows, tags) ==
    /\ made + Cardinality(tags) <= MaxPoints
    /\ points' = rows \cup PointsOf(tags, LastId(rows), made)
    /\ sequence' = LastId(rows) + Cardinality(tags) /\ made' = made + Cardinality(tags)

\* A tag that the device has already is a conflict: nothing is done.
CreatePoint(tag) ==
    /\ Edits
    /\ tag \notin Tags(points)
    /\ Inserted(points, {tag})

UpdatePoint(p, tag) ==
    /\ Edits
    /\ p \in points /\ tag \notin Tags(points \ {p})
    /\ points' = (points \ {p}) \cup {[p EXCEPT !.tag = tag]}
    /\ UNCHANGED <<sequence, made>>

\* All of them or, when one is not there, none.
DeletePoints(ids) ==
    /\ Edits
    /\ ids # {} /\ ids \subseteq Ids(points)
    /\ points' = {p \in points : p.id \notin ids}
    /\ UNCHANGED <<sequence, made>>

ReplacePoints(tags) == Edits /\ Inserted({}, tags)

Edit ==
    \/ \E tag \in Tag : CreatePoint(tag)
    \/ \E p \in points, tag \in Tag : UpdatePoint(p, tag)
    \/ \E p \in points : DeletePoints({p.id})
    \/ \E tags \in SUBSET Tag : ReplacePoints(tags)

----------------------------------------------------------------------------
(* Properties.                                                              *)

\* Killed wherever it was, the process finds a file it can open.
AlwaysOpens == opening # Refused

\* A device has its push configuration, whichever version of the program made it.
EveryDeviceCanPush == IsUp /\ device = "there" => kafka

==============================================================================
