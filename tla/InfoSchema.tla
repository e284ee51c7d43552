---------------------------- MODULE InfoSchema ----------------------------
(***************************************************************************)
(* The in-memory schema of a server (schemareplicant/infoschema.go) and    *)
(* the Builder that makes the next one from the last one and the diffs of  *)
(* the versions in between, or from scratch (schemareplicant/builder.go).  *)
(*                                                                         *)
(* A published schema is read without a lock while the next one is built   *)
(* from shared parts, so the parts are modelled as the objects they are:   *)
(* isDBs is the heap of schemaBlocks objects, isBuckets the heap of        *)
(* sortedBlocks slices, and a schema holds references into both.  A        *)
(* Builder's in-place changes are changes of a heap cell.                  *)
(*                                                                         *)
(* isMeta[v] is the schema in the store at version v and isDiffs[v] the    *)
(* diff that led to it.  A load reads both in one snapshot, so it applies  *)
(* old diffs with new definitions.                                         *)
(*                                                                         *)
(* A database or a table that is being dropped is in the store but not     *)
(* public for a while.  The databases of the virtual tables, which a full  *)
(* load adds and no diff changes, and the repair mode are left out.        *)
(***************************************************************************)
EXTENDS Naturals, FiniteSets, Sequences, SequencesExt

CONSTANTS DBName,       \* database names
          BlockName,    \* table names
          BucketCount,  \* bucketCount, 512 in the code
          MaxDDL,       \* number of schema changes
          DDLKind       \* kinds of schema change that happen

VARIABLES isMeta, isDiffs, isNextID, isDBs, isBuckets, isPublished, isBuild

isVars == <<isMeta, isDiffs, isNextID, isDBs, isBuckets, isPublished, isBuild>>

-----------------------------------------------------------------------------
(* The schema in the store.  A database is [id, name, charset, public,      *)
(* blocks], a table [id, name, public, parts, replica, rev] with the ids of *)
(* its partitions, its TiFlash replicas and a revision that stands for      *)
(* everything else a diff may change.                                       *)

Public(S) == {x \in S : x.public}
PublicBlocks(d) == IF d.public THEN Public(d.blocks) ELSE {}
AllBlocks(m) == UNION {PublicBlocks(d) : d \in m}

MetaDB(m, id) == {d \in m : d.id = id}
MetaBlock(m, dbID, id) ==
  UNION {{t \in d.blocks : t.id = id} : d \in MetaDB(m, dbID)}

Diff(tp, dbID, id, oldDB, oldID) ==
  [type |-> tp, schemaID |-> dbID, blockID |-> id, oldSchemaID |-> oldDB,
   oldBlockID |-> oldID, affected |-> <<>>]

\* The schema owner writes version Len(isMeta) + 1 (external).
Change(m, diff, fresh) ==
  /\ isMeta' = Append(isMeta, m)
  /\ isDiffs' = Append(isDiffs, diff)
  /\ isNextID' = isNextID + fresh
  /\ UNCHANGED <<isDBs, isBuckets, isPublished, isBuild>>

Now == isMeta[Len(isMeta)]
WithBlocks(d, blocks) == (Now \ {d}) \cup {[d EXCEPT !.blocks = blocks]}
FreeName(d, n) == \A t \in d.blocks : t.name # n

DDL(kind) == kind \in DDLKind /\ Len(isMeta) <= MaxDDL

DDLCreateSchema ==
  /\ DDL("createSchema")
  /\ \E n \in DBName :
       /\ \A d \in Now : d.name # n
       /\ Change(Now \cup {[id |-> isNextID, name |-> n, charset |-> 0,
                            public |-> TRUE, blocks |-> {}]},
                 Diff("createSchema", isNextID, 0, 0, 0), 1)

\* A version in which the database is no longer public, or the last one.
DDLDropSchema ==
  /\ DDL("dropSchema")
  /\ \E d \in Now :
       \E kept \in {{}} \cup IF d.public THEN {{[d EXCEPT !.public = FALSE]}} ELSE {} :
         Change((Now \ {d}) \cup kept, Diff("dropSchema", d.id, 0, 0, 0), 0)

DDLModifySchema ==
  /\ DDL("modifySchema")
  /\ \E d \in Public(Now) :
       Change((Now \ {d}) \cup {[d EXCEPT !.charset = @ + 1]},
              Diff("modifySchema", d.id, 0, 0, 0), 0)

\* CREATE TABLE, SEQUENCE or VIEW and RECOVER TABLE.
DDLCreateBlock ==
  /\ DDL("createBlock")
  /\ \E d \in Public(Now), n \in BlockName :
       /\ FreeName(d, n)
       /\ Change(WithBlocks(d, d.blocks \cup
                   {[id |-> isNextID, name |-> n, public |-> TRUE, parts |-> {},
                     replica |-> 0, rev |-> 0]}),
                 Diff("createBlock", d.id, isNextID, 0, 0), 1)

DDLDropBlock ==
  /\ DDL("dropBlock")
  /\ \E d \in Public(Now) : \E t \in d.blocks :
       \E kept \in {{}} \cup IF t.public THEN {{[t EXCEPT !.public = FALSE]}} ELSE {} :
         Change(WithBlocks(d, (d.blocks \ {t}) \cup kept),
                Diff("dropBlock", d.id, t.id, 0, 0), 0)

DDLTruncateBlock ==
  /\ DDL("truncateBlock")
  /\ \E d \in Public(Now) : \E t \in Public(d.blocks) :
       Change(WithBlocks(d, (d.blocks \ {t}) \cup {[t EXCEPT !.id = isNextID]}),
              Diff("truncateBlock", d.id, isNextID, 0, t.id), 1)

DDLRenameBlock ==
  /\ DDL("renameBlock")
  /\ \E d, to \in Public(Now), n \in BlockName : \E t \in Public(d.blocks) :
       /\ FreeName(to, n)
       /\ LET moved == [t EXCEPT !.name = n]
              left == [d EXCEPT !.blocks = @ \ {t}]
              m == IF d = to THEN WithBlocks(d, (d.blocks \ {t}) \cup {moved})
                   ELSE (Now \ {d, to}) \cup
                        {left, [to EXCEPT !.blocks = @ \cup {moved}]}
          IN  Change(m, Diff("renameBlock", to.id, t.id, d.id, 0), 0)

\* Any change that keeps id, name and partitions: a column, an index, a rebase.
DDLAlterBlock ==
  /\ DDL("alterBlock")
  /\ \E d \in Public(Now) : \E t \in Public(d.blocks) :
       Change(WithBlocks(d, (d.blocks \ {t}) \cup {[t EXCEPT !.rev = @ + 1]}),
              Diff("alterBlock", d.id, t.id, 0, 0), 0)

\* ADD, DROP and TRUNCATE PARTITION: one comes, one goes, or both.
DDLAlterPartitions ==
  /\ DDL("alterPartitions")
  /\ \E d \in Public(Now) : \E t \in Public(d.blocks) :
       \E gone \in {{}} \cup {{p} : p \in t.parts}, new \in {{}, {isNextID}} :
         /\ t.parts # {} /\ (t.parts \ gone) \cup new \notin {{}, t.parts}
         /\ Change(WithBlocks(d, (d.blocks \ {t}) \cup
                      {[t EXCEPT !.parts = (@ \ gone) \cup new]}),
                   Diff("alterPartitions", d.id, t.id, 0, 0), Cardinality(new))

\* SET TIFLASH REPLICA and the changes of its status.
DDLSetReplica ==
  /\ DDL("setReplica")
  /\ \E d \in Public(Now) : \E t \in Public(d.blocks) :
       Change(WithBlocks(d, (d.blocks \ {t}) \cup {[t EXCEPT !.replica = @ + 1]}),
              Diff("setReplica", d.id, t.id, 0, 0), 0)

\* EXCHANGE PARTITION: the table takes the partition's id and the partitioned
\* table, named in AffectedOpts, the table's.
DDLExchangePartition ==
  /\ DDL("exchange")
  /\ \E d \in Public(Now) : \E t, pt \in Public(d.blocks) : \E p \in pt.parts :
       /\ t # pt /\ t.parts = {}
       /\ Change(WithBlocks(d, (d.blocks \ {t, pt}) \cup
                   {[t EXCEPT !.id = p],
                    [pt EXCEPT !.parts = (@ \ {p}) \cup {t.id}]}),
            [Diff("exchange", d.id, p, 0, t.id) EXCEPT
               !.affected = <<Diff("exchange", d.id, pt.id, 0, pt.id)>>], 0)

-----------------------------------------------------------------------------
(* The Builder.  Its working state w is [is, dbs, buckets, err, ids]: the    *)
(* schema under construction, the two heaps, and what ApplyDiff returns.     *)

BucketIdx(id) == id % BucketCount

DBOf(w, name) == w.dbs[w.is.map[name]]

\* SchemaByID.
NamesByID(w, id) == {n \in DOMAIN w.is.map : DBOf(w, n).id = id}
HasDB(w, id) == NamesByID(w, id) # {}
NameByID(w, id) == CHOOSE n \in NamesByID(w, id) : TRUE

\* searchBlock in a sorted slice.
SearchBlock(slice, id) ==
  IF \E i \in DOMAIN slice : slice[i].id = id
  THEN CHOOSE i \in DOMAIN slice : slice[i].id = id ELSE 0

Failed(w) == [w EXCEPT !.err = TRUE]

\* Mutant of AffectedIDs: the partitions are left out.
AffectedBlockID(t) == {t.id}

\* appendAffectedIDs.
AffectedIDs(t) == {t.id} \cup t.parts

\* Mutant of CopySchemaBlocks: the shared object is used as it is.
ShareSchemaBlocks(w, name) == w

\* INTERLOCKySchemaBlocks: a fresh copy for this schema only.
CopySchemaBlocks(w, name) ==
  [w EXCEPT !.dbs = Append(@, DBOf(w, name)),
            !.is.map[name] = Len(w.dbs) + 1]

\* INTERLOCKySortedBlocksBucket.
CopyBucket(w, i) ==
  [w EXCEPT !.buckets = Append(@, w.buckets[w.is.buckets[i]]),
            !.is.buckets[i] = Len(w.buckets) + 1]

\* INTERLOCKySortedBlocks.
CopySortedBlocks(w, oldID, newID) ==
  LET v == IF oldID # 0 THEN CopyBucket(w, BucketIdx(oldID)) ELSE w
  IN  IF newID # 0 /\ newID # oldID THEN CopyBucket(v, BucketIdx(newID)) ELSE v

\* applyDropBlock on the database called name; a database that has left the
\* map keeps its DBInfo in a clone nobody reads.
DropBlock(w, name, id) ==
  LET cell == w.is.buckets[BucketIdx(id)]
      slice == w.buckets[cell]
      i == SearchBlock(slice, id)
      v == [w EXCEPT !.buckets[cell] = RemoveAt(slice, i)]
      ref == w.is.map[name]
  IN  IF i = 0 THEN w
      ELSE IF name \notin DOMAIN w.is.map THEN v
      ELSE [v EXCEPT
              !.ids = @ \cup AffectedIDs(slice[i]),
              !.dbs[ref].blocks = [n \in DOMAIN @ \ {slice[i].name} |-> @[n]],
              !.dbs[ref].infos = {t \in @ : t.id # id}]

\* applyCreateBlock with the definition the snapshot has now.
CreateBlock(w, m, name, id) ==
  LET ref == w.is.map[name]
      found == MetaBlock(m, w.dbs[ref].id, id)
      t == CHOOSE x \in found : TRUE
      cell == w.is.buckets[BucketIdx(id)]
      sorted == SortSeq(Append(w.buckets[cell], t), LAMBDA a, b : a.id < b.id)
  IN  IF found = {} THEN Failed(w)
      ELSE [w EXCEPT
              !.ids = @ \cup AffectedIDs(t),
              !.dbs[ref].blocks = [n \in DOMAIN @ \cup {t.name} |->
                                     IF n = t.name THEN t ELSE @[n]],
              !.buckets[cell] = sorted,
              !.dbs[ref].infos = @ \cup {t}]

ApplyCreateSchema(w, m, diff) ==
  IF MetaDB(m, diff.schemaID) = {} THEN Failed(w)
  ELSE LET d == CHOOSE x \in MetaDB(m, diff.schemaID) : TRUE
           new == [id |-> d.id, charset |-> d.charset, infos |-> {},
                   blocks |-> <<>>]
       IN  [w EXCEPT !.dbs = Append(@, new),
                     !.is.map = [n \in DOMAIN @ \cup {d.name} |->
                        IF n = d.name THEN Len(w.dbs) + 1 ELSE @[n]]]

\* applyModifySchemaCharsetAndDefCauslate.
ApplyModifySchema(w, m, diff) ==
  IF MetaDB(m, diff.schemaID) = {} THEN Failed(w)
  ELSE LET d == CHOOSE x \in MetaDB(m, diff.schemaID) : TRUE
           v == CopySchemaBlocks(w, d.name)
       IN  [v EXCEPT !.dbs[v.is.map[d.name]].charset = d.charset]

ApplyDropSchema(w, diff) ==
  IF ~HasDB(w, diff.schemaID) THEN w
  ELSE LET name == NameByID(w, diff.schemaID)
           infos == DBOf(w, name).infos
           ids == SetToSeq(UNION {AffectedIDs(t) : t \in infos})
           gone == [w EXCEPT !.is.map = [n \in DOMAIN @ \ {name} |-> @[n]],
                             !.ids = @ \cup ToSet(ids)]
           copied == FoldLeft(LAMBDA v, i : CopyBucket(v, i), gone,
                              SetToSeq({BucketIdx(t.id) : t \in infos}))
       IN  FoldLeft(LAMBDA v, id : DropBlock(v, name, id), copied, ids)

\* The old and the new table id of a diff.
OldBlock(diff) ==
  CASE diff.type = "createBlock" -> 0
    [] diff.type \in {"truncateBlock", "exchange"} -> diff.oldBlockID
    [] OTHER -> diff.blockID
NewBlock(diff) == IF diff.type = "dropBlock" THEN 0 ELSE diff.blockID

\* The part of ApplyDiff for a diff of one table.
ApplyBlockDiff(w, m, diff) ==
  LET name == NameByID(w, diff.schemaID)
      moves == diff.type = "renameBlock" /\ diff.oldSchemaID # diff.schemaID
      old == OldBlock(diff)
      new == NewBlock(diff)
      copied == CopySortedBlocks(CopySchemaBlocks(w, name), old, new)
      dropped ==
        IF old = 0 THEN copied
        ELSE IF ~moves THEN DropBlock(copied, name, old)
        ELSE IF ~HasDB(copied, diff.oldSchemaID) THEN Failed(copied)
        ELSE LET from == NameByID(copied, diff.oldSchemaID)
             IN  DropBlock(CopySchemaBlocks(copied, from), from, old)
      \* A table that keeps its id is reported by applyCreateBlock.
      reported == IF old = new THEN [dropped EXCEPT !.ids = w.ids] ELSE dropped
  IN  IF ~HasDB(w, diff.schemaID) THEN Failed(w)
      ELSE IF new = 0 \/ reported.err THEN reported
      ELSE CreateBlock(reported, m, name, new)

\* ApplyDiff, first for the diff and then for every one in its AffectedOpts.
ApplyDiff(w, m, diff) ==
  LET apply(v, d) ==
        IF v.err THEN v
        ELSE CASE d.type = "createSchema" -> ApplyCreateSchema(v, m, d)
               [] d.type = "dropSchema" -> ApplyDropSchema(v, d)
               [] d.type = "modifySchema" -> ApplyModifySchema(v, m, d)
               [] OTHER -> ApplyBlockDiff(v, m, d)
  IN  FoldLeft(apply, w, <<diff>> \o diff.affected)

\* InitWithDBInfos and createSchemaBlocksForDB: everything is new.  A database
\* that is not public was listed without its tables.
InitWithDBInfos(m) ==
  LET dbs == SetToSeq(m)
      all == AllBlocks(m)
      names == {d.name : d \in m}
  IN  [is |-> [map |-> [n \in names |-> Len(isDBs) +
                          (CHOOSE i \in DOMAIN dbs : dbs[i].name = n)],
               buckets |-> [i \in 0..(BucketCount - 1) |->
                              Len(isBuckets) + i + 1]],
       dbs |-> isDBs \o [i \in DOMAIN dbs |->
                 [id |-> dbs[i].id, charset |-> dbs[i].charset,
                  infos |-> PublicBlocks(dbs[i]),
                  blocks |-> [n \in {t.name : t \in PublicBlocks(dbs[i])} |->
                                CHOOSE t \in PublicBlocks(dbs[i]) : t.name = n]]],
       buckets |-> isBuckets \o [i \in 1..BucketCount |->
                 SetToSortSeq({t \in all : BucketIdx(t.id) = i - 1},
                              LAMBDA a, b : a.id < b.id)],
       err |-> FALSE, ids |-> {}]

-----------------------------------------------------------------------------
(* Loading: tryLoadSchemaDiffs and the full load of loadSchemaReplicant *)

Idle == [phase |-> "idle"]
Current == isPublished[Len(isPublished)]

\* Build: the schema becomes the handle's value.
Publish(w, version, diffs) ==
  /\ isPublished' = Append(isPublished,
       [is |-> w.is, version |-> version, diffs |-> diffs, ids |-> w.ids])
  /\ isDBs' = w.dbs /\ isBuckets' = w.buckets
  /\ isBuild' = Idle

\* A load starts; the Builder begins with the parts of the current schema
\* (InitWithOldSchemaReplicant).  When there are too many diffs, or one is
\* missing, the schema is loaded in full at once.
BeginLoad ==
  /\ isBuild = Idle
  /\ Current.version < Len(isMeta)
  /\ \E phase \in {"diffs", "full"} :
       isBuild' = [phase |-> phase, used |-> Current.version,
                   needed |-> Len(isMeta), at |-> Current.version + 1,
                   is |-> Current.is, ids |-> {}]
  /\ UNCHANGED <<isMeta, isDiffs, isNextID, isDBs, isBuckets, isPublished>>

\* canSkipSchemaCheckerDBS: diffs whose ids nobody has to know.
CanSkipSchemaChecker(diff) == diff.type = "setReplica"

\* One diff is applied; an error gives the diffs up for a full load.
LoadDiff ==
  /\ isBuild.phase = "diffs" /\ isBuild.at <= isBuild.needed
  /\ LET w == ApplyDiff([is |-> isBuild.is, dbs |-> isDBs, err |-> FALSE,
                         buckets |-> isBuckets, ids |-> isBuild.ids],
                        isMeta[isBuild.needed], isDiffs[isBuild.at])
     IN  /\ isDBs' = w.dbs /\ isBuckets' = w.buckets
         /\ isBuild' = IF w.err THEN [isBuild EXCEPT !.phase = "full"]
                       ELSE [isBuild EXCEPT !.at = @ + 1, !.is = w.is,
                               !.ids = IF CanSkipSchemaChecker(isDiffs[isBuild.at])
                                       THEN @ ELSE w.ids]
  /\ UNCHANGED <<isMeta, isDiffs, isNextID, isPublished>>

PublishDiffs ==
  /\ isBuild.phase = "diffs" /\ isBuild.at > isBuild.needed
  /\ Publish([is |-> isBuild.is, dbs |-> isDBs, buckets |-> isBuckets,
              ids |-> isBuild.ids], isBuild.needed, TRUE)
  /\ UNCHANGED <<isMeta, isDiffs, isNextID>>

FullLoad ==
  /\ isBuild.phase = "full"
  /\ Publish(InitWithDBInfos(isMeta[isBuild.needed]), isBuild.needed, FALSE)
  /\ UNCHANGED <<isMeta, isDiffs, isNextID>>

\* The server starts with a full load of a small schema: database 1 with the
\* tables 2 and 3, the second with a partition 4.
InfoInit ==
  LET names == SetToSeq(BlockName)
      block(id, name, parts) ==
        [id |-> id, name |-> name, public |-> TRUE, parts |-> parts, replica |-> 0, rev |-> 0]
      m == {[id |-> 1, name |-> CHOOSE n \in DBName : TRUE, charset |-> 0, public |-> TRUE,
             blocks |-> {block(2, names[1], {}), block(3, names[2], {4})}]}
  IN  /\ isMeta = <<m>> /\ isDiffs = <<Diff("createSchema", 1, 0, 0, 0)>>
      /\ isNextID = 5
      /\ isDBs = <<>> /\ isBuckets = <<>>
      /\ isPublished = <<>>
      /\ isBuild = [phase |-> "full", needed |-> 1]

InfoDDL ==
  \/ DDLCreateSchema \/ DDLDropSchema \/ DDLModifySchema
  \/ DDLCreateBlock \/ DDLDropBlock \/ DDLTruncateBlock
  \/ DDLRenameBlock \/ DDLAlterBlock \/ DDLExchangePartition
  \/ DDLAlterPartitions \/ DDLSetReplica

InfoNext == InfoDDL \/ BeginLoad \/ LoadDiff \/ PublishDiffs \/ FullLoad

InfoSpec == InfoInit /\ [][InfoNext]_isVars

-----------------------------------------------------------------------------
(* What the lookups of a schema return *)

\* BlockByID, through the bucket.
BlockByID(is, id) ==
  LET slice == isBuckets[is.buckets[BucketIdx(id)]]
      i == SearchBlock(slice, id)
  IN  IF i = 0 THEN {} ELSE {slice[i]}

\* BlockByName, SchemaBlocks and FindBlockByPartitionID go through the map.
BlocksByName(is, db) == isDBs[is.map[db]].blocks

\* A schema answers every lookup, by name, by id and in its DBInfo, with the
\* public tables of m; and a binary search may rely on the order of its buckets.
\* A database that is not public may be there, without tables: a full load keeps
\* its name, diffs do not.
Shows(is, m) ==
  /\ {d.name : d \in Public(m)} \subseteq DOMAIN is.map
  /\ DOMAIN is.map \subseteq {d.name : d \in m}
  /\ \A d \in {x \in m : x.name \in DOMAIN is.map} :
       LET o == isDBs[is.map[d.name]] IN
       /\ o.id = d.id /\ o.charset = d.charset /\ o.infos = PublicBlocks(d)
       /\ DOMAIN o.blocks = {t.name : t \in PublicBlocks(d)}
       /\ \A t \in PublicBlocks(d) : BlocksByName(is, d.name)[t.name] = t
  /\ \A t \in AllBlocks(m) : BlockByID(is, t.id) = {t}
  /\ \A i \in DOMAIN is.buckets :
       LET slice == isBuckets[is.buckets[i]] IN
       /\ Len(slice) = Cardinality({t \in AllBlocks(m) : BucketIdx(t.id) = i})
       /\ \A j, k \in DOMAIN slice : j < k => slice[j].id < slice[k].id

\* Every schema that was ever published is, and stays while readers hold it,
\* exactly the schema of its version: diffs applied with newer definitions
\* lead to what a full load gives, and building a schema never touches one
\* that is in use (ApplyDiff, InitWithOldSchemaReplicant, Build).
SchemaExact ==
  \A i \in DOMAIN isPublished :
    Shows(isPublished[i].is, isMeta[isPublished[i].version])

\* The partitions that ALTER TABLE took from a table between two versions.
PartsDropped(from, to) ==
  UNION {LET parts(m) == UNION {t.parts : t \in MetaBlock(m, isDiffs[v].schemaID,
                                                           isDiffs[v].blockID)}
         IN  parts(isMeta[v - 1]) \ parts(isMeta[v]) :
         v \in {u \in (from + 1)..to : isDiffs[u].type = "alterPartitions"}}

\* The ids a load by diffs reports as changed include every public table that is
\* new, gone or different since the schema before it, with its old and its new
\* partitions: the schema validator relies on them to refuse transactions
\* (ApplyDiff's result, tryLoadSchemaDiffs).  Two kinds are left out by the code: a
\* partition that ADD, DROP or TRUNCATE PARTITION took away, because a table that
\* keeps its id is reported with its new definition only; and a table of which
\* nothing but the TiFlash replica has changed.
ChangesReported ==
  \A i \in 2..Len(isPublished) :
    isPublished[i].diffs =>
      LET from == isPublished[i - 1].version
          to == isPublished[i].version
          tables(v) == {[t EXCEPT !.replica = 0] : t \in AllBlocks(isMeta[v])}
      IN  \A t \in (tables(to) \ tables(from)) \cup (tables(from) \ tables(to)) :
            {t.id} \cup (t.parts \ PartsDropped(from, to)) \subseteq isPublished[i].ids
=============================================================================
