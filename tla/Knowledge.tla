----------------------------- MODULE Knowledge -----------------------------
(***************************************************************************)
(* The stable-knowledge store: one table of chunks with two vector columns *)
(* and, beside each, the stamp of the model that made the vector.  Seeding *)
(* inserts chunks; reembed brings vectors up to the configured model;      *)
(* embedding_schema brings a column to the configured width, which clears  *)
(* it, and fills it again; search reads.  The operator may change the      *)
(* settings at any time and a command keeps those it started with; a       *)
(* command may be killed between two of its transactions.  One maintenance *)
(* command runs at a time; seeding may run beside it.                      *)
(*                                                                         *)
(* An embedder is [id, dim, prefix]: the model, the width it is asked for  *)
(* and what else shapes its vectors.  A vector is the embedder that made   *)
(* it.  The embedder may reject any chunk at any time.                     *)
(***************************************************************************)
EXTENDS Naturals, FiniteSets

CONSTANTS
    Chunks,      \* ids, in the order of the table's uuid; 0 is before the first
    Owner,       \* the organization of a chunk, or Shared
    Shared,
    Stacks,      \* configurations: a primary and an auxiliary embedder
    BatchSize,
    MaxChanges,  \* bound on the changes of the settings
    NULL

HNSW_MAX_DIMENSION == 2000
RETYPED_STAMP == "__retyped__"
AUX_UNEMBEDDABLE_SENTINEL == "__unembeddable__"

Columns == {"embedding", "embedding_v2"}

\* Every configuration has a primary embedder, and no model is named like the
\* stamps that stand for none.
ASSUME KnowledgeAssumption ==
    /\ Chunks \subseteq Nat \ {0} /\ IsFiniteSet(Chunks)
    /\ DOMAIN Owner = Chunks
    /\ BatchSize \in Nat \ {0} /\ MaxChanges \in Nat
    /\ NULL \notin Stacks /\ NULL # RETYPED_STAMP
    /\ \A s \in Stacks : s["embedding"] # NULL
    /\ \A s \in Stacks, c \in Columns : s[c] # NULL =>
          s[c].id \notin {NULL, RETYPED_STAMP, AUX_UNEMBEDDABLE_SENTINEL}

VARIABLES
    chunk,      \* the rows: per column a vector and its stamp; NULL without a row
    column,     \* per column its width, NOT NULL, and the kind of its index
    stack,      \* EMBEDDING_*: the settings a command started now reads
    seeding,    \* the settings of the seeding that runs; NULL for none
    pass,       \* the maintenance command that runs
    swept,      \* history: the embedder a finished pass left in a column
    settled,    \* history: the settings embedding_schema reported done for
    changes     \* of the settings so far

nvars == <<chunk, column, stack, seeding, pass, swept, settled, changes>>

Idle == [cmd |-> "idle", stack |-> NULL, col |-> "embedding", owners |-> {}, force |-> FALSE,
         last |-> 0, batch |-> {}, plan |-> NULL, failed |-> FALSE, at |-> "none", exact |-> FALSE]

Unswept == [by |-> NULL, exact |-> FALSE]

\* Migrated, for the settings of the moment.
NInit ==
    /\ chunk = [i \in Chunks |-> NULL]
    /\ stack \in Stacks
    /\ column = [c \in Columns |->
                   [dim |-> stack["embedding"].dim, notnull |-> c = "embedding", index |-> "cosine"]]
    /\ seeding = NULL /\ pass = Idle
    /\ swept = [c \in Columns |-> Unswept] /\ settled = NULL /\ changes = 0

Rows == {i \in Chunks : chunk[i] # NULL}
Vec(i, c) == chunk[i][c].vec
Stamp(i, c) == chunk[i][c].stamp

\* The embedder of a column, and the width settings want (an unset auxiliary
\* width is the primary's).
make_embedding_provider(s, c) == s[c]
Width(s, c) == IF s[c] = NULL THEN s["embedding"].dim ELSE s[c].dim

ChangeSettings(s) ==
    /\ s # stack /\ changes < MaxChanges
    /\ stack' = s /\ changes' = changes + 1
    /\ UNCHANGED <<chunk, column, seeding, pass, swept, settled>>

-----------------------------------------------------------------------------
\* Seeding reads the settings, embeds, and inserts in one transaction: the
\* database refuses a vector of another width.
StartSeeding ==
    /\ seeding = NULL /\ Rows # Chunks /\ seeding' = stack
    /\ UNCHANGED <<chunk, column, stack, pass, swept, settled, changes>>

\* A vector whose auxiliary embedding failed, or has no embedder, is NULL.
upsert ==
    /\ seeding # NULL /\ seeding' = NULL
    /\ \E i \in Chunks \ Rows, aux \in {NULL, make_embedding_provider(seeding, "embedding_v2")} :
          LET e == make_embedding_provider(seeding, "embedding") IN
          /\ e.dim = column["embedding"].dim
          /\ aux # NULL => aux.dim = column["embedding_v2"].dim
          /\ chunk' = [chunk EXCEPT ![i] =
                         [c \in Columns |->
                            LET v == IF c = "embedding" THEN e ELSE aux IN
                            [vec |-> v, stamp |-> IF v = NULL THEN NULL ELSE v.id]]]
          /\ swept' = [c \in Columns |->
                         IF chunk'[i][c].vec = swept[c].by THEN swept[c] ELSE Unswept]
          /\ pass' = [pass EXCEPT !.exact = @ /\ chunk'[i][pass.col].vec = pass.stack[pass.col]]
    /\ UNCHANGED <<column, stack, settled, changes>>

\* The embedder raises, or the insert does.
SeedingFails ==
    /\ seeding # NULL /\ seeding' = NULL
    /\ UNCHANGED <<chunk, column, stack, pass, swept, settled, changes>>

-----------------------------------------------------------------------------
\* reembed --apply [--aux] [--force] [--organization-slug]: --aux is refused
\* without an auxiliary model.
StartReembed(c, force, owners) ==
    /\ pass = Idle /\ stack[c] # NULL
    /\ pass' = [Idle EXCEPT !.cmd = "reembed", !.stack = stack, !.col = c, !.owners = owners,
                            !.force = force, !.exact = force]
    /\ swept' = [swept EXCEPT ![c] = Unswept]
    /\ UNCHANGED <<chunk, column, stack, seeding, settled, changes>>

\* Mutant: != instead of IS DISTINCT FROM, which skips a NULL stamp.
_fetch_mismatched_notNull ==
    {i \in Rows : Owner[i] \in pass.owners /\
        IF pass.force THEN i > pass.last
        ELSE Stamp(i, pass.col) \notin {NULL, pass.stack[pass.col].id}}

\* The rows in scope: all beyond the last one with --force, else those whose
\* stamp is not the active model's.
_fetch_mismatched ==
    {i \in Rows : Owner[i] \in pass.owners /\
        IF pass.force THEN i > pass.last
        ELSE Stamp(i, pass.col) # pass.stack[pass.col].id}

\* A batch of these rows: the first ones by id where the query orders them.
Batches(rows, ordered) ==
    {b \in SUBSET rows :
        /\ Cardinality(b) = IF Cardinality(rows) < BatchSize THEN Cardinality(rows) ELSE BatchSize
        /\ ordered => \A i \in b, j \in rows \ b : i < j}

\* Mutant: the last id is not kept.
LastId_never(b) == 0

\* Where the next batch begins: a rejected row is not met again.
LastId(b) == CHOOSE i \in b : \A j \in b : j <= i

\* Each row of a batch is embedded and updated, in one transaction.  A
\* rejected row keeps its vector (primary) or loses it to the sentinel (aux).
Written(b, c, e, rejected) ==
    [i \in Chunks |->
        CASE i \in b \ rejected -> [chunk[i] EXCEPT ![c] = [vec |-> e, stamp |-> e.id]]
          [] i \in b \cap rejected /\ c = "embedding_v2" ->
                [chunk[i] EXCEPT ![c] = [vec |-> NULL, stamp |-> AUX_UNEMBEDDABLE_SENTINEL]]
          [] OTHER -> chunk[i]]

\* The loop of the command: a batch is selected ...
NextBatch ==
    /\ pass.cmd = "reembed" /\ pass.batch = {}
    /\ \E b \in Batches(_fetch_mismatched, pass.force) \ {{}} : pass' = [pass EXCEPT !.batch = b]
    /\ UNCHANGED <<chunk, column, stack, seeding, swept, settled, changes>>

\* ... and written; the update of a column of another width raises.
_reembed_batch ==
    /\ pass.batch # {}
    /\ LET e == pass.stack[pass.col] IN
       \E rejected \in SUBSET pass.batch :
          IF e.dim # column[pass.col].dim /\ rejected # pass.batch
          THEN pass' = Idle /\ UNCHANGED chunk
          ELSE /\ chunk' = Written(pass.batch, pass.col, e, rejected)
               /\ pass' = [pass EXCEPT !.batch = {},
                                       !.last = IF pass.force THEN LastId(pass.batch) ELSE 0,
                                       !.exact = @ /\ rejected = {}]
    /\ UNCHANGED <<column, stack, seeding, swept, settled, changes>>

\* No row is left: Done.
ReembedEnds ==
    /\ pass.cmd = "reembed" /\ pass.batch = {} /\ _fetch_mismatched = {}
    /\ swept' = IF pass.owners = {Owner[i] : i \in Chunks} /\ (pass.force => pass.exact)
                THEN [swept EXCEPT ![pass.col] = [by |-> pass.stack[pass.col], exact |-> pass.exact]]
                ELSE swept
    /\ pass' = Idle
    /\ UNCHANGED <<chunk, column, stack, seeding, settled, changes>>

-----------------------------------------------------------------------------
\* Vectors that are missing; an auxiliary one that was given up is not.
Null(c) == {i \in Rows : Vec(i, c) = NULL /\ Stamp(i, c) # AUX_UNEMBEDDABLE_SENTINEL}

IndexKind(dim) == IF dim > HNSW_MAX_DIMENSION THEN "bq" ELSE "cosine"

\* Mutant: NOT NULL is restored by the run that re-types only.
build_column_plan_once(s, c) ==
    LET retype == column[c].dim # Width(s, c) IN
    [retype |-> retype,
     reembed_nulls |-> s[c] # NULL /\ (retype \/ Null(c) # {}),
     restore_not_null |-> c = "embedding" /\ retype,
     build_index |-> retype \/ column[c].index # IndexKind(Width(s, c))]

\* From the live state: an index of the wrong kind is as good as none.
build_column_plan(s, c) ==
    LET retype == column[c].dim # Width(s, c) IN
    [retype |-> retype,
     reembed_nulls |-> s[c] # NULL /\ (retype \/ Null(c) # {}),
     restore_not_null |-> c = "embedding" /\ (retype \/ ~column[c].notnull),
     build_index |-> retype \/ column[c].index # IndexKind(Width(s, c))]

in_sync(p) == ~(p.retype \/ p.reembed_nulls \/ p.restore_not_null \/ p.build_index)

\* Where a column's work begins.
Begins(p) == IF p.retype THEN "retype" ELSE IF p.reembed_nulls THEN "fill" ELSE "finalize"

\* embedding_schema --apply: both plans are made before anything is done.
StartSchema ==
    /\ pass = Idle
    /\ LET plan == [c \in Columns |-> build_column_plan(stack, c)]
           first == IF in_sync(plan["embedding"]) THEN "embedding_v2" ELSE "embedding"
       IN /\ ~in_sync(plan[first])
          /\ pass' = [Idle EXCEPT !.cmd = "schema", !.stack = stack, !.plan = plan,
                                  !.col = first, !.at = Begins(plan[first])]
    /\ settled' = NULL
    /\ UNCHANGED <<chunk, column, stack, seeding, swept, changes>>

\* Mutant: the primary's stamp is cleared too.
Cleared_null(i, c) == [vec |-> NULL, stamp |-> NULL]

\* Mutant: the stamp stays.
Cleared_stamped(i, c) == [chunk[i][c] EXCEPT !.vec = NULL]

\* A re-typed vector is NULL and its stamp names no model.
Cleared(i, c) == [vec |-> NULL, stamp |-> IF c = "embedding" THEN RETYPED_STAMP ELSE NULL]

\* Drop the index, clear and re-type the column, reset the stamps.
_retype_column ==
    /\ pass.at = "retype"
    /\ LET c == pass.col
       IN /\ column' = [column EXCEPT ![c] = [dim |-> Width(pass.stack, c), notnull |-> FALSE,
                                              index |-> "none"]]
          /\ chunk' = [i \in Chunks |->
                         IF i \in Rows THEN [chunk[i] EXCEPT ![c] = Cleared(i, c)] ELSE NULL]
          /\ swept' = [swept EXCEPT ![c] = Unswept]
    /\ pass' = [pass EXCEPT !.at = IF pass.plan[pass.col].reembed_nulls THEN "fill" ELSE "finalize"]
    /\ UNCHANGED <<stack, seeding, settled, changes>>

\* The NULL vectors beyond the last id, batch by batch.
_reembed_null_vectors ==
    /\ pass.at = "fill"
    /\ LET c == pass.col
           left == {i \in Null(c) : i > pass.last}
       IN IF left = {}
          THEN pass' = [pass EXCEPT !.at = "finalize", !.last = 0] /\ UNCHANGED chunk
          ELSE \E b \in Batches(left, TRUE) : \E rejected \in SUBSET b :
                  /\ chunk' = Written(b, c, pass.stack[c], rejected)
                  /\ pass' = [pass EXCEPT !.last = LastId(b),
                                          !.failed = @ \/ (c = "embedding" /\ rejected # {})]
    /\ UNCHANGED <<column, stack, seeding, swept, settled, changes>>

\* NOT NULL when no chunk failed; the index; then the other column, or the end.
_finalize_column ==
    /\ pass.at = "finalize"
    /\ LET c == pass.col
           p == pass.plan[c]
           other == pass.plan["embedding_v2"]
       IN /\ column' = [column EXCEPT
                ![c].notnull = @ \/ (p.restore_not_null /\ ~pass.failed),
                ![c].index = IF p.build_index THEN IndexKind(Width(pass.stack, c)) ELSE @]
          /\ IF c = "embedding" /\ ~in_sync(other)
             THEN /\ pass' = [pass EXCEPT !.col = "embedding_v2", !.at = Begins(other)]
                  /\ UNCHANGED settled
             ELSE pass' = Idle /\ settled' = IF pass.failed THEN NULL ELSE pass.stack
    /\ UNCHANGED <<chunk, stack, seeding, swept, changes>>

\* The command dies; the open transaction is rolled back.
PassKilled ==
    /\ pass # Idle /\ pass' = Idle
    /\ UNCHANGED <<chunk, column, stack, seeding, swept, settled, changes>>

-----------------------------------------------------------------------------
Visible(o) == {i \in Rows : Owner[i] \in {Shared, o}}

\* The vector legs; only the auxiliary one leaves out NULL.
_vector_candidates(o) == Visible(o)
_vector_aux_candidates(o) == {i \in Visible(o) : Vec(i, "embedding_v2") # NULL}

\* The rows whose text matches.
_fts_candidates(o, matching) == Visible(o) \cap matching

\* The union of the legs, while there are fewer rows than a leg's limit; the
\* primary distance of every hit is made a float, which NULL is not.
search(o, matching) ==
    LET hits == _vector_candidates(o) \cup _fts_candidates(o, matching)
                  \cup _vector_aux_candidates(o)
    IN IF \E i \in hits : Vec(i, "embedding") = NULL THEN {} ELSE hits

-----------------------------------------------------------------------------
PassStep ==
    \/ NextBatch \/ _reembed_batch \/ ReembedEnds
    \/ _retype_column \/ _reembed_null_vectors \/ _finalize_column

NNext ==
    \/ PassStep \/ PassKilled \/ StartSchema \/ StartSeeding \/ upsert \/ SeedingFails
    \/ \E s \in Stacks : ChangeSettings(s)
    \/ \E c \in Columns, force \in BOOLEAN,
          owners \in {{Owner[i] : i \in Chunks}} \cup {{Owner[i]} : i \in Chunks} :
          StartReembed(c, force, owners)

-----------------------------------------------------------------------------
\* Types; the primary's stamp is NOT NULL, unlike the auxiliary's.
KnowledgeTypeOK ==
    /\ \A i \in Rows : Stamp(i, "embedding") # NULL
    /\ stack \in Stacks /\ seeding \in Stacks \cup {NULL}
    /\ \A c \in Columns : column[c].index \in {"none", "cosine", "bq"}
    /\ pass.cmd \in {"idle", "reembed", "schema"}
    /\ pass.at \in {"none", "retype", "fill", "finalize"}

\* A stamp tells the truth, through every kill and change of settings: a
\* vector has the id of the model that made it and the width of its column,
\* and a missing one never looks embedded ("a NULL vector must never look
\* 'already embedded by the active model'"); NOT NULL holds.
StampsAreHonest ==
    \A i \in Rows, c \in Columns :
        /\ Vec(i, c) # NULL => Stamp(i, c) = Vec(i, c).id /\ Vec(i, c).dim = column[c].dim
        /\ Vec(i, c) = NULL =>
              /\ Stamp(i, c) \in {NULL, RETYPED_STAMP, AUX_UNEMBEDDABLE_SENTINEL}
              /\ ~column[c].notnull

\* After a reembed of the whole corpus that returned, and until a chunk is
\* seeded with another embedder or a column is re-typed, every chunk has a
\* vector of the one model; after a forced one that rejected nothing, of the
\* one embedder with all its settings.
PassLeavesOneModel ==
    \A c \in Columns : swept[c].by # NULL =>
        \A i \in Rows : /\ Vec(i, c) # NULL /\ Vec(i, c).id = swept[c].by.id
                        /\ swept[c].exact => Vec(i, c) = swept[c].by

\* When embedding_schema has reported done, by one run or by resuming killed
\* and failed ones, the columns have the configured widths, NOT NULL and
\* indexes of the right kind, and every search finds what its text matches.
SchemaSettles ==
    settled # NULL =>
        /\ \A c \in Columns : /\ column[c].dim = Width(settled, c)
                              /\ column[c].index = IndexKind(Width(settled, c))
        /\ column["embedding"].notnull
        /\ \A o \in {Owner[i] : i \in Chunks} :
              \A words \in SUBSET Chunks : _fts_candidates(o, words) \subseteq search(o, words)

\* A pass over the auxiliary vectors ends: a chunk the model rejects is marked
\* "tried and failed" so that the filter "stops picking the row up".
AuxPassEnds == (pass.cmd = "reembed" /\ pass.col = "embedding_v2") ~> (pass.cmd = "idle")

\* embedding_schema, and a forced reembed, end whatever the embedder rejects.
PassEnds == (pass.cmd = "schema" \/ pass.force) ~> (pass.cmd = "idle")
=============================================================================
