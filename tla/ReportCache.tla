------------------------------ MODULE ReportCache ------------------------------
(***************************************************************************)
(* The report cache (apps/sidecar/src/engine/report-cache.ts), one family: *)
(* an entry per filter partitions the store's rows into buckets, the       *)
(* store's change feed marks the touched ones dirty, and a query refolds   *)
(* the dirty ones and assembles its answer.  Builds and refolds yield      *)
(* between rows (the module takes a chunk of one row), so changes, queries,*)
(* swaps of the store and of the prices land between them.  A fold keeps   *)
(* which rows it folded, at which prices, and is empty for null; sums and  *)
(* orders are left out.  A batch is one change; the presumption's identity *)
(* follows the rule of the prices' and is left out with it.                *)
(***************************************************************************)
EXTENDS Integers, FiniteSets, Sequences, SequencesExt

CONSTANTS
    DedupKeys, Rows,        \* a row is a key in one of its versions
    BucketOf,               \* the bucket a row belongs to
    Axes, AdmittedBy,       \* the filters asked for, and the rows each admits
    None,
    MaxEntries,             \* MAX_ENTRIES
    MaxAsks, MaxFeeds, MaxRebinds, MaxRejections        \* bounds

ASSUME ReportCacheAssumption ==
    /\ IsFiniteSet(Rows) /\ MaxEntries \in Nat \ {0} /\ MaxAsks \in Nat
    /\ None \notin Rows /\ None \notin {BucketOf[r] : r \in Rows}

VARIABLES
    storeRows,              \* the rows of the installed store
    oldRows, swapped,       \* the bound store is an earlier one, with these rows
    prices, boundPrices,    \* the prices in force, and those bound
    entries,                \* the entries, by id: in the family or only of a query
    family,                 \* the ids in the family, least recently used first
    queries,                \* the queries not yet returned, by number
    asked, feeds, rebinds, rejections

world == <<storeRows, oldRows, swapped, prices>>
cache == <<boundPrices, entries, family>>
reportCacheVars == <<world, cache, queries, asked, feeds, rebinds, rejections>>

Content(axis, rows) == rows \cap AdmittedBy[axis]
BoundRows == IF swapped THEN oldRows ELSE storeRows

CacheInit ==
    /\ storeRows \in {s \in SUBSET Rows : \A a, b \in s : a.key = b.key => a = b}
    /\ oldRows = {} /\ swapped = FALSE /\ prices = 0 /\ boundPrices = 0
    /\ entries = <<>> /\ family = <<>> /\ queries = <<>>
    /\ asked = 0 /\ feeds = 0 /\ rebinds = 0 /\ rejections = 0

-------------------------------------------------------------------------------
\* The buckets of an entry under one change.
Without(bs, b) == [x \in DOMAIN bs \ {b} |-> bs[x]]
With(bs, b, v) == [x \in DOMAIN bs \cup {b} |-> IF x = b THEN v ELSE bs[x]]
Touched(events) == [events |-> events, acc |-> {}, dirty |-> TRUE]

\* Exactly the row asked for, if it is there; an empty bucket goes.
RowRemoved(bs, r) ==
    LET b == BucketOf[r]
    IN IF b \notin DOMAIN bs \/ r \notin bs[b].events THEN bs
       ELSE IF bs[b].events = {r} THEN Without(bs, b)
       ELSE With(bs, b, Touched(bs[b].events \ {r}))

\* A row whose place is taken is already there.
RowInserted(bs, r) ==
    LET b == BucketOf[r]
    IN IF b \notin DOMAIN bs THEN With(bs, b, Touched({r}))
       ELSE IF \E x \in bs[b].events : x.key = r.key THEN bs
       ELSE With(bs, b, Touched(bs[b].events \cup {r}))

\* applyChanges, of one change.
Applied(bs, axis, c) ==
    LET out == IF c.replaced # None /\ c.replaced \in AdmittedBy[axis]
               THEN RowRemoved(bs, c.replaced) ELSE bs
    IN IF c.event # None /\ c.event \in AdmittedBy[axis] THEN RowInserted(out, c.event) ELSE out

\* applyChanges, of a batch.
AppliedAll(bs, axis, cs) ==
    LET after[i \in 0 .. Len(cs)] ==
            IF i = 0 THEN bs ELSE Applied(after[i - 1], axis, cs[i])
    IN  after[Len(cs)]

\* Mutant: a change that lands during a build is taken to be in its snapshot.
FedUnbuffered(e, c) ==
    IF e.built THEN [e EXCEPT !.buckets = Applied(@, e.axis, c)] ELSE e

\* handleChanges, for one entry of the family.
Fed(e, c) ==
    IF e.built THEN [e EXCEPT !.buckets = Applied(@, e.axis, c)]
    ELSE IF e.building THEN [e EXCEPT !.pending = Append(@, c)]
    ELSE e

InFamily(id) == \E i \in 1 .. Len(family) : family[i] = id

\* Every query not yet answered has now also seen these rows.
Seen(rows) == [n \in DOMAIN queries |->
                 [queries[n] EXCEPT !.seen = @ \cup {Content(queries[n].axis, rows)}]]

\* The row a key has in the store.
StoredUnder(k) ==
    LET held == {r \in storeRows : r.key = k} IN IF held = {} THEN {None} ELSE held

\* The store changes a row, and feeds it to the entries of the family.
Feed(k) ==
    /\ feeds < MaxFeeds /\ feeds' = feeds + 1
    /\ \E event \in {None} \cup {r \in Rows : r.key = k}, replaced \in StoredUnder(k) :
        /\ event # replaced
        /\ event # None /\ replaced # None => event.ver > replaced.ver
        /\ storeRows' = (storeRows \ {replaced}) \cup ({event} \ {None})
        /\ entries' = [id \in DOMAIN entries |->
                         IF InFamily(id) /\ ~swapped
                         THEN Fed(entries[id], [event |-> event, replaced |-> replaced])
                         ELSE entries[id]]
    /\ queries' = Seen(storeRows')
    /\ UNCHANGED <<oldRows, swapped, prices, boundPrices, family, asked, rebinds, rejections>>

\* The fleet installs a rebuilt store; the cache is still bound to the one before.
InstallStore ==
    /\ rebinds < MaxRebinds /\ rebinds' = rebinds + 1
    /\ oldRows' = BoundRows /\ swapped' = TRUE
    /\ storeRows' \in {storeRows, {}}
    /\ queries' = Seen(storeRows')
    /\ UNCHANGED <<prices, cache, asked, feeds, rejections>>

InstallPrices ==
    /\ rebinds < MaxRebinds /\ rebinds' = rebinds + 1
    /\ prices' = prices + 1
    /\ UNCHANGED <<storeRows, oldRows, swapped, cache, queries, asked, feeds, rejections>>

-------------------------------------------------------------------------------
\* rebind: what the entries were folded from is no longer what is installed.
Outdated == swapped \/ prices # boundPrices

\* Only what the family or a query still refers to.
Reached(es, fam, qs) ==
    [id \in {i \in DOMAIN es : \/ \E j \in 1 .. Len(fam) : fam[j] = i
                               \/ \E n \in DOMAIN qs : qs[n].entry = i} |-> es[id]]

Cold(axis) == [axis |-> axis, built |-> FALSE, building |-> FALSE, pending |-> <<>>,
               buckets |-> <<>>]

FreshId == CHOOSE id \in 1 .. Cardinality(DOMAIN entries) + 1 : id \notin DOMAIN entries

\* The family after rebind, and the places in it of a filter's entry.
Bound == IF Outdated THEN <<>> ELSE family
Held(axis) == {i \in DOMAIN Bound : entries[Bound[i]].axis = axis}

\* A query: rebind, then its entry becomes the most recently used.
Asks(axis, id, e, others) ==
    /\ asked < MaxAsks /\ asked' = asked + 1
    /\ boundPrices' = prices /\ swapped' = FALSE /\ oldRows' = {}
    /\ family' = Append(others, id)
    /\ queries' = With(queries, asked',
                      [entry |-> id, axis |-> axis, phase |-> "queued", todo |-> {},
                       bucket |-> None, folded |-> {}, answer |-> {},
                       seen |-> {Content(axis, storeRows)}, prices |-> prices])
    /\ entries' = Reached(With(entries, id, e), family', queries')
    /\ UNCHANGED <<storeRows, prices, feeds, rebinds, rejections>>

AskHeld(axis) ==
    \E i \in Held(axis) : Asks(axis, Bound[i], entries[Bound[i]], RemoveAt(Bound, i))

\* A cold entry takes the place of the least recently used.
AskCold(axis) ==
    /\ Held(axis) = {}
    /\ Asks(axis, FreshId, Cold(axis),
            IF Len(Bound) >= MaxEntries THEN Tail(Bound) ELSE Bound)

\* The work chain: the queries of an entry run one after another.
Runs(n) == \A m \in DOMAIN queries :
              queries[m].entry = queries[n].entry /\ queries[m].phase # "answered" => n <= m

\* Rows are taken in the store's order, whichever that is.
First(rows) == CHOOSE r \in rows : TRUE

At(n, phase) == n \in DOMAIN queries /\ Runs(n) /\ queries[n].phase = phase
Mine(n) == entries[queries[n].entry]
Entry(n, e) == entries' = [entries EXCEPT ![queries[n].entry] = e]
Query(n, q) == queries' = [queries EXCEPT ![n] = q]
Quiet == UNCHANGED <<world, boundPrices, family, asked, feeds, rebinds>>

\* A built entry is refolded; a cold one opens its buffer and takes its snapshot.
Begin(n) ==
    /\ At(n, "queued")
    /\ IF Mine(n).built
       THEN Query(n, [queries[n] EXCEPT !.phase = "refold"]) /\ UNCHANGED entries
       ELSE /\ Entry(n, [Mine(n) EXCEPT !.building = TRUE])
            /\ Query(n, [queries[n] EXCEPT !.phase = "build",
                                           !.todo = Content(queries[n].axis, BoundRows)])
    /\ Quiet /\ UNCHANGED rejections

\* coldBuild pushes a row of its snapshot into its bucket.
Partition(n) ==
    /\ At(n, "build") /\ queries[n].todo # {}
    /\ LET r == First(queries[n].todo)
           b == BucketOf[r]
           bs == Mine(n).buckets
           before == IF b \in DOMAIN bs THEN bs[b].events ELSE {}
       IN /\ Entry(n, [Mine(n) EXCEPT !.buckets = With(@, b, Touched(before \cup {r}))])
          /\ Query(n, [queries[n] EXCEPT !.todo = @ \ {r}])
    /\ Quiet /\ UNCHANGED rejections

\* The partition is whole: what was buffered meanwhile is replayed.
Built(n) ==
    /\ At(n, "build") /\ queries[n].todo = {}
    /\ LET e == Mine(n)
       IN Entry(n, [e EXCEPT !.built = TRUE, !.building = FALSE, !.pending = <<>>,
                             !.buckets = AppliedAll(@, e.axis, e.pending)])
    /\ Query(n, [queries[n] EXCEPT !.phase = "refold"])
    /\ Quiet /\ UNCHANGED rejections

\* A bucket is marked clean before its rows are folded.
MarkedClean(bs, b) == [bs EXCEPT ![b].dirty = FALSE]

TakeBucket(n) ==
    /\ At(n, "refold") /\ queries[n].bucket = None
    /\ \E b \in DOMAIN Mine(n).buckets :
        /\ Mine(n).buckets[b].dirty
        /\ Entry(n, [Mine(n) EXCEPT !.buckets = MarkedClean(@, b)])
        /\ Query(n, [queries[n] EXCEPT !.bucket = b, !.todo = Mine(n).buckets[b].events,
                                       !.folded = {}])
    /\ Quiet /\ UNCHANGED rejections

\* The fold of a bucket, put in its place if the bucket is still there.
Folded(bs, b, acc) == IF b \in DOMAIN bs THEN [bs EXCEPT ![b].acc = acc] ELSE bs

\* A row is folded at the prices in force; after the last the bucket has its fold.
Fold(n) ==
    /\ At(n, "refold") /\ queries[n].bucket # None
    /\ LET r == First(queries[n].todo)
           acc == queries[n].folded \cup {[row |-> r, prices |-> prices]}
           rest == queries[n].todo \ {r}
       IN IF rest # {}
          THEN /\ Query(n, [queries[n] EXCEPT !.todo = rest, !.folded = acc])
               /\ UNCHANGED entries
          ELSE /\ Entry(n, [Mine(n) EXCEPT !.buckets = Folded(@, queries[n].bucket, acc)])
               /\ Query(n, [queries[n] EXCEPT !.todo = {}, !.folded = {}, !.bucket = None])
    /\ Quiet /\ UNCHANGED rejections

\* What the buckets' folds hold together.
Folds(bs) == UNION {bs[b].acc : b \in DOMAIN bs}

\* A pass found nothing dirty: the folds are kept aside with it.
CleanPass(n) ==
    /\ At(n, "refold") /\ queries[n].bucket = None
    /\ \A b \in DOMAIN Mine(n).buckets : ~Mine(n).buckets[b].dirty
    /\ Query(n, [queries[n] EXCEPT !.phase = "clean", !.folded = Folds(Mine(n).buckets)])
    /\ Quiet /\ UNCHANGED <<entries, rejections>>

Assembled(n) == queries[n].folded

\* The answer is assembled one await after the pass.
Assemble(n) ==
    /\ At(n, "clean")
    /\ Query(n, [queries[n] EXCEPT !.phase = "answered", !.answer = Assembled(n)])
    /\ Quiet /\ UNCHANGED <<entries, rejections>>

Dropped(n) == [m \in DOMAIN queries \ {n} |-> queries[m]]

Return(n) ==
    /\ n \in DOMAIN queries /\ queries[n].phase = "answered"
    /\ queries' = Dropped(n) /\ entries' = Reached(entries, family, Dropped(n))
    /\ Quiet /\ UNCHANGED rejections

\* The rejection handler: the entry is cold again.
Reset(e) == Cold(e.axis)

\* A build or a fold throws: its query is rejected, and the entry reset.
Throw(n) ==
    /\ rejections < MaxRejections /\ rejections' = rejections + 1
    /\ At(n, "build") \/ At(n, "refold")
    /\ queries' = Dropped(n)
    /\ entries' = Reached([entries EXCEPT ![queries[n].entry] = Reset(@)], family, Dropped(n))
    /\ Quiet

CacheNext ==
    \/ \E k \in DedupKeys : Feed(k)
    \/ InstallStore \/ InstallPrices
    \/ \E axis \in Axes : AskHeld(axis) \/ AskCold(axis)
    \/ \E n \in 1 .. MaxAsks :
        \/ Begin(n) \/ Partition(n) \/ Built(n) \/ TakeBucket(n) \/ Fold(n)
        \/ CleanPass(n) \/ Assemble(n) \/ Return(n) \/ Throw(n)

CacheSpec == CacheInit /\ [][CacheNext]_reportCacheVars

-------------------------------------------------------------------------------
RowsOf(answer) == {x.row : x \in answer}

\* The cache's fields; an entry that is not being built buffers nothing
\* (report-cache.ts:182-187, 771-778).
ReportCacheTypeOK ==
    /\ storeRows \subseteq Rows /\ Len(family) <= MaxEntries
    /\ \A id \in DOMAIN entries :
        /\ entries[id].axis \in Axes
        /\ ~entries[id].building => entries[id].pending = <<>>
        /\ ~(entries[id].built /\ entries[id].building)

\* report-cache.ts:160-178: an answer holds every row, once, of one state the store
\* was in between the question and the answer: none dropped, none doubled, no two
\* states mixed, whatever landed between two rows of a build or a fold.
AnswerIsAState ==
    \A n \in DOMAIN queries : queries[n].phase = "answered" =>
        /\ RowsOf(queries[n].answer) \in queries[n].seen
        /\ Cardinality(RowsOf(queries[n].answer)) = Cardinality(queries[n].answer)

\* report-cache.ts:111-126: a question asked after a swap of the prices is answered
\* without a fold made before it: stale at most once.
PricedSinceAsked ==
    \A n \in DOMAIN queries : queries[n].phase = "answered" =>
        \A x \in queries[n].answer : x.prices >= queries[n].prices

\* report-cache.ts:181-196: a built entry the feed reaches holds the store's rows,
\* each in its bucket, and the fold of a clean bucket that is not being folded is
\* of exactly its rows.
EntryIsTheStore ==
    \A id \in DOMAIN entries : entries[id].built /\ InFamily(id) =>
        LET bs == entries[id].buckets
        IN /\ UNION {bs[b].events : b \in DOMAIN bs} = Content(entries[id].axis, BoundRows)
           /\ \A b \in DOMAIN bs : \A r \in bs[b].events : BucketOf[r] = b
           /\ \A b \in DOMAIN bs :
                /\ ~bs[b].dirty
                /\ ~\E n \in DOMAIN queries : queries[n].entry = id /\ queries[n].bucket = b
                => RowsOf(bs[b].acc) = bs[b].events

\* An answer is one state of the store between question and answer, priced since
\* the question; and an entry the feed reaches holds the store's rows.
ReportsHold == ReportCacheTypeOK /\ AnswerIsAState /\ PricedSinceAsked /\ EntryIsTheStore

===============================================================================
