------------------------------- MODULE UtHash -------------------------------
(***************************************************************************)
(* The hash table of src/src/uthash.h: elements linked in the order of the *)
(* application (next, prev, tail), and once more in the chains of buckets  *)
(* that double in number when a chain becomes too long.                    *)
(*                                                                         *)
(* A table is a record; every macro is an operator on it and is applied in *)
(* one step, but for HASH_SRT, a merge sort of the links in place, which   *)
(* runs step by step.  An element comes from malloc() and is freed when it *)
(* leaves the table: the fields of its handle are garbage meanwhile.       *)
(***************************************************************************)
EXTENDS Naturals, Sequences, FiniteSets, SequencesExt

CONSTANTS
    Elements,  \* the structures with a handle
    NULL, Garbage,
    KeyOf,     \* the key of each
    hashv,     \* the hash value of the key of each
    Rank,      \* cmpfcn(x, y) is Rank[x] - Rank[y]
    HASH_INITIAL_NUM_BUCKETS,
    HASH_BKT_CAPACITY_THRESH,
    BLOOM_BITLEN,  \* 0: HASH_BLOOM is not defined
    MaxBuckets     \* bound of the model: a table that could double further gets no element from here

ASSUME HashAssumption ==
    /\ IsFiniteSet(Elements)
    /\ NULL \notin Elements /\ Garbage \notin Elements /\ NULL # Garbage
    /\ hashv \in [Elements -> Nat] /\ Rank \in [Elements -> Nat]
    /\ \A x, y \in Elements : KeyOf[x] = KeyOf[y] => hashv[x] = hashv[y]
    /\ HASH_INITIAL_NUM_BUCKETS \in Nat \ {0} /\ HASH_BKT_CAPACITY_THRESH \in Nat \ {0}
    /\ BLOOM_BITLEN \in Nat /\ MaxBuckets \in Nat

Pointer == Elements \cup {NULL}

VARIABLES
    table,  \* the table and the links of the handles
    sort    \* the local variables of HASH_SRT while it runs

vars == <<table, sort>>

Unused == [x \in Elements |-> Garbage]
NoBuckets == [chain |-> <<>>, count |-> 0, expand_mult |-> 0]

\* head is the application's variable; the other scalars are read only while it is not null.
NoTable(next, prev) ==
    [head |-> NULL, tail |-> NULL, next |-> next, prev |-> prev, num_items |-> 0,
     num_buckets |-> 0, buckets |-> [b \in {} |-> NoBuckets], bloom |-> {}, ineff_expands |-> 0, noexpand |-> FALSE]

-----------------------------------------------------------------------------
(* Buckets. *)

\* hashv & (num_bkts - 1): the number of buckets is a power of two.
HASH_TO_BKT(x, num_bkts) == hashv[x] % num_bkts

HASH_BLOOM_ADD(t, x) ==
    IF BLOOM_BITLEN = 0 THEN t ELSE [t EXCEPT !.bloom = @ \cup {hashv[x] % BLOOM_BITLEN}]
HASH_BLOOM_TEST(t, hash) == BLOOM_BITLEN = 0 \/ hash % BLOOM_BITLEN \in t.bloom

Ceiling(m, n) == m \div n + (IF m % n # 0 THEN 1 ELSE 0)

\* The elements of all chains, from the first bucket to the last.
Chained(t) == FlattenSeq([b \in 1 .. t.num_buckets |-> t.buckets[b - 1].chain])

\* The elements of walk that belong into bucket b of n: each goes to the front.
NewChain(walk, n, b) ==
    LET After[k \in 0 .. Len(walk)] ==
            IF k = 0 THEN <<>>
            ELSE IF HASH_TO_BKT(walk[k], n) = b THEN <<walk[k]>> \o After[k - 1] ELSE After[k - 1]
    IN After[Len(walk)]

Redistributed_OldBits(t, n) ==
    [b \in 0 .. n - 1 |->
        LET chain == NewChain(Chained(t), t.num_buckets, b)
        IN [chain |-> chain, count |-> Len(chain), expand_mult |-> 0]]
Redistributed(t, n) ==
    LET ideal == Ceiling(t.num_items, n)
    IN [b \in 0 .. n - 1 |->
            LET chain == NewChain(Chained(t), n, b)
            IN [chain |-> chain, count |-> Len(chain),
                expand_mult |-> IF Len(chain) > ideal THEN Len(chain) \div ideal ELSE 0]]

\* Elements further back in their chains than ideal_chain_maxlen.
NonidealItems(buckets, ideal) ==
    FoldFunction(LAMBDA bkt, sum : sum + (IF bkt.count > ideal THEN bkt.count - ideal ELSE 0),
                 0, buckets)

HASH_EXPAND_BUCKETS_NumberKept(t) ==
    [t EXCEPT !.buckets = Redistributed(t, 2 * t.num_buckets)]
HASH_EXPAND_BUCKETS(t) ==
    LET n == 2 * t.num_buckets
        new == Redistributed(t, n)
        ineff == IF NonidealItems(new, Ceiling(t.num_items, n)) > t.num_items \div 2
                 THEN t.ineff_expands + 1 ELSE 0
    IN [t EXCEPT !.num_buckets = n, !.buckets = new,
                 !.ineff_expands = ineff, !.noexpand = @ \/ ineff > 1]

HASH_ADD_TO_BKT_Late(t, x) ==
    LET b == HASH_TO_BKT(x, t.num_buckets)
        added == [t EXCEPT !.buckets[b] =
                     [t.buckets[b] EXCEPT !.chain = <<x>> \o @, !.count = @ + 1]]
        full == t.buckets[b].count > (t.buckets[b].expand_mult + 1) * HASH_BKT_CAPACITY_THRESH
    IN IF full /\ ~t.noexpand THEN HASH_EXPAND_BUCKETS(added) ELSE added
HASH_ADD_TO_BKT(t, x) ==
    LET b == HASH_TO_BKT(x, t.num_buckets)
        added == [t EXCEPT !.buckets[b] =
                     [t.buckets[b] EXCEPT !.chain = <<x>> \o @, !.count = @ + 1]]
        full == added.buckets[b].count
                    >= (added.buckets[b].expand_mult + 1) * HASH_BKT_CAPACITY_THRESH
    IN IF full /\ ~t.noexpand THEN HASH_EXPAND_BUCKETS(added) ELSE added

HASH_DEL_IN_BKT(t, x) ==
    LET b == HASH_TO_BKT(x, t.num_buckets)
        chain == t.buckets[b].chain
    IN [t EXCEPT !.buckets[b] =
           [t.buckets[b] EXCEPT !.chain = RemoveAt(chain, CHOOSE n \in DOMAIN chain : chain[n] = x),
                                !.count = @ - 1]]

\* The first element of the chain that has the key, or NULL.
HASH_FIND(t, x) ==
    IF t.head = NULL \/ ~HASH_BLOOM_TEST(t, hashv[x]) THEN NULL
    ELSE LET chain == t.buckets[HASH_TO_BKT(x, t.num_buckets)].chain
             found == {n \in DOMAIN chain : hashv[chain[n]] = hashv[x] /\ KeyOf[chain[n]] = KeyOf[x]}
         IN IF found = {} THEN NULL ELSE chain[Min(found)]

-----------------------------------------------------------------------------
(* The order of the application. *)

\* What is met from x on: Walk(links, x, n)[k] is k links away.
Walk(links, x, n) ==
    LET follow == [y \in Pointer \cup {Garbage} |-> IF y \in Elements THEN links[y] ELSE y]
        At[k \in 0 .. n] == IF k = 0 THEN x ELSE follow[At[k - 1]]
    IN At

\* The elements HASH_ITER meets, first to last; cut off where a broken list would not end.
AppOrder(t) ==
    LET met == Walk(t.next, t.head, Cardinality(Elements))
        length == Cardinality({k \in DOMAIN met : met[k] \in Elements})
    IN [n \in 1 .. length |-> met[n - 1]]

HASH_MAKE_TABLE(t, x) ==
    [t EXCEPT !.head = x, !.tail = x, !.next[x] = NULL, !.prev[x] = NULL, !.num_items = 0,
              !.num_buckets = HASH_INITIAL_NUM_BUCKETS,
              !.buckets = [b \in 0 .. HASH_INITIAL_NUM_BUCKETS - 1 |-> NoBuckets],
              !.bloom = {}, !.ineff_expands = 0, !.noexpand = FALSE]

HASH_APPEND_LIST(t, x) ==
    [t EXCEPT !.next = [@ EXCEPT ![x] = NULL, ![t.tail] = x], !.prev[x] = t.tail, !.tail = x]

InsertBefore(t, x, y) ==
    LET before == t.prev[y] IN
    [t EXCEPT !.next = [z \in Elements |-> CASE z = x -> y [] z = before -> x [] OTHER -> @[z]],
              !.prev = [@ EXCEPT ![x] = before, ![y] = x],
              !.head = IF before = NULL THEN x ELSE @]

\* The first element from y on that is greater than x.
HASH_AKBI_INNER_LOOP(t, x) ==
    LET s == AppOrder(t)
        greater == {n \in DOMAIN s : Rank[s[n]] > Rank[x]}
    IN IF greater = {} THEN NULL ELSE s[Min(greater)]

Counted(t, x) == HASH_BLOOM_ADD(HASH_ADD_TO_BKT([t EXCEPT !.num_items = @ + 1], x), x)

HASH_ADD(t, x) ==
    Counted(IF t.head = NULL THEN HASH_MAKE_TABLE(t, x) ELSE HASH_APPEND_LIST(t, x), x)

HASH_ADD_INORDER(t, x) ==
    Counted(IF t.head = NULL THEN HASH_MAKE_TABLE(t, x)
            ELSE LET y == HASH_AKBI_INNER_LOOP(t, x)
                 IN IF y = NULL THEN HASH_APPEND_LIST(t, x) ELSE InsertBefore(t, x, y), x)

HASH_CLEAR(t) == NoTable(t.next, t.prev)

Unlinked_TailKept(t, x) ==
    LET before == t.prev[x]
        after == t.next[x]
    IN [t EXCEPT !.head = IF before = NULL THEN after ELSE @,
                 !.next = [z \in Elements |-> IF z = before THEN after ELSE @[z]],
                 !.prev = [z \in Elements |-> IF z = after THEN before ELSE @[z]]]
Unlinked(t, x) ==
    LET before == t.prev[x]
        after == t.next[x]
    IN [t EXCEPT !.tail = IF x = @ THEN before ELSE @,
                 !.head = IF before = NULL THEN after ELSE @,
                 !.next = [z \in Elements |-> IF z = before THEN after ELSE @[z]],
                 !.prev = [z \in Elements |-> IF z = after THEN before ELSE @[z]]]

HASH_DELETE(t, x) ==
    IF t.prev[x] = NULL /\ t.next[x] = NULL THEN HASH_CLEAR(t)
    ELSE [HASH_DEL_IN_BKT(Unlinked(t, x), x) EXCEPT !.num_items = @ - 1]

Evicted(t, x) ==
    LET replaced == HASH_FIND(t, x) IN IF replaced = NULL THEN t ELSE HASH_DELETE(t, replaced)
HASH_REPLACE(t, x) == HASH_ADD(Evicted(t, x), x)
HASH_REPLACE_INORDER(t, x) == HASH_ADD_INORDER(Evicted(t, x), x)

-----------------------------------------------------------------------------
(* HASH_SRT: sorted runs of _hs_insize elements are merged in pairs, pass  *)
(* after pass.  list and tail are the ends of what is linked already; p    *)
(* and q are the two runs, with psize and at most qsize elements to go.    *)

\* "before" is auxiliary: the order when the sort began.
Pass(first, size, order) ==
    [at |-> "pass", insize |-> size, nmerges |-> 0, list |-> NULL, tail |-> NULL,
     p |-> first, psize |-> 0, q |-> NULL, qsize |-> 0, before |-> order]
Idle == [Pass(NULL, 0, <<>>) EXCEPT !.at = "idle"]

StartSort ==
    /\ sort.at = "idle" /\ table.head # NULL
    /\ sort' = Pass(table.head, 1, AppOrder(table))
    /\ UNCHANGED table

\* q steps over the run at p, of at most insize elements.
NextRuns ==
    LET Ahead == Walk(table.next, sort.p, sort.insize)
        length == Cardinality({n \in 0 .. sort.insize - 1 : Ahead[n] # NULL})
    IN /\ sort.at = "pass" /\ sort.p # NULL
       /\ sort' = [sort EXCEPT !.at = "merge", !.nmerges = @ + 1, !.psize = length,
                                 !.q = Ahead[sort.insize], !.qsize = sort.insize]
       /\ UNCHANGED table

QLeft == sort.qsize > 0 /\ sort.q # NULL
TakeP_Unstable == sort.psize > 0 /\ (QLeft => Rank[sort.p] < Rank[sort.q])
TakeP == sort.psize > 0 /\ (QLeft => Rank[sort.p] <= Rank[sort.q])

Merge ==
    LET e == IF TakeP THEN sort.p ELSE sort.q
        taken == IF TakeP THEN [sort EXCEPT !.p = table.next[e], !.psize = @ - 1]
                          ELSE [sort EXCEPT !.q = table.next[e], !.qsize = @ - 1]
    IN /\ sort.at = "merge" /\ (sort.psize > 0 \/ QLeft)
       /\ sort' = [taken EXCEPT !.list = IF sort.tail = NULL THEN e ELSE @, !.tail = e]
       /\ table' = [table EXCEPT !.next = [x \in Elements |-> IF x = sort.tail THEN e ELSE @[x]],
                                 !.prev[e] = sort.tail]

RunsMerged ==
    /\ sort.at = "merge" /\ ~(sort.psize > 0 \/ QLeft)
    /\ sort' = [sort EXCEPT !.at = "pass", !.p = sort.q]
    /\ UNCHANGED table

PassDone_SameSize ==
    /\ sort.at = "pass" /\ sort.p = NULL
    /\ table' = [table EXCEPT !.next[sort.tail] = NULL]
    /\ sort' = Pass(sort.list, sort.insize, sort.before)
PassDone ==
    /\ sort.at = "pass" /\ sort.p = NULL
    /\ LET ended == [table EXCEPT !.next[sort.tail] = NULL] IN
       IF sort.nmerges <= 1
       THEN /\ table' = [ended EXCEPT !.tail = sort.tail, !.head = sort.list]
            /\ sort' = Idle
       ELSE /\ table' = ended
            /\ sort' = Pass(sort.list, 2 * sort.insize, sort.before)

HASH_SRT == StartSort \/ NextRuns \/ Merge \/ RunsMerged \/ PassDone

-----------------------------------------------------------------------------
(* The application.  It adds only elements whose key is not there, and     *)
(* deletes only elements that are.                                         *)

Init ==
    /\ table = NoTable(Unused, Unused)
    /\ sort = Idle

InTable(x) == x \in Range(AppOrder(table))
Room == table.num_buckets < MaxBuckets \/ table.noexpand
Freed(t) ==
    LET there == Range(AppOrder(t))
        Kept(links) == [x \in Elements |-> IF x \in there THEN links[x] ELSE Garbage]
    IN [t EXCEPT !.next = Kept(@), !.prev = Kept(@)]
Call(result) == sort.at = "idle" /\ table' = Freed(result) /\ UNCHANGED sort

Add(x) == Room /\ HASH_FIND(table, x) = NULL /\ Call(HASH_ADD(table, x))
AddInorder(x) == Room /\ HASH_FIND(table, x) = NULL /\ Call(HASH_ADD_INORDER(table, x))
Replace(x) == Room /\ Call(HASH_REPLACE(table, x))
ReplaceInorder(x) == Room /\ Call(HASH_REPLACE_INORDER(table, x))
Delete(x) == InTable(x) /\ Call(HASH_DELETE(table, x))
Clear == table.head # NULL /\ Call(HASH_CLEAR(table))

Next ==
    \/ HASH_SRT \/ Clear
    \/ \E x \in Elements :
        Add(x) \/ AddInorder(x) \/ Replace(x) \/ ReplaceInorder(x) \/ Delete(x)

Spec == Init /\ [][Next]_vars

\* A macro runs to its end.
FairSpec == Spec /\ WF_vars(HASH_SRT)

-----------------------------------------------------------------------------
(* Properties. *)

TypeOK ==
    /\ {table.head, table.tail} \subseteq Pointer
    /\ {table.next, table.prev} \subseteq [Elements -> Pointer \cup {Garbage}]
    /\ {table.num_items, table.ineff_expands} \subseteq Nat /\ table.noexpand \in BOOLEAN
    /\ DOMAIN table.buckets = 0 .. table.num_buckets - 1
    /\ sort.at \in {"idle", "pass", "merge"}

\* uthash.h:417-471 (compiled in with HASH_DEBUG only): every bucket counts its chain, the
\* chains and the order of the application have num_items elements each, and prev is the
\* inverse of next.
FSCK(t) ==
    t.head # NULL =>
        LET s == AppOrder(t)
        IN /\ \A b \in DOMAIN t.buckets : t.buckets[b].count = Len(t.buckets[b].chain)
           /\ Len(Chained(t)) = t.num_items /\ Len(s) = t.num_items
           /\ \A n \in DOMAIN s : t.prev[s[n]] = IF n = 1 THEN NULL ELSE s[n - 1]

\* After every macro, whatever was added, replaced, deleted and sorted before, and however
\* often the buckets have doubled.
FsckHolds == sort.at = "idle" => FSCK(table)

\* The chains and the order of the application agree: HASH_FIND finds the element that has
\* the key exactly if HASH_ITER meets one.  No doubling leaves an element in the bucket of
\* the wrong bits of its hash value, and the Bloom filter hides none.
FindsWhatIsThere ==
    sort.at = "idle" =>
        \A x \in Elements :
            LET there == {y \in Range(AppOrder(table)) : KeyOf[y] = KeyOf[x]} IN
            IF there = {} THEN HASH_FIND(table, x) = NULL ELSE HASH_FIND(table, x) \in there

\* uthash.h:1032-1044: unless expansion is inhibited, no chain outgrows the multiple of the
\* threshold that its expand_mult allows, also right after a doubling that did not help.
ChainsStayShort ==
    table.noexpand \/
        \A b \in DOMAIN table.buckets :
            table.buckets[b].count <= (table.buckets[b].expand_mult + 1) * HASH_BKT_CAPACITY_THRESH

\* The links implement an ordered collection: adding appends or inserts in order, deleting
\* and replacing leave the order of the others, and the merges of HASH_SRT amount to a
\* stable sort that neither loses nor repeats an element.
Ordered == INSTANCE OrderedTable WITH
    order <- IF sort.at = "idle" THEN AppOrder(table) ELSE sort.before
OrderedSpec == Ordered!Spec

\* HASH_SRT ends: it stops doubling the runs.
SortEnds == sort.at # "idle" ~> sort.at = "idle"
=============================================================================
