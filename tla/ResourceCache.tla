---------------------------- MODULE ResourceCache ----------------------------
(***************************************************************************)
(* The cache of resource bundles (common/uresbund.cpp): entries that are   *)
(* created on demand, linked to a parent chain, an alias target and a pool *)
(* bundle, counted by fCountExisting, and freed by u_cleanup().            *)
(*                                                                         *)
(* Every function modelled here runs under resbMutex from its first access *)
(* to its last, so a call is one step, except that the flush is one step   *)
(* per entry it frees, to let the hash table have any order; nothing else  *)
(* happens in between.  Inside a call the functions are translated one by  *)
(* one, as operators on the state st of the cache; they return the new     *)
(* state with their result.  The content of the bundles is abstract:       *)
(* Data[n] says what loading n finds.  One path is modelled; the override  *)
(* data of U_USE_USRDATA is compiled out (utypes.h:142).                   *)
(***************************************************************************)
EXTENDS Integers, Sequences, FiniteSets

CONSTANTS
    Name,            \* names of bundles
    Root, Pool,      \* kRootLocaleName and kPoolBundleName
    Chop,            \* Chop[n]: n without its last part, or NoName
    NoName,
    Data,            \* what res_load() finds for a name, see Kind
    Default,         \* uloc_getDefault()
    IsDefaultPrefix, \* the names that are prefixes of Default
    Handle,          \* the client's bundles
    Requests,        \* the names the client opens
    DirectRequests,  \* the names it opens with ures_openDirect()
    Failing,         \* where memory may run out, see Failures
    MaxFailure,      \* bound on the number of times it does
    MaxCleanup       \* bound on the number of calls of u_cleanup()

Kind == {"none",     \* no such bundle
         "real",     \* a bundle with data
         "alias",    \* a bundle with %%ALIAS
         "bad"}      \* a bundle whose pool checksum is wrong

DataType == [kind : Kind,
             to : Name \cup {NoName},       \* the value of %%ALIAS
             parent : Name \cup {NoName},   \* the value of %%Parent
             rootParent : BOOLEAN,          \* it has %%ParentIsRoot
             noFallback : BOOLEAN,
             pool : BOOLEAN]                \* it uses the pool bundle

DataAssumption ==
    /\ Data \in [Name -> DataType]
    /\ Chop \in [Name -> Name \cup {NoName}]
    /\ {Root, Pool, Default} \subseteq Name
    /\ Failing \subseteq [at : {"entry", "load", "put"}, name : Name]
    /\ {MaxFailure, MaxCleanup} \subseteq Nat

VARIABLES st,        \* the cache, see Empty
          handle,    \* the entry of each of the client's bundles
          asked,     \* what each of them was opened for
          aliased,   \* <<e, n>>: e got its parent by ures_openDirect() of n
          failures   \* how often memory ran out

vars == <<st, handle, asked, aliased, failures>>

\* An entry is named after its bundle and after the number of times that the
\* cache was closed before it was made.
NoEntry == << >>
DataEntry == Name \X (0 .. MaxCleanup)

\* gen: how often the cache was closed; cached: the entries in the hash table;
\* ent: the entries in memory; freed: a freed entry was accessed; flushing:
\* ures_flushCache() is under way.
Empty == [gen |-> 0, cached |-> {}, ent |-> << >>, freed |-> FALSE, flushing |-> FALSE]

NewEntry(alias, pool, bogus) ==
    [parent |-> NoEntry, alias |-> alias, pool |-> pool, count |-> 0, bogus |-> bogus]

Live(s) == DOMAIN s.ent

\* A change of fCountExisting of entry e, if it is still there.
Count(s, e, by) ==
    IF e \in Live(s) THEN [s EXCEPT !.ent[e].count = @ + by]
                     ELSE [s EXCEPT !.freed = TRUE]

SetParent(s, e, p) == [s EXCEPT !.ent[e].parent = p]

\* Where memory runs out during a call: at the entry itself, in res_load(), or
\* in uhash_put().
NoFailure == [at |-> "never", name |-> NoName]
Failures == {NoFailure} \cup (IF failures < MaxFailure THEN Failing ELSE {})

-----------------------------------------------------------------------------
RECURSIVE Target(_, _)
\* The real bundle behind e: while(r->fAlias != NULL) r = r->fAlias.
Target(s, e) == IF s.ent[e].alias = NoEntry THEN e ELSE Target(s, s.ent[e].alias)

\* free_entry(): the pool and the alias target lose a reference.
free_entry(s, e) ==
    LET x  == s.ent[e]
        s1 == IF x.pool = NoEntry THEN s ELSE Count(s, x.pool, -1)
        s2 == CASE x.alias = NoEntry -> s1
                [] x.alias # NoEntry /\ x.alias \in Live(s1) -> Count(s1, Target(s1, x.alias), -1)
                [] x.alias # NoEntry /\ x.alias \notin Live(s1) -> [s1 EXCEPT !.freed = TRUE]
    IN  [s2 EXCEPT !.ent = [f \in DOMAIN @ \ {e} |-> @[f]], !.cached = @ \ {e}]

RECURSIVE init_entry(_, _, _, _)
\* init_entry() with getPoolEntry(): the entry of bundle n, made if it is not
\* in the cache, and counted.  err is U_FAILURE(*status), before and after.
init_entry(s, n, err, fail) ==
    LET e == <<n, s.gen>>
        d == Data[n]
        found(s1, err1) ==
            LET r == Target(s1, e)
            IN  [s |-> Count(s1, r, 1), r |-> r,
                 err |-> err1 \/ s1.ent[r].bogus = "error"]
        insert(s1, x, err1) ==
            LET s2 == [s1 EXCEPT !.ent = [f \in DOMAIN @ \cup {e} |-> IF f = e THEN x ELSE @[f]]]
            IN  IF fail = [at |-> "put", name |-> n]
                  THEN [s |-> free_entry(s2, e), r |-> NoEntry, err |-> TRUE]
                  ELSE found([s2 EXCEPT !.cached = @ \cup {e}], err1)
        withAlias(p, bad, a) ==
            insert(a.s, NewEntry(a.r, p.r, IF bad THEN "error" ELSE "ok"), a.err)
        withPool(p) ==
            LET bad == d.pool /\ (p.err \/ d.kind = "bad" \/ p.s.ent[p.r].bogus # "ok")
            IN  withAlias(p, bad, IF d.kind = "alias" /\ ~bad THEN init_entry(p.s, d.to, FALSE, fail)
                                  ELSE [s |-> p.s, r |-> NoEntry, err |-> bad])
    IN  CASE err -> [s |-> s, r |-> NoEntry, err |-> TRUE]
          [] ~err /\ e \in s.cached -> found(s, FALSE)
          [] ~err /\ e \notin s.cached /\ fail = [at |-> "entry", name |-> n] ->
                 [s |-> s, r |-> NoEntry, err |-> TRUE]
          [] ~err /\ e \notin s.cached /\ fail # [at |-> "entry", name |-> n]
             /\ (d.kind = "none" \/ fail = [at |-> "load", name |-> n]) ->
                 insert(s, NewEntry(NoEntry, NoEntry, "fallback"), FALSE)
          [] ~err /\ e \notin s.cached /\ fail # [at |-> "entry", name |-> n]
             /\ d.kind # "none" /\ fail # [at |-> "load", name |-> n] ->
                 withPool(IF d.pool THEN init_entry(s, Pool, FALSE, fail)
                          ELSE [s |-> s, r |-> NoEntry, err |-> FALSE])

\* A bug: the name is not taken from the bundle that an alias led to.
findKeepsName(s, n, err, was, fail) ==
    LET m == Chop[n]
        result(t, r, x) ==
            [s |-> t, r |-> r, err |-> FALSE, name |-> Chop[x],
             is |-> [isRoot |-> x = Root, isDefault |-> x \in IsDefaultPrefix]]
        chopped(j) == result(j.s, j.r, m)
        first(i) ==
            CASE i.s.ent[i.r].bogus = "ok" -> result(i.s, i.r, n)
              [] i.s.ent[i.r].bogus # "ok" /\ m = NoName -> result(Count(i.s, i.r, -1), NoEntry, n)
              [] i.s.ent[i.r].bogus # "ok" /\ m # NoName ->
                     chopped(init_entry(Count(i.s, i.r, -1), m, FALSE, fail))
    IN  first(init_entry(s, n, err, fail))

RECURSIVE findFirstExisting(_, _, _, _, _)
\* findFirstExisting(): the first of n, Chop[n], ... that has data.  was holds
\* the values of isRoot and isDefault, which stay if the first call fails.
findFirstExisting(s, n, err, was, fail) ==
    LET tried(i) ==
            LET real == i.s.ent[i.r].bogus = "ok"
                at == IF real THEN i.r[1] ELSE n
                now == [isRoot |-> at = Root, isDefault |-> n \in IsDefaultPrefix]
            IN  CASE i.err -> [s |-> i.s, r |-> NoEntry, err |-> TRUE, is |-> was, name |-> n]
                  [] ~i.err /\ real ->
                         [s |-> i.s, r |-> i.r, err |-> FALSE, is |-> now, name |-> Chop[at]]
                  [] ~i.err /\ ~real /\ Chop[at] = NoName ->
                         [s |-> Count(i.s, i.r, -1), r |-> NoEntry, err |-> FALSE, is |-> now,
                          name |-> NoName]
                  [] ~i.err /\ ~real /\ Chop[at] # NoName ->
                         findFirstExisting(Count(i.s, i.r, -1), Chop[at], FALSE, now, fail)
    IN  tried(init_entry(s, n, err, fail))

\* The data of entry t, nothing if it is bogus.
NoData == [kind |-> "none", to |-> NoName, parent |-> NoName, rootParent |-> FALSE,
           noFallback |-> FALSE, pool |-> FALSE]
DataOf(s, t) == IF s.ent[t].bogus = "ok" THEN Data[t[1]] ELSE NoData

RECURSIVE loadParentsExceptRoot(_, _, _, _)
\* loadParentsExceptRoot(): parents named by %%Parent or by chopping, until an
\* entry has its parent already.  The last entry is returned as t.
loadParentsExceptRoot(s, t, n, fail) ==
    LET d == DataOf(s, t)
        p == IF d.parent # NoName THEN d.parent ELSE n
        linked(i) == IF i.err THEN [s |-> i.s, t |-> t, err |-> TRUE]
                     ELSE loadParentsExceptRoot(SetParent(i.s, t, i.r), i.r, Chop[p], fail)
    IN  CASE n = NoName \/ s.ent[t].parent # NoEntry \/ d.noFallback \/ d.rootParent
             \/ d.parent = Root -> [s |-> s, t |-> t, err |-> FALSE]
          [] OTHER -> linked(init_entry(s, p, FALSE, fail))

insertRootBundle(s, t, fail) ==
    LET linked(i) == IF i.err THEN [s |-> i.s, t |-> t, err |-> TRUE]
                     ELSE [s |-> SetParent(i.s, t, i.r), t |-> i.r, err |-> FALSE]
    IN  linked(init_entry(s, Root, FALSE, fail))

RECURSIVE CountChain(_, _, _)
\* fCountExisting of e and of all its ancestors changes.
CountChain(s, e, by) ==
    CASE e = NoEntry -> s
      [] e # NoEntry /\ e \notin Live(s) -> [s EXCEPT !.freed = TRUE]
      [] e # NoEntry /\ e \in Live(s) -> CountChain(Count(s, e, by), s.ent[e].parent, by)

Opened(s, r) == [s |-> s, r |-> r]

\* A bug: the part of the chain that was there before is not counted.
openChainUncounted(f, fail) ==
    LET withRoot(load) ==
            IF ~f.is.isRoot /\ load.t[1] # Root /\ load.s.ent[load.t].parent = NoEntry
               /\ ~DataOf(load.s, f.r).noFallback
            THEN insertRootBundle(load.s, load.t, fail) ELSE load
        opened(root) == Opened(root.s, f.r)
    IN  opened(withRoot(IF f.name # NoName /\ ~f.is.isRoot
                        THEN loadParentsExceptRoot(f.s, f.r, f.name, fail)
                        ELSE [s |-> f.s, t |-> f.r, err |-> FALSE]))

\* The second half of entryOpen(), for an entry f.r that was found: its
\* parents, the root, and a reference to the rest of the chain.
openChain(f, fail) ==
    LET counted(root) ==
            CASE root.err -> Opened(root.s, NoEntry)
              [] ~root.err /\ f.is.isRoot -> Opened(root.s, f.r)
              [] ~root.err /\ ~f.is.isRoot ->
                     Opened(CountChain(root.s, root.s.ent[root.t].parent, 1), f.r)
        loaded(load) ==
            counted(IF /\ ~load.err /\ ~f.is.isRoot /\ load.t[1] # Root
                       /\ load.s.ent[load.t].parent = NoEntry /\ ~DataOf(load.s, f.r).noFallback
                    THEN insertRootBundle(load.s, load.t, fail) ELSE load)
    IN  loaded(IF f.name # NoName /\ ~f.is.isRoot
               THEN loadParentsExceptRoot(f.s, f.r, f.name, fail)
               ELSE [s |-> f.s, t |-> f.r, err |-> FALSE])

\* entryOpen() of n; toDefault: the type is URES_OPEN_LOCALE_DEFAULT_ROOT.
entryOpen(s, n, toDefault, fail) ==
    LET inRoot(f) ==
            CASE f.r = NoEntry -> Opened(f.s, NoEntry)
              [] f.r # NoEntry /\ f.is.isRoot -> Opened(f.s, f.r)
              [] f.r # NoEntry /\ ~f.is.isRoot ->
                     Opened(CountChain(f.s, f.s.ent[f.r].parent, 1), f.r)
        inDefault(f) ==
            IF f.r # NoEntry THEN openChain(f, fail)
            ELSE inRoot(findFirstExisting(f.s, Root, FALSE, f.is, fail))
        inName(f) ==
            CASE f.r # NoEntry -> openChain(f, fail)
              [] f.r = NoEntry /\ toDefault /\ ~f.is.isDefault /\ ~f.is.isRoot ->
                     inDefault(findFirstExisting(f.s, Default, f.err, f.is, fail))
              [] f.r = NoEntry /\ (~toDefault \/ f.is.isDefault \/ f.is.isRoot) ->
                     inRoot(findFirstExisting(f.s, Root, f.err, f.is, fail))
    IN  inName(findFirstExisting(s, n, FALSE, [isRoot |-> FALSE, isDefault |-> FALSE], fail))

\* entryOpenDirect() of n: no fallback to other names, but the parent chain.
entryOpenDirect(s, n, fail) ==
    LET counted(e, root) ==
            IF root.err THEN Opened(root.s, NoEntry)
            ELSE Opened(CountChain(root.s, root.s.ent[root.t].parent, 1), e)
        loaded(e, load) ==
            counted(e, IF ~load.err /\ load.t[1] # Root /\ load.s.ent[load.t].parent = NoEntry
                       THEN insertRootBundle(load.s, load.t, fail) ELSE load)
        entry(i) ==
            CASE i.err -> Opened(i.s, NoEntry)
              [] ~i.err /\ i.s.ent[i.r].bogus # "ok" -> Opened(Count(i.s, i.r, -1), NoEntry)
              [] ~i.err /\ i.s.ent[i.r].bogus = "ok" ->
                     IF n = Root \/ i.s.ent[i.r].parent # NoEntry \/ DataOf(i.s, i.r).noFallback
                     THEN counted(i.r, [s |-> i.s, t |-> i.r, err |-> FALSE])
                     ELSE loaded(i.r, IF Chop[n] \in {NoName, Root}
                                      THEN [s |-> i.s, t |-> i.r, err |-> FALSE]
                                      ELSE loadParentsExceptRoot(i.s, i.r, Chop[n], fail))
    IN  entry(init_entry(s, n, FALSE, fail))

-----------------------------------------------------------------------------
NoRequest == << >>

Init ==
    /\ st = Empty
    /\ handle = [h \in Handle |-> NoEntry]
    /\ asked = [h \in Handle |-> NoRequest]
    /\ aliased = {}
    /\ failures = 0

\* The result of an open is the new bundle of h, which is NULL if it failed.
Assign(h, o, request, fail) ==
    /\ ~st.flushing
    /\ failures' = IF fail = NoFailure THEN failures ELSE failures + 1
    /\ st' = o.s
    /\ handle' = [handle EXCEPT ![h] = o.r]
    /\ asked' = [asked EXCEPT ![h] = IF o.r = NoEntry THEN NoRequest ELSE request]

\* ures_open() and ures_openNoDefault().
ures_open(h, n, toDefault, fail) ==
    /\ handle[h] = NoEntry
    /\ Assign(h, entryOpen(st, n, toDefault, fail), <<n, IF toDefault THEN "default" ELSE "root">>, fail)
    /\ UNCHANGED aliased

ures_openDirect(h, n, fail) ==
    LET o == entryOpenDirect(st, n, fail)
        linked == o.r # NoEntry /\ (o.r \notin Live(st) \/ st.ent[o.r].parent = NoEntry)
    IN  /\ handle[h] = NoEntry
        /\ Assign(h, o, <<n, "direct">>, fail)
        /\ aliased' = IF linked /\ o.r[1] # n THEN aliased \cup {<<o.r, n>>} ELSE aliased

\* A bundle made from another one: init_resb_result(), ures_copyResb().
entryIncrease(h, g) ==
    /\ handle[h] = NoEntry /\ handle[g] # NoEntry
    /\ Assign(h, Opened(CountChain(st, handle[g], 1), handle[g]), asked[g], NoFailure)
    /\ UNCHANGED aliased

\* ures_close(): entryClose() with entryCloseInt().
entryClose(h) ==
    /\ handle[h] # NoEntry
    /\ Assign(h, Opened(CountChain(st, handle[h], -1), NoEntry), NoRequest, NoFailure)
    /\ UNCHANGED aliased

\* u_cleanup(): ures_flushCache() ...
ures_cleanup ==
    /\ ~st.flushing
    /\ st.gen < MaxCleanup
    /\ st.cached # {}
    /\ st' = [st EXCEPT !.flushing = TRUE]
    /\ UNCHANGED <<handle, asked, aliased, failures>>

\* ... frees an entry that nobody counts, the next one in the order of the hash
\* table, and passes over the table again until nothing more is freed; ...
Uncounted == {e \in st.cached : st.ent[e].count = 0}
ures_flushCache ==
    /\ st.flushing
    /\ \E e \in Uncounted : st' = free_entry(st, e)
    /\ UNCHANGED <<handle, asked, aliased, failures>>

\* ... then the hash table is closed, and what is left in it is forgotten.
closeCache ==
    /\ st.flushing
    /\ Uncounted = {}
    /\ st' = [st EXCEPT !.gen = @ + 1, !.cached = {}, !.flushing = FALSE]
    /\ UNCHANGED <<handle, asked, aliased, failures>>

Next ==
    \/ \E h \in Handle, n \in Requests, d \in BOOLEAN, f \in Failures : ures_open(h, n, d, f)
    \/ \E h \in Handle, n \in DirectRequests, f \in Failures : ures_openDirect(h, n, f)
    \/ \E h, g \in Handle : entryIncrease(h, g)
    \/ \E h \in Handle : entryClose(h)
    \/ ures_cleanup \/ ures_flushCache \/ closeCache

Spec == Init /\ [][Next]_vars

-----------------------------------------------------------------------------
RECURSIVE ChainFrom(_)
\* The entries from e to the end of its parent chain.
ChainFrom(e) ==
    IF e \notin Live(st) THEN << >> ELSE <<e>> \o ChainFrom(st.ent[e].parent)

InChain(h) == {ChainFrom(handle[h])[n] : n \in 1 .. Len(ChainFrom(handle[h]))}

\* The cache is made of entries that the code can make.
TypeOK ==
    /\ Live(st) \subseteq DataEntry /\ st.cached \subseteq Live(st)
    /\ st.gen \in 0 .. MaxCleanup
    /\ \A e \in Live(st) :
          /\ {st.ent[e].parent, st.ent[e].alias, st.ent[e].pool} \subseteq DataEntry \cup {NoEntry}
          /\ st.ent[e].count \in Nat
          /\ st.ent[e].bogus \in {"ok", "fallback", "error"}
    /\ handle \in [Handle -> DataEntry \cup {NoEntry}]

\* fCountExisting is accurate, as the comment in ures_flushCache() says: the
\* number of open bundles whose chain the entry is in, and of the alias entries
\* and bundles with a pool that refer to it.  The references to a chain are
\* taken by init_entry() for entries that are linked during the open and by the
\* last loop of entryOpen() for those that were linked before.
CountsExact ==
    \A e \in Live(st) :
        st.ent[e].count =
            Cardinality({h \in Handle : handle[h] # NoEntry /\ e \in InChain(h)})
            + Cardinality({x \in Live(st) : st.ent[x].pool = e})
            + Cardinality({x \in Live(st) : st.ent[x].alias # NoEntry
                                            /\ Target(st, st.ent[x].alias) = e})

\* An entry that an open bundle uses is never counted as unused, so that "deletes
\* only if reference counter == 0" is safe.
CountsEnough ==
    \A h \in Handle : handle[h] # NoEntry =>
        \A e \in InChain(h) :
            st.ent[e].count >= Cardinality({g \in Handle : handle[g] # NoEntry /\ e \in InChain(g)})

\* No open bundle, and no entry, refers to a freed entry, and none was ever
\* accessed, whatever was flushed in whatever order.
NothingDangles ==
    /\ ~st.freed
    /\ \A e \in Live(st) : {st.ent[e].alias, st.ent[e].pool} \subseteq Live(st) \cup {NoEntry}
    /\ \A h \in Handle : handle[h] # NoEntry =>
          /\ handle[h] \in Live(st)
          /\ \A e \in InChain(h) : st.ent[e].parent \in Live(st) \cup {NoEntry}

\* When no bundle is open, the flush of u_cleanup() frees every entry of the
\* cache, whatever the order it meets them in.
FlushFreesAll ==
    st.flushing /\ Uncounted = {} /\ (\A h \in Handle : handle[h] = NoEntry) => st.cached = {}

\* What is opened is a real bundle, never the entry of an alias in its place.
NeverAnAlias == \A h \in Handle : handle[h] # NoEntry => Data[handle[h][1]].kind # "alias"

RECURSIVE Resolve(_)
\* The reference: what a request means, by the names and the data alone.
Resolve(n) == IF Data[n].kind = "alias" THEN Resolve(Data[n].to) ELSE n

RECURSIVE Nearest(_)
Nearest(n) ==
    CASE n = NoName -> NoName
      [] n # NoName /\ Data[Resolve(n)].kind = "real" -> Resolve(n)
      [] n # NoName /\ Data[Resolve(n)].kind # "real" -> Nearest(Chop[n])

Wanted(request) ==
    LET n == request[1]
    IN  CASE request[2] = "direct" -> Resolve(n)
          [] request[2] # "direct" /\ Nearest(n) # NoName -> Nearest(n)
          [] request[2] = "default" /\ Nearest(n) = NoName /\ Nearest(Default) # NoName -> Nearest(Default)
          [] OTHER -> Root

RECURSIVE WantedChain(_, _)
\* The names of the chain from n, where name[m] is the name that m is chopped by.
WantedChain(n, name) ==
    LET d == Data[n]
        p == IF d.parent # NoName THEN d.parent
             ELSE IF d.rootParent \/ Chop[name[n]] = NoName THEN Root ELSE Resolve(Chop[name[n]])
    IN  IF n = Root \/ d.noFallback THEN <<n>> ELSE <<n>> \o WantedChain(p, name)

Names(chain) == [x \in 1 .. Len(chain) |-> chain[x][1]]

\* Every open bundle is the one that the request means: the nearest bundle
\* with data, else the default locale's, else the root.
IsWanted == \A h \in Handle : handle[h] # NoEntry => handle[h][1] = Wanted(asked[h])

\* Every open bundle is the one that is meant, with the parent chain that its
\* names and its data mean, whatever was opened, closed and cached before it.
OpensWhatIsMeant ==
    /\ IsWanted
    /\ \A h \in Handle : handle[h] # NoEntry =>
          Names(ChainFrom(handle[h])) = WantedChain(handle[h][1], [n \in Name |-> n])

\* The same, except that a bundle which ures_openDirect() reached by an alias,
\* before any other open gave it a parent, has the parents of the alias's name
\* (uresbund.cpp:762-764).
OpensWhatIsLinked ==
    /\ IsWanted
    /\ \A h \in Handle : handle[h] # NoEntry =>
          LET by(n) == {m \in Name : <<<<n, handle[h][2]>>, m>> \in aliased}
          IN  Names(ChainFrom(handle[h])) =
                  WantedChain(handle[h][1], [n \in Name |-> IF by(n) = {} THEN n
                                                            ELSE CHOOSE m \in by(n) : TRUE])
=============================================================================
