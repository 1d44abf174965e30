-------------------------------- MODULE Geo ---------------------------------
(***************************************************************************)
(* The country tables: scripts/build_geo.py compiles the registries'       *)
(* delegations into sorted ranges, geo.py loads them on the first look-up  *)
(* and looks addresses up by bisection, from several request threads at    *)
(* once.  Answers are kept in a cache for the life of the process.         *)
(*                                                                         *)
(* Addresses are small numbers, of a family with a table of its own.       *)
(***************************************************************************)
EXTENDS Requests

CONSTANTS
  Families,    \* IPv4, IPv6
  MaxAddr,     \* addresses are 0..MaxAddr
  Special,     \* the addresses that are not globally routable
  Countries,   \* country codes of the registries
  Flagged,     \* the ones flag-icons has a flag for
  MaxRanges,   \* bound: delegations
  CacheMax     \* the cache takes no more than this (100 000)

None == "none"      \* no country
Nobody == "nobody"  \* holds the lock

ASSUME GeoAssumption ==
  /\ Nobody \notin Threads
  /\ IsFiniteSet(Families) /\ IsFiniteSet(Countries)
  /\ MaxAddr \in Nat /\ Special \subseteq 0..MaxAddr
  /\ Flagged \subseteq Countries /\ MaxRanges \in Nat /\ CacheMax \in Nat

VARIABLES
  delegated,  \* what the registries delegate (the same for each family)
  readable,   \* the families whose compiled table can be read
  ranges,     \* family -> the ranges in memory
  loaded,     \* _LOADED
  loader,     \* who holds _LOCK
  cache,      \* _cache
  geoTask     \* the look-up each request thread is in

geoVars == <<delegated, readable, ranges, loaded, loader, cache, geoTask>>

GeoAddrs == 0..MaxAddr
Lookups == Families \X GeoAddrs
Delegations == {r \in [s : GeoAddrs, e : GeoAddrs, cc : Countries] : r.s <= r.e}

----------------------------------------------------------------------------
(* build_geo.py *)

\* The countries as the tuples sort (any fixed order of the codes).
CcRank == CHOOSE f \in [Countries -> 1..Cardinality(Countries)] :
            \A a, b \in Countries : f[a] = f[b] => a = b

\* v4.sort(): by start, then end, then country.
Precedes(a, b) ==
  \/ a.s < b.s
  \/ a.s = b.s /\ a.e < b.e
  \/ a.s = b.s /\ a.e = b.e /\ CcRank[a.cc] < CcRank[b.cc]

\* The last range in that order.
LastOf(table) == CHOOSE r \in table : \A q \in table \ {r} : Precedes(q, r)

\* Mutant: overlapping ranges are kept.
Skips_Never(kept, r) == FALSE

\* if s <= prev_end: continue
Skips(kept, r) == kept # {} /\ r.s <= LastOf(kept).e

\* main and write_v4: the ranges with a flag, in that order, overlaps skipped.
\* A table is the set of the ranges written; it is sorted, so the ones written
\* when the loop comes to r are those that precede r.
Compile(rs) ==
  LET flags == {r \in rs : r.cc \in Flagged}
  IN  CHOOSE table \in SUBSET flags :
        \A r \in flags : r \in table <=> ~Skips({q \in table : Precedes(q, r)}, r)

----------------------------------------------------------------------------
(* geo.py *)

\* bisect_right(starts, n) - 1, and the test of the end.
Resolve(table, n) ==
  LET below == {r \in table : r.s <= n}
  IN  IF below # {} /\ n <= LastOf(below).e THEN LastOf(below).cc ELSE None

GeoInit ==
  /\ delegated \in {R \in SUBSET Delegations : Cardinality(R) <= MaxRanges}
  /\ readable \in SUBSET Families
  /\ ranges = [f \in Families |-> {}] /\ loaded = FALSE /\ loader = Nobody
  /\ cache = [k \in {} |-> None] /\ geoTask = [r \in Threads |-> Idle]

To(r, op) == geoTask' = [geoTask EXCEPT ![r].op = op]

\* country: an answer in the cache is returned at once; _resolve answers None
\* for an address that is not global; the others look at _LOADED.
Country(r) ==
  /\ geoTask[r] = Idle
  /\ \E k \in Lookups \ DOMAIN cache :
       geoTask' = [geoTask EXCEPT ![r] =
         IF k[2] \in Special THEN [op |-> "store", key |-> k, cc |-> None]
         ELSE [op |-> IF loaded THEN "bisect" ELSE "lock", key |-> k]]
  /\ UNCHANGED <<delegated, readable, ranges, loaded, loader, cache>>

\* _load: whoever comes second finds the tables loaded.
LoadLock(r) ==
  /\ geoTask[r].op = "lock" /\ loader = Nobody
  /\ IF loaded THEN To(r, "bisect") /\ UNCHANGED loader
     ELSE To(r, "load") /\ loader' = r
  /\ UNCHANGED <<delegated, readable, ranges, loaded, cache>>

\* _load_v4 and _load_v6, one after the other.
LoadTable(r) ==
  /\ geoTask[r].op = "load"
  /\ \E f \in readable :
       /\ ranges[f] # Compile(delegated)
       /\ ranges' = [ranges EXCEPT ![f] = Compile(delegated)]
  /\ UNCHANGED <<delegated, readable, loaded, loader, cache, geoTask>>

\* Both are there, or one is missing, and then neither is used.
LoadDone(r) ==
  /\ geoTask[r].op = "load"
  /\ \A f \in readable : ranges[f] = Compile(delegated)
  /\ IF readable = Families THEN UNCHANGED ranges
     ELSE ranges' = [f \in Families |-> {}]
  /\ loaded' = TRUE /\ loader' = Nobody /\ To(r, "bisect")
  /\ UNCHANGED <<delegated, readable, cache>>

Bisect(r) ==
  /\ geoTask[r].op = "bisect"
  /\ geoTask' = [geoTask EXCEPT ![r] =
       [op |-> "store", key |-> @.key, cc |-> Resolve(ranges[@.key[1]], @.key[2])]]
  /\ UNCHANGED <<delegated, readable, ranges, loaded, loader, cache>>

\* The answer; a full cache takes no more (two threads that look at its size
\* at once may add one entry too many, which nothing depends on).
Remember(r) ==
  /\ geoTask[r].op = "store"
  /\ cache' = IF Cardinality(DOMAIN cache) >= CacheMax THEN cache
              ELSE [k \in DOMAIN cache \cup {geoTask[r].key} |->
                     IF k = geoTask[r].key THEN geoTask[r].cc ELSE cache[k]]
  /\ geoTask' = [geoTask EXCEPT ![r] = Idle]
  /\ UNCHANGED <<delegated, readable, ranges, loaded, loader>>

GeoNext == \E r \in Threads :
  Country(r) \/ LoadLock(r) \/ LoadTable(r) \/ LoadDone(r) \/ Bisect(r) \/ Remember(r)

GeoSpec == GeoInit /\ [][GeoNext]_geoVars

----------------------------------------------------------------------------
(* Properties *)

Covers(r, n) == r.s <= n /\ n <= r.e
Overlap(a, b) == a # b /\ a.s <= b.e /\ b.s <= a.e

\* What a look-up must answer, told without the loop and the bisection: of the
\* delegations with a flag, the lowest start (then the lowest end, then the
\* country) comes first, and one is taken unless a taken one before overlaps it.
Taken ==
  LET flags == {r \in delegated : r.cc \in Flagged}
  IN  CHOOSE T \in SUBSET flags :
        \A r \in flags : r \in T <=> ~\E q \in T : Precedes(q, r) /\ Overlap(q, r)

Expected(n) ==
  IF n \in Special \/ readable # Families THEN {None}
  ELSE LET owners == {r \in Taken : Covers(r, n)}
       IN  IF owners = {} THEN {None} ELSE {r.cc : r \in owners}

\* Every answer, the ones kept for good included, is the country the
\* delegations give the address, whichever thread loads the tables and
\* whenever the others ask.
AnswersRight ==
  /\ \A k \in DOMAIN cache : cache[k] \in Expected(k[2])
  /\ \A r \in Threads :
       geoTask[r].op = "store" => geoTask[r].cc \in Expected(geoTask[r].key[2])
=============================================================================
