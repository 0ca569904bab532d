---------------------------- MODULE SymbolSearch ----------------------------
(***************************************************************************)
(* The symbol search (symbolsearch/client.go): the asset list of Alpaca,   *)
(* cached for TTL under a read-write mutex with a second look under the    *)
(* write lock, fetched while the write lock is held; then the best matches *)
(* of the query, with quotes when these can be had.                        *)
(*                                                                         *)
(* An asset is a record of what the matching looks at: whether the query   *)
(* is a prefix of its symbol, whether its name contains it, the length of  *)
(* its symbol and the place of the symbol in the alphabet.                 *)
(***************************************************************************)
EXTENDS Integers, Sequences, FiniteSets

CONSTANTS
  Callers,    \* requests to SearchSymbols
  Listings,   \* the lists of assets Alpaca may have (sequences of assets)
  MaxResults  \* the limit of a search (10)

Nobody == "nobody"

Assets == [prefix : BOOLEAN, named : BOOLEAN, length : Nat, rank : Nat]

\* Alpaca lists a symbol once.
ASSUME SearchAssumption ==
  /\ MaxResults \in Nat
  /\ Nobody \notin Callers
  /\ Listings \subseteq Seq(Assets)
  /\ \A list \in Listings : \A i, k \in DOMAIN list : list[i].rank = list[k].rank => i = k

VARIABLES
  assets,    \* the cached list
  cached,    \* "nothing" yet, "fresh", or "expired"
  writer,    \* the caller that holds the write lock, or Nobody
  searching, \* where each caller is
  result     \* what a caller has found

searchVars == <<assets, cached, writer, searching, result>>

Stages == {"idle", "ensure", "lock", "recheck", "fetch", "read", "quote"}

SearchTypeOK ==
  /\ cached # "nothing" => assets \in Listings
  /\ cached \in {"nothing", "fresh", "expired"}
  /\ writer \in Callers \cup {Nobody}
  /\ searching \in [Callers -> Stages]
  /\ \A c \in Callers : Len(result[c]) <= MaxResults

SearchInit ==
  /\ assets = <<>>
  /\ cached = "nothing"
  /\ writer = Nobody
  /\ searching = [c \in Callers |-> "idle"]
  /\ result = [c \in Callers |-> <<>>]

Fresh == cached = "fresh"

To(c, stage) == searching' = [searching EXCEPT ![c] = stage]

----------------------------------------------------------------------------
(* matchAssets *)

\* Prefix hits: shorter symbols first, then by the alphabet.
Before(a, b) == \/ a.length < b.length
                \/ a.length = b.length /\ a.rank < b.rank

\* The places of the two buckets.
PrefixHits(list) == {i \in DOMAIN list : list[i].prefix}
NameHits(list) == {i \in DOMAIN list : ~list[i].prefix /\ list[i].named}

\* The first bucket is sorted, and stably; the second is in list order.
BySymbol(list) ==
  {p \in (DOMAIN list) \X (DOMAIN list) :
     \/ Before(list[p[1]], list[p[2]])
     \/ ~Before(list[p[2]], list[p[1]]) /\ p[1] < p[2]}
ByPlace(list) == {p \in (DOMAIN list) \X (DOMAIN list) : p[1] < p[2]}

\* S in that order: as many stand before an element as there are ahead of it.
Arranged(S, ahead) ==
  [n \in 1..Cardinality(S) |->
     CHOOSE i \in S : Cardinality({k \in S : <<k, i>> \in ahead}) = n - 1]

Cut(all, limit) == IF Len(all) > limit THEN SubSeq(all, 1, limit) ELSE all

\* Mutant of MatchAssets: the limit is applied before the sort.
MatchThenSort(list, limit) ==
  LET places == Cut(Arranged(PrefixHits(list), ByPlace(list))
                      \o Arranged(NameHits(list), ByPlace(list)), limit)
      few == {places[n] : n \in DOMAIN places}
      all == Arranged(few \cap PrefixHits(list), BySymbol(list))
               \o Arranged(few \cap NameHits(list), ByPlace(list))
  IN [n \in DOMAIN all |-> list[all[n]]]

\* The prefix hits in that order, then the name hits in list order, cut off at
\* the limit.
MatchAssets(list, limit) ==
  LET all == Cut(Arranged(PrefixHits(list), BySymbol(list))
                   \o Arranged(NameHits(list), ByPlace(list)), limit)
  IN [n \in DOMAIN all |-> list[all[n]]]

----------------------------------------------------------------------------
(* ensureAssets *)

\* A search with a query begins.
BeginSearch(c) ==
  /\ searching[c] = "idle"
  /\ To(c, "ensure")
  /\ result' = [result EXCEPT ![c] = <<>>]
  /\ UNCHANGED <<assets, cached, writer>>

\* The first look, under the read lock.
LookUnderReadLock(c) ==
  /\ searching[c] = "ensure"
  /\ writer = Nobody
  /\ To(c, IF Fresh THEN "read" ELSE "lock")
  /\ UNCHANGED <<assets, cached, writer, result>>

TakeWriteLock(c) ==
  /\ searching[c] = "lock"
  /\ writer = Nobody
  /\ writer' = c
  /\ To(c, "recheck")
  /\ UNCHANGED <<assets, cached, result>>

\* Mutant of LookAgain: the list is fetched without a second look.
FetchAnyway(c) ==
  /\ searching[c] = "recheck"
  /\ To(c, "fetch")
  /\ UNCHANGED <<assets, cached, writer, result>>

\* The second look, under the write lock: another caller may have fetched.
LookAgain(c) ==
  /\ searching[c] = "recheck"
  /\ IF Fresh
     THEN To(c, "read") /\ writer' = Nobody
     ELSE To(c, "fetch") /\ UNCHANGED writer
  /\ UNCHANGED <<assets, cached, result>>

\* The list arrives and is stored; the lock is released.
FetchAnswers(c) ==
  /\ searching[c] = "fetch"
  /\ assets' \in Listings
  /\ cached' = "fresh"
  /\ writer' = Nobody
  /\ To(c, "read")
  /\ UNCHANGED result

\* The fetch fails or its caller's context ends: the search fails, nothing is
\* stored, the old list is kept but not used.
FetchFails(c) ==
  /\ searching[c] = "fetch"
  /\ writer' = Nobody
  /\ To(c, "idle")
  /\ UNCHANGED <<assets, cached, result>>

\* TTL passes.
Expire ==
  /\ Fresh
  /\ cached' = "expired"
  /\ UNCHANGED <<assets, writer, searching, result>>

----------------------------------------------------------------------------
(* Search *)

\* The matches are taken under the read lock.  No match ends the search.
ReadMatches(c) ==
  /\ searching[c] = "read"
  /\ writer = Nobody
  /\ result' = [result EXCEPT ![c] = MatchAssets(assets, MaxResults)]
  /\ To(c, IF result'[c] = <<>> THEN "idle" ELSE "quote")
  /\ UNCHANGED <<assets, cached, writer>>

\* The quotes are added, or could not be had: the matches are returned anyway.
AddQuotes(c) ==
  /\ searching[c] = "quote"
  /\ To(c, "idle")
  /\ UNCHANGED <<assets, cached, writer, result>>

SearchStep(c) ==
  \/ LookUnderReadLock(c)
  \/ TakeWriteLock(c)
  \/ LookAgain(c)
  \/ FetchAnswers(c)
  \/ FetchFails(c)
  \/ ReadMatches(c)
  \/ AddQuotes(c)

SearchNext ==
  \/ Expire
  \/ \E c \in Callers : BeginSearch(c) \/ SearchStep(c)

SearchSpec == SearchInit /\ [][SearchNext]_searchVars

----------------------------------------------------------------------------
(* Properties *)

\* One fetch serves everybody: the list is never fetched while a fresh one is
\* cached or another fetch is under way.
OneFetch ==
  \A c \in Callers : searching[c] = "fetch" => writer = c /\ ~Fresh

\* The matches shown are the best ones: whatever is left out could not have
\* stood before anything that is shown, and is left out for want of room only.
Hits == {a \in UNION {{l[i] : i \in DOMAIN l} : l \in Listings} : a.prefix \/ a.named}
Better(a, b) == \/ a.prefix /\ ~b.prefix
                \/ a.prefix /\ b.prefix /\ Before(a, b)
BestMatches ==
  \A c \in Callers : searching[c] = "quote" =>
    LET shown == {result[c][i] : i \in DOMAIN result[c]} IN
    /\ Cardinality(shown) = Len(result[c])
    /\ shown \subseteq Hits
    /\ \A i, j \in DOMAIN result[c] :
         Better(result[c][j], result[c][i]) => j < i
    /\ \E l \in Listings :
         /\ shown \subseteq {l[k] : k \in DOMAIN l}
         /\ \A k \in DOMAIN l :
              (l[k].prefix \/ l[k].named) /\ l[k] \notin shown
                => /\ Len(result[c]) = MaxResults
                   /\ \A b \in shown : ~Better(l[k], b)
=============================================================================
