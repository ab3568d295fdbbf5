------------------------------- MODULE Listing -------------------------------
(* Listing a bucket page by page, as storage_list.go does: the skip-scan that *)
(* emits one row per folder, its fallback without name_lower, the listing by  *)
(* time, and the cursor that starts the next page while objects come and go.  *)
(* A name is a sequence of characters, a character its place in the "C" order.*)
EXTENDS Integers, Sequences, FiniteSets, SequencesExt

CONSTANTS
  Universe,       \* the names that can exist; their times
  TimeOf(_),
  Queries,        \* [match, fold, desc, byTime, caseFold, limit]: Init picks one
  MaxChanges      \* objects that appear or vanish while a listing runs

chr1 == 1
slash == 3
zero == 4
upperA == 5
lowerA == 6
chrMax == 9

VARIABLES names, query, after, pages, stable, changes, state
lvars == <<names, query, after, pages, stable, changes, state>>

(* The "C" collation, and lower(). *)
Less(s, t) == \E i \in 1..Len(t) :
  /\ i <= Len(s) + 1 /\ \A j \in 1..i - 1 : s[j] = t[j]
  /\ i <= Len(s) => s[i] < t[i]
Leq(s, t) == s = t \/ Less(s, t)
lower(s) == [i \in 1..Len(s) |-> IF s[i] = upperA THEN lowerA ELSE s[i]]
Left(s, n) == SubSeq(s, 1, n)
Least(S, Lt(_, _)) == CHOOSE x \in S : \A y \in S \ {x} : Lt(x, y)
Asc(q, Lt(_, _), x, y) == IF q.desc THEN Lt(y, x) ELSE Lt(x, y)

(* strpos of the next "/" behind the prefix; 0: not in a folder.             *)
p(q, s) == LET D == {i \in Len(q.match) + 1..Len(s) : s[i] = slash} IN
  IF ~q.fold \/ D = {} THEN 0 ELSE (CHOOSE i \in D : \A j \in D : i <= j) - Len(q.match)
Entry(q, s) == IF p(q, s) > 0 THEN [name |-> Left(s, Len(q.match) + p(q, s)), folder |-> TRUE]
               ELSE [name |-> s, folder |-> FALSE]
key(q, s) == IF q.caseFold THEN lower(s) ELSE s
Matches(q, s) == IsPrefix(key(q, q.match), key(q, s))
(* Case variants share a key: the walk steps by (key, name).                 *)
KeyLess(q, s, t) == \/ Less(key(q, s), key(q, t))
                    \/ key(q, s) = key(q, t) /\ Less(s, t)

\* Mutant: a folder's subtree is not jumped over.
firstKeyPlain(q, c) ==
  IF c = <<>> THEN IF q.desc THEN key(q, q.match) \o <<chrMax>> ELSE key(q, q.match)
  ELSE IF q.desc THEN c ELSE c \o <<chr1>>
(* walkSQL: one probe per row, a folder's subtree is jumped over.            *)
firstKey(q, c) ==
  CASE c = <<>> -> IF q.desc THEN key(q, q.match) \o <<chrMax>> ELSE key(q, q.match)
    [] c # <<>> /\ ~q.desc /\ Last(c) = slash -> Front(c) \o <<zero>>
    [] c # <<>> /\ ~q.desc /\ Last(c) # slash -> c \o <<chr1>>
    [] OTHER -> c
beyond(q, w, s) ==
  LET k == key(q, w)  n == Len(q.match) + p(q, w)
      to == IF q.desc THEN Left(k, n) ELSE Left(k, n - 1) \o <<zero>> IN
  IF p(q, w) > 0 THEN IF q.desc THEN Less(key(q, s), to) ELSE Leq(to, key(q, s))
  ELSE IF q.desc THEN KeyLess(q, s, w)
  ELSE Less(k, key(q, s)) \/ (key(q, s) = k /\ Leq(w \o <<chr1>>, s))
First(q, S) == Least(S, LAMBDA x, y : IF q.desc THEN KeyLess(q, y, x) ELSE KeyLess(q, x, y))
walkSQL(q, S, c) ==
  LET start == {s \in S : IF q.desc THEN Less(key(q, s), firstKey(q, c)) ELSE Leq(firstKey(q, c), key(q, s))}
      probe(w) == LET N == IF w = <<>> THEN start ELSE {s \in S : beyond(q, Last(w), s)}  n == First(q, N) IN
                  IF N = {} THEN w ELSE IF Matches(q, n) THEN Append(w, n) ELSE w
  IN FoldLeft(LAMBDA w, s : probe(w), <<>>, SetToSeq(S))
Walk(q, S, c) == LET w == walkSQL(q, S, c) IN [i \in 1..Len(w) |-> Entry(q, w[i])]

(* scanSQL: the case variants of the prefix are sought on the name index and *)
(* a folder is named after its first row in the order of the listing.        *)
variants(m) == {[i \in 1..Len(m) |-> IF up[i] /\ lower(m)[i] = lowerA THEN upperA ELSE lower(m)[i]] :
                  up \in [1..Len(m) -> BOOLEAN]}
sought(q, s) == \E lo \in variants(q.match) : Leq(lo, s) /\ Less(s, lo \o <<chrMax>>)
pick(q, S) == First(q, S)
scanSQL(q, S) ==
  LET m == {s \in S : sought(q, s) /\ Matches(q, s)}
      sk(s) == IF p(q, s) > 0 THEN Left(key(q, s), Len(q.match) + p(q, s)) ELSE key(q, s)
      e == {s \in m : p(q, s) > 0 => s = pick(q, {t \in m : p(q, t) > 0 /\ sk(t) = sk(s)})}
      before(s, t) == \/ Less(sk(s), sk(t))
                      \/ sk(s) = sk(t) /\ Less(s, t)
      r == SetToSortSeq(e, LAMBDA s, t : IF q.desc THEN before(t, s) ELSE before(s, t))
  IN [i \in 1..Len(r) |-> Entry(q, r[i])]

(* timeSQL: a folder is as old as its oldest object; v1 lists folders first. *)
Smallest(T) == CHOOSE t \in T : \A u \in T : t <= u
timeRows(q, S) ==
  LET M == {s \in S : Matches(q, s)}
      sibs(s) == {t \in M : p(q, s) > 0 /\ p(q, t) > 0 /\ key(q, Entry(q, t).name) = key(q, Entry(q, s).name)} IN
  {IF p(q, s) = 0 THEN [e |-> Entry(q, s), at |-> TimeOf(s)]
   ELSE [e |-> [name |-> Least({Entry(q, t).name : t \in sibs(s)}, Less), folder |-> TRUE],
         at |-> Smallest({TimeOf(t) : t \in sibs(s)})] : s \in M}
older(q, x, y) == x.at < y.at \/ (x.at = y.at /\ Less(x.e.name, y.e.name))
timeSQL(q, S, c, at) ==
  LET R == {r \in timeRows(q, S) : c = <<>> \/ Asc(q, LAMBDA x, y : older(q, x, y), [e |-> [name |-> c], at |-> at], r)}
  IN SetToSortSeq(R, LAMBDA x, y : Asc(q, LAMBDA v, w : older(q, v, w), x, y))

(* listObjectsV2: one row more than asked tells whether there is a next page. *)
listObjectsV2 ==
  /\ state = "listing"
  /\ LET q == query
         t == timeSQL(q, names, after.name, after.at)
         all == IF q.byTime THEN [i \in 1..Len(t) |-> t[i].e] ELSE Walk(q, names, after.name)
         hasNext == Len(all) > q.limit
         page == IF hasNext THEN Left(all, q.limit) ELSE all IN
       /\ pages' = pages \o page
       /\ state' = IF hasNext THEN "listing" ELSE "done"
       /\ after' = IF hasNext THEN [name |-> Last(page).name, at |-> IF q.byTime THEN t[q.limit].at ELSE 0] ELSE after
  /\ UNCHANGED <<names, query, stable, changes>>

(* listObjects (v1): by offset, folded, case-insensitive; by time, folders   *)
(* come first, by name; what Postgres leaves tied is ordered by name here.   *)
timeFirst(q, S) ==
  LET R == timeRows(q, S)
      rank(r) == IF r.e.folder THEN 0 ELSE r.at IN
  SetToSortSeq(R, LAMBDA x, y :
    IF x.e.folder # y.e.folder THEN x.e.folder
    ELSE Asc(q, LAMBDA v, w : rank(v) < rank(w) \/ (rank(v) = rank(w) /\ Less(v.e.name, w.e.name)), x, y))
listObjects(q, S, offset) ==
  LET t == timeFirst(q, S)
      all == IF q.byTime THEN [i \in 1..Len(t) |-> t[i].e] ELSE Walk(q, S, <<>>)
  IN SubSeq(all, offset + 1, IF offset + q.limit < Len(all) THEN offset + q.limit ELSE Len(all))

(* An object is removed or uploaded between two pages; stable: the names     *)
(* that have been there from the first page on.                              *)
Change ==
  /\ state = "listing" /\ changes < MaxChanges
  /\ \E s \in Universe :
       /\ names' = IF s \in names THEN names \ {s} ELSE names \cup {s}
       /\ stable' = stable \ {s}
  /\ changes' = changes + 1
  /\ UNCHANGED <<query, after, pages, state>>

LInit ==
  /\ query \in Queries
  /\ names \in SUBSET Universe
  /\ stable = names /\ pages = <<>> /\ changes = 0 /\ state = "listing"
  /\ after = [name |-> <<>>, at |-> 0]
LNext == listObjectsV2 \/ Change
LSpec == LInit /\ [][LNext]_lvars

----------------------------------------------------------------------------
(* Paging through a bucket with the cursor, each name that stays is listed   *)
(* once, itself or by its folder, and nothing is listed twice, also while    *)
(* others come and go; by time a folder moves with its oldest object, so      *)
(* there the promise for folders is for a bucket at rest.                    *)
PagesAreComplete ==
  LET q == query
      listed(e) == Cardinality({i \in 1..Len(pages) : pages[i] = e}) IN
  /\ \A i, j \in 1..Len(pages) : i # j /\ pages[i] = pages[j] =>
        q.byTime /\ pages[i].folder /\ changes > 0
  /\ state = "done" => \A s \in stable : Matches(q, s) =>
        listed(Entry(q, s)) = 1 \/ (q.byTime /\ p(q, s) > 0 /\ changes > 0)
  /\ \A i \in 1..Len(pages) : IsPrefix(key(q, q.match), key(q, pages[i].name))

(* The v1 listing at rest, page after page: the same with and without the    *)
(* name_lower column, and every folder and every object that matches is in   *)
(* it once, the case variants of a folder being one.                         *)
ScanIsWalk ==
  pages = <<>> =>
    LET q == [query EXCEPT !.caseFold = TRUE, !.fold = TRUE]
        n == Cardinality(names)
        w == FoldLeft(LAMBDA all, o : all \o listObjects(q, names, o * q.limit), <<>>, [i \in 1..n + 1 |-> i - 1])
        same(e, f) == e.folder = f.folder /\ key(q, e.name) = key(q, f.name) /\ (e.folder \/ e.name = f.name) IN
    /\ ~q.byTime => w = scanSQL(q, names)
    /\ \A s \in names : Matches(q, s) => Cardinality({i \in 1..Len(w) : same(w[i], Entry(q, s))}) = 1

(* Both listings, paged, are complete and without repetition.                *)
ListingsAreComplete == PagesAreComplete /\ ScanIsWalk
=============================================================================
