----------------------- MODULE CrudApplicationProofs -----------------------
(***************************************************************************)
(* CrudApplication for every set of applications, requests and tables.     *)
(*                                                                         *)
(* Requests and walks.  AppInv says what the bootstrap has established of  *)
(* the running application (IInv), that each row is stored at its own      *)
(* identity, that the answer is that of the request to the rows as they    *)
(* are, and that a walk's token is one of its own query.                   *)
(*                                                                         *)
(* Pages.  A finite set that an order totally orders has one arrangement,  *)
(* and a row's place in it is the number of rows before it; the list's     *)
(* predicate selects what its parts select; so a slice of the arrangement  *)
(* is the page, and how many rows it skips is known.                       *)
(*                                                                         *)
(* Walks.  The position of a row is the numbers of its order's fields.     *)
(* The predicate of a cursor selects the rows whose position lies after    *)
(* the one it carries, hence the continued list is the list ahead, and a   *)
(* page of it a run that begins where the last one ended.                  *)
(***************************************************************************)
EXTENDS CrudApplication, CrudBootstrapProofs, FiniteSetTheorems,
        WellFoundedInduction

(***************************************************************************)
(* Sorting                                                                 *)
(***************************************************************************)
\* A strict total order on S, as a set of pairs.
IsTotalOrder(S, before) ==
    /\ \A x \in S : <<x, x>> \notin before
    /\ \A x, y, z \in S :
          <<x, y>> \in before /\ <<y, z>> \in before => <<x, z>> \in before
    /\ \A x, y \in S : x # y => <<x, y>> \in before \/ <<y, x>> \in before

\* How many elements of S come before each.
RankIn(S, before) == [x \in S |-> Cardinality({y \in S : <<y, x>> \in before})]

\* s lists S, each element once and after all that come before it.
Lists(s, S, before) ==
    /\ s \in [1..Cardinality(S) -> S]
    /\ \A i, j \in 1..Cardinality(S) : i < j => <<s[i], s[j]>> \in before
    /\ \A x \in S : \E i \in 1..Cardinality(S) : s[i] = x

(* The number of elements before it tells the elements of a finite set     *)
(* apart, and each number less than the set's size is one of them.         *)
LEMMA Ranks ==
    ASSUME NEW S, IsFiniteSet(S), NEW before, IsTotalOrder(S, before)
    PROVE  LET rank == RankIn(S, before)
           IN  /\ \A x \in S : rank[x] \in 0..(Cardinality(S) - 1)
               /\ \A x, y \in S : <<x, y>> \in before => rank[x] < rank[y]
               /\ \A n \in 0..(Cardinality(S) - 1) : \E x \in S : rank[x] = n
<1> DEFINE Below(x) == {y \in S : <<y, x>> \in before}
           rank == [x \in S |-> Cardinality(Below(x))]
           N == Cardinality(S)
<1>1. N \in Nat
  BY FS_CardinalityType
<1>2. ASSUME NEW x \in S
      PROVE  IsFiniteSet(Below(x)) /\ rank[x] \in 0..(N - 1)
  <2>1. Below(x) \subseteq S /\ x \notin Below(x)
    BY DEF IsTotalOrder
  <2>2. /\ IsFiniteSet(Below(x)) /\ Cardinality(Below(x)) <= N
        /\ Cardinality(Below(x)) = N => Below(x) = S
    BY <2>1, FS_Subset
  <2>3. Cardinality(Below(x)) \in Nat
    BY <2>2, FS_CardinalityType
  <2>4. Cardinality(Below(x)) # N
    BY <2>1, <2>2
  <2> HIDE DEF Below, N
  <2> QED BY <1>1, <2>2, <2>3, <2>4
<1>3. ASSUME NEW x \in S, NEW y \in S, <<x, y>> \in before
      PROVE  rank[x] < rank[y]
  <2>1. Below(x) \subseteq Below(y) /\ x \in Below(y) /\ x \notin Below(x)
    BY <1>3 DEF IsTotalOrder
  <2>2. /\ Cardinality(Below(x)) <= Cardinality(Below(y))
        /\ Cardinality(Below(x)) = Cardinality(Below(y)) => Below(x) = Below(y)
    BY <1>2, <2>1, FS_Subset
  <2>3. rank[x] = Cardinality(Below(x)) /\ rank[y] = Cardinality(Below(y))
    OBVIOUS
  <2>4. rank[x] \in 0..(N - 1) /\ rank[y] \in 0..(N - 1)
    BY <1>2
  <2>5. rank[x] # rank[y]
    BY <2>1, <2>2, <2>3
  <2> HIDE DEF Below, N, rank
  <2> QED BY <1>1, <2>2, <2>3, <2>4, <2>5
<1>4. rank \in Injection(S, 0..(N - 1))
  <2>1. rank \in [S -> 0..(N - 1)]
    BY <1>2
  <2>2. ASSUME NEW x \in S, NEW y \in S, x # y PROVE rank[x] # rank[y]
    <3>1. <<x, y>> \in before \/ <<y, x>> \in before
      BY <2>2 DEF IsTotalOrder
    <3>2. rank[x] < rank[y] \/ rank[y] < rank[x]
      BY <1>3, <3>1
    <3>3. rank[x] \in 0..(N - 1) /\ rank[y] \in 0..(N - 1)
      BY <1>2
    <3> HIDE DEF rank, N
    <3> QED BY <1>1, <3>2, <3>3
  <2> HIDE DEF rank, N
  <2> QED BY <2>1, <2>2 DEF Injection, IsInjective
<1>5. IsFiniteSet(0..(N - 1)) /\ Cardinality(0..(N - 1)) = N
  <2> HIDE DEF N
  <2>1. /\ IsFiniteSet(0..(N - 1))
        /\ Cardinality(0..(N - 1)) = IF 0 > N - 1 THEN 0 ELSE (N - 1) - 0 + 1
    BY <1>1, FS_Interval
  <2> QED BY <1>1, <2>1
<1>6. rank \in Surjection(S, 0..(N - 1))
  <2> HIDE DEF rank
  <2> QED BY <1>4, <1>5, FS_Injection
<1>7. \A n \in 0..(N - 1) : \E x \in S : rank[x] = n
  <2> HIDE DEF rank, N
  <2> QED BY <1>6 DEF Surjection
<1>8. rank = RankIn(S, before)
  BY DEF RankIn
<1> HIDE DEF rank
<1> QED BY <1>2, <1>3, <1>7, <1>8

(* A finite set under a strict total order has its arrangement.            *)
LEMMA Arrangement ==
    ASSUME NEW S, IsFiniteSet(S), NEW before, IsTotalOrder(S, before)
    PROVE  Lists(Arranged(S, before), S, before)
<1> DEFINE rank == RankIn(S, before)
           N == Cardinality(S)
           InOrderBy(s) == \A i, j \in 1..N : i < j => <<s[i], s[j]>> \in before
           t == [i \in 1..N |-> CHOOSE x \in S : rank[x] = i - 1]
<1>1. N \in Nat
  BY FS_CardinalityType
<1>2. /\ \A x \in S : rank[x] \in 0..(N - 1)
      /\ \A x, y \in S : <<x, y>> \in before => rank[x] < rank[y]
      /\ \A n \in 0..(N - 1) : \E x \in S : rank[x] = n
  BY Ranks
<1> HIDE DEF rank, N
<1>3. \A i \in 1..N : t[i] \in S /\ rank[t[i]] = i - 1
  <2> TAKE i \in 1..N
  <2>1. \E x \in S : rank[x] = i - 1
    BY <1>1, <1>2
  <2> QED BY <2>1
<1> HIDE DEF t
<1>4. InOrderBy(t)
  <2> SUFFICES ASSUME NEW i \in 1..N, NEW j \in 1..N, i < j
               PROVE  <<t[i], t[j]>> \in before
    OBVIOUS
  <2>1. rank[t[i]] < rank[t[j]] /\ t[i] # t[j] /\ t[i] \in S /\ t[j] \in S
    BY <1>1, <1>3
  <2>2. ~(rank[t[j]] < rank[t[i]])
    BY <1>1, <1>3
  <2> QED BY <1>2, <2>1, <2>2 DEF IsTotalOrder
<1>5. t \in [1..N -> S]
  BY <1>3 DEF t
<1> DEFINE s == Arranged(S, before)
<1>6. s \in [1..N -> S] /\ InOrderBy(s)
  BY <1>4, <1>5 DEF Arranged, N
<1> HIDE DEF s
<1>7. s \in Injection(1..N, S)
  <2>1. ASSUME NEW i \in 1..N, NEW j \in 1..N, i # j PROVE s[i] # s[j]
    <3>1. i < j \/ j < i
      BY <1>1, <2>1
    <3>2. <<s[i], s[j]>> \in before \/ <<s[j], s[i]>> \in before
      BY <1>6, <3>1
    <3> QED BY <1>6, <3>2 DEF IsTotalOrder
  <2> QED BY <1>6, <2>1 DEF Injection, IsInjective
<1>8. Cardinality(1..N) = N
  BY <1>1, FS_Interval
<1>9. s \in Surjection(1..N, S)
  BY <1>7, <1>8, FS_Injection DEF N
<1> QED BY <1>6, <1>9 DEF Lists, Surjection, s, N

(* The places of a sequence in sequence.                                   *)
LEMMA Places_InSequence ==
    ASSUME NEW n \in Nat, NEW places \in SUBSET (1..n)
    PROVE  LET s == InSequence(places)
               N == Cardinality(places)
           IN  /\ N \in Nat /\ s \in [1..N -> places]
               /\ \A i, j \in 1..N : i < j => s[i] < s[j]
               /\ \A p \in places : \E i \in 1..N : s[i] = p
<1> DEFINE before == {p \in places \X places : p[1] < p[2]}
<1>1. IsFiniteSet(places) /\ Cardinality(places) \in Nat
  <2>1. IsFiniteSet(1..n)
    BY FS_Interval
  <2>2. IsFiniteSet(places)
    BY <2>1, FS_Subset
  <2> QED BY <2>2, FS_CardinalityType
<1>2. \A x, y \in places : <<x, y>> \in before <=> x < y
  OBVIOUS
<1> HIDE DEF before
<1>3. IsTotalOrder(places, before)
  BY <1>2 DEF IsTotalOrder
<1>4. Lists(Arranged(places, before), places, before)
  BY <1>1, <1>3, Arrangement
<1>5. InSequence(places) = Arranged(places, before)
  BY DEF InSequence, before
<1>6. ASSUME NEW i \in 1..Cardinality(places), NEW j \in 1..Cardinality(places),
             i < j
      PROVE  InSequence(places)[i] < InSequence(places)[j]
  BY <1>2, <1>4, <1>5, <1>6 DEF Lists
<1> QED BY <1>1, <1>4, <1>5, <1>6 DEF Lists

(***************************************************************************)
(* Pages                                                                   *)
(***************************************************************************)
(* The limits of a bound resource of a coherent application are in order,  *)
(* and one more row than its pages have can always be asked for.           *)
LEMMA LimitsAreInOrder ==
    ASSUME IsCoherent, NEW r \in Bound, NEW parent
    PROVE  LET d == Definition(r)
               options == ParserOptions(d, parent)
           IN  /\ ConfiguredLimit(d, options) \in 1..MaxSafe
               /\ ConfiguredMaximum(d, options)
                     \in ConfiguredLimit(d, options)..MaxSafe
               /\ CursorMode(d) =>
                     HasCodec /\ ConfiguredMaximum(d, options) # MaxSafe
<1> DEFINE d == Definition(r)
           options == ParserOptions(d, parent)
<1>1. /\ ConfiguredLimit(d, options) = EffectiveLimit(d)
      /\ ConfiguredMaximum(d, options) = EffectiveMaximum(d)
  BY DEF ConfiguredLimit, ConfiguredMaximum, EffectiveLimit, EffectiveMaximum,
         ParserOptions
<1>2. LimitsAreSound(d) /\ PagesAreConfigured(d) /\ OptionsAreSound
  BY DEF IsCoherent, Bound, IsCapable, Accepted, QueryIsSound
<1> HIDE DEF d, options
<1>3. /\ EffectiveLimit(d) \in 1..MaxSafe
      /\ EffectiveMaximum(d) \in EffectiveLimit(d)..MaxSafe
  BY <1>2, MaxSafeAssumption
     DEF LimitsAreSound, PagesAreConfigured, OptionsAreSound, PositiveOrNone,
         EffectiveLimit, EffectiveMaximum, Given
<1> QED BY <1>1, <1>2, <1>3 DEF PagesAreConfigured, d, options

\* A page that a list of d may be asked for.
IsPage(d, raw, page) ==
    /\ page.kind = "query" /\ page.limit \in 1..MaxSafe
    /\ \/ /\ page.mode = "cursor" /\ CursorMode(d)
          /\ page.limit < MaxSafe /\ page.after = Token(raw)
          /\ Occurs(raw, "after") => IsItems(raw, "after")
          /\ ~Occurs(raw, "page")
       \/ /\ page.mode = "offset" /\ OffsetMode(d)
          /\ page.page \in 1..MaxSafe /\ page.page = Page(raw)
          /\ OffsetIsSafe(page.page, page.limit) /\ ~Occurs(raw, "after")

(* resolvePagination finds nothing misconfigured in a coherent             *)
(* application: it refuses, or gives a page of the resource's modes.       *)
LEMMA PagesAreSound ==
    ASSUME IsCoherent, NEW r \in Bound, NEW parent, NEW raw
    PROVE  LET d == Definition(r)
               page == Pagination(d, raw, ParserOptions(d, parent))
           IN  page = Refused \/ IsPage(d, raw, page)
<1> DEFINE d == Definition(r)
           options == ParserOptions(d, parent)
           page == Pagination(d, raw, options)
           limit == Limit(d, raw, options)
<1> SUFFICES ASSUME page # Refused PROVE IsPage(d, raw, page)
  OBVIOUS
<1>1. /\ ConfiguredLimit(d, options) \in 1..MaxSafe
      /\ ConfiguredMaximum(d, options) \in ConfiguredLimit(d, options)..MaxSafe
      /\ CursorMode(d) => ConfiguredMaximum(d, options) # MaxSafe
  BY LimitsAreInOrder
<1> HIDE DEF d, options
<1>2. /\ page = IF Mode(d, raw) = "cursor" THEN CursorPage(d, raw, limit)
                                           ELSE OffsetPage(d, raw, limit)
      /\ ~(Occurs(raw, "page") /\ Occurs(raw, "after"))
      /\ Occurs(raw, "limit") =>
            IsNumber(raw, "limit", ConfiguredMaximum(d, options))
  BY <1>1 DEF Pagination
<1>3. /\ limit \in 1..MaxSafe
      /\ CursorMode(d) => limit < MaxSafe
  BY <1>1, <1>2, MaxSafeAssumption DEF Limit, IsNumber
<1> HIDE DEF limit, page
<1>4. CASE Mode(d, raw) = "cursor"
  <2>1. CursorMode(d) /\ (Occurs(raw, "after") => IsItems(raw, "after"))
    BY <1>2, <1>4 DEF CursorPage
  <2>2. limit # MaxSafe
    BY <1>3, <2>1, MaxSafeAssumption
  <2>3. page = [kind |-> "query", mode |-> "cursor", limit |-> limit,
                after |-> Token(raw)]
    BY <1>2, <1>4, <2>1, <2>2 DEF CursorPage
  <2>4. ~Occurs(raw, "page")
    BY <1>2, <1>4 DEF Mode
  <2> QED BY <1>3, <2>1, <2>3, <2>4 DEF IsPage
<1>5. CASE Mode(d, raw) # "cursor"
  <2>1. /\ OffsetMode(d) /\ OffsetIsSafe(Page(raw), limit)
        /\ Occurs(raw, "page") => IsNumber(raw, "page", MaxSafe)
        /\ page = [kind |-> "query", mode |-> "offset", limit |-> limit,
                   page |-> Page(raw)]
    BY <1>2, <1>5 DEF OffsetPage
  <2>2. Page(raw) \in 1..MaxSafe
    BY <2>1, MaxSafeAssumption DEF Page, IsNumber
  <2>3. ~Occurs(raw, "after")
    BY <1>5 DEF Mode
  <2> QED BY <1>3, <2>1, <2>2, <2>3 DEF IsPage
<1> QED BY <1>4, <1>5 DEF d, options, page

(***************************************************************************)
(* Orders                                                                  *)
(***************************************************************************)
LEMMA SequencesAre ==
    ASSUME NEW s, IsSequence(s)
    PROVE  Len(s) \in Nat /\ DOMAIN s = 1..Len(s) /\ s \in Seq(Members(s))
<1>1. s \in [1..Len(s) -> Members(s)]
  BY DEF IsSequence, Members
<1> QED BY <1>1 DEF IsSequence

LEMMA SeqsAreSequences ==
    ASSUME NEW S, NEW s \in Seq(S) PROVE IsSequence(s)
  BY DEF IsSequence

(* The elements of a concatenation.                                        *)
LEMMA Concatenation ==
    ASSUME NEW s, IsSequence(s), NEW t, IsSequence(t)
    PROVE  /\ IsSequence(s \o t) /\ Len(s \o t) = Len(s) + Len(t)
           /\ \A i \in 1..Len(s) : (s \o t)[i] = s[i]
           /\ \A i \in 1..Len(t) : (s \o t)[Len(s) + i] = t[i]
<1> DEFINE S == Members(s) \cup Members(t)
<1>1. /\ Len(s) \in Nat /\ DOMAIN s = 1..Len(s)
      /\ Len(t) \in Nat /\ DOMAIN t = 1..Len(t)
  BY SequencesAre
<1>2. s \in [1..Len(s) -> S] /\ t \in [1..Len(t) -> S]
  BY <1>1 DEF IsSequence, Members
<1>3. s \in Seq(S) /\ t \in Seq(S)
  BY <1>1, <1>2
<1> HIDE DEF S
<1>4. s \o t \in Seq(S) /\ Len(s \o t) = Len(s) + Len(t)
  BY <1>3
<1>5. IsSequence(s \o t)
  BY <1>4, SeqsAreSequences
<1>6. \A i \in 1..Len(s) : (s \o t)[i] = s[i]
  BY <1>1, <1>3
<1>7. \A i \in 1..Len(t) : (s \o t)[Len(s) + i] = t[i]
  BY <1>1, <1>3
<1> QED BY <1>4, <1>5, <1>6, <1>7

(* A sequence with as many members as elements has no element twice.       *)
LEMMA UniqueMeansOnce ==
    ASSUME NEW s, IsSequence(s), Unique(s), NEW i \in DOMAIN s,
           NEW j \in DOMAIN s, s[i] = s[j]
    PROVE  i = j
<1>1. Len(s) \in Nat /\ DOMAIN s = 1..Len(s) /\ s \in Seq(Members(s))
  BY SequencesAre
<1>2. s \in Surjection(1..Len(s), Members(s))
  BY <1>1 DEF Surjection, Members, IsSequence
<1>3. IsFiniteSet(1..Len(s)) /\ Cardinality(1..Len(s)) = Len(s)
  <2> DEFINE n == Len(s)
  <2>1. n \in Nat
    BY <1>1
  <2> HIDE DEF n
  <2>2. IsFiniteSet(1..n) /\ Cardinality(1..n) = n
    BY <2>1, FS_Interval
  <2> QED BY <2>2 DEF n
<1>4. s \in Injection(1..Len(s), Members(s))
  BY <1>2, <1>3, FS_Surjection DEF Unique
<1> QED BY <1>1, <1>4 DEF Injection, IsInjective

(* A parameter that occurs once is the item of an entry of its name.       *)
LEMMA ScalarsAreItems ==
    ASSUME NEW raw, IsRawQuery(raw), NEW name, OccursOnce(raw, name)
    PROVE  /\ IsItem(Scalar(raw, name))
           /\ Occurs(raw, name)
<1>1. PICK i \in DOMAIN raw :
         Occurrences(raw, name) = {i} /\ ~raw[i].value.array
  BY DEF OccursOnce
<1>2. Scalar(raw, name) = raw[i].value.items[1]
  BY <1>1 DEF Scalar
<1>3. IsEntry(raw[i])
  BY DEF IsRawQuery
<1>4. DOMAIN raw[i].value.items = 1..1
  BY <1>1, <1>3, SequencesAre DEF IsEntry
<1> QED BY <1>1, <1>2, <1>3, <1>4 DEF IsEntry, Occurs

LEMMA SortItemsAreSequences ==
    ASSUME NEW d, HasSequences(d), NEW raw, IsRawQuery(raw), NEW mode,
           Occurs(raw, "sort") => IsItems(raw, "sort")
    PROVE  IsSequence(SortItems(d, raw, mode))
<1>1. CASE Occurs(raw, "sort")
  <2>1. OccursOnce(raw, "sort") /\ Scalar(raw, "sort") # NotText
    BY <1>1 DEF IsItems, IsText
  <2>2. IsItem(Scalar(raw, "sort"))
    BY <2>1, ScalarsAreItems
  <2> QED BY <1>1, <2>1, <2>2 DEF SortItems, IsItem
<1>2. CASE ~Occurs(raw, "sort") /\ DefaultSort(d) # None
  BY <1>2 DEF SortItems, DefaultSort, HasSequences
<1>3. CASE ~Occurs(raw, "sort") /\ DefaultSort(d) = None
  <2>1. ASSUME d.sort # None
        PROVE  IsSequence(Ascending(d.sort.cursor))
    <3> DEFINE c == d.sort.cursor
    <3>1. Len(c) \in Nat /\ DOMAIN c = 1..Len(c)
      BY <2>1, SequencesAre DEF HasSequences
    <3> HIDE DEF c
    <3>2. IsSequence(Ascending(c))
      BY <3>1 DEF IsSequence, Ascending
    <3> QED BY <3>2 DEF c
  <2>2. IsSequence(<<>>)
    BY DEF IsSequence
  <2> QED BY <1>3, <2>1, <2>2 DEF SortItems
<1> QED BY <1>1, <1>2, <1>3

\* The fields that an order compares.
FieldSet(order) == {order[i].field : i \in DOMAIN order}

IsOrderOf(d, order) ==
    /\ IsSequence(order) /\ order # <<>>
    /\ \A i, j \in DOMAIN order : order[i].field = order[j].field => i = j
    /\ FieldsOf(d.idFields) \subseteq FieldSet(order)
    /\ FieldSet(order) \subseteq Members(d.fields)
    /\ \A i \in DOMAIN order : order[i].direction \in {"asc", "desc"}

(* The remaining id fields are the id fields not yet sorted by, each once. *)
LEMMA RemainingIdsAre ==
    ASSUME NEW d, IsSequence(d.fields), FieldsAreSound(d), NEW items
    PROVE  LET ids == RemainingIds(d, items)
           IN  /\ IsSequence(ids)
               /\ \A i, j \in DOMAIN ids : ids[i] = ids[j] => i = j
               /\ Members(ids) = FieldsOf(d.idFields)
                                    \ Members(FieldsIn(items))
<1> DEFINE ids == RemainingIds(d, items)
           n == Len(d.fields)
           left == FieldsOf(d.idFields) \ Members(FieldsIn(items))
           chosen == {i \in DOMAIN d.fields : d.fields[i] \in left}
           places == InSequence(chosen)
           N == Cardinality(chosen)
<1>1. n \in Nat /\ DOMAIN d.fields = 1..n
  BY SequencesAre
<1>2. /\ N \in Nat /\ places \in [1..N -> chosen]
      /\ \A i, j \in 1..N : i < j => places[i] < places[j]
      /\ \A p \in chosen : \E i \in 1..N : places[i] = p
  BY <1>1, Places_InSequence
<1>3. ids = [i \in 1..N |-> d.fields[places[i]]]
  BY <1>2 DEF RemainingIds
<1>4. \A x \in left : \E i \in DOMAIN d.fields : d.fields[i] = x
  BY DEF FieldsAreSound, Members
<1>5. ASSUME NEW i \in DOMAIN ids, NEW j \in DOMAIN ids, ids[i] = ids[j]
      PROVE  i = j
  <2>1. /\ places[i] \in DOMAIN d.fields /\ places[j] \in DOMAIN d.fields
        /\ d.fields[places[i]] = d.fields[places[j]] /\ i \in 1..N /\ j \in 1..N
    BY <1>2, <1>3, <1>5
  <2>2. Unique(d.fields)
    BY DEF FieldsAreSound
  <2>3. places[i] = places[j]
    BY <2>1, <2>2, UniqueMeansOnce
  <2>4. places[i] \in Int
    BY <1>1, <2>1
  <2> HIDE DEF places, N
  <2> QED BY <1>2, <2>1, <2>3, <2>4
<1> HIDE DEF ids, places, N
<1>6. IsSequence(ids)
  BY <1>2, <1>3 DEF IsSequence
<1>7. Members(ids) = left
  <2>1. ASSUME NEW i \in 1..N PROVE ids[i] \in left
    BY <1>2, <1>3
  <2>2. ASSUME NEW x \in left PROVE \E i \in 1..N : ids[i] = x
    <3>1. PICK k \in DOMAIN d.fields : d.fields[k] = x
      BY <1>4
    <3>2. PICK i \in 1..N : places[i] = k
      BY <1>2, <3>1
    <3> QED BY <1>3, <3>1, <3>2
  <2>3. DOMAIN ids = 1..N
    BY <1>3
  <2> HIDE DEF left
  <2> QED BY <2>1, <2>2, <2>3 DEF Members
<1> QED BY <1>5, <1>6, <1>7 DEF ids

(* The order that is built: the items asked for and then the remaining id  *)
(* fields.                                                                 *)
LEMMA OrderIsBuilt ==
    ASSUME NEW d, NEW items, IsSequence(items), NEW n, n = Len(items),
           NEW ids, IsSequence(ids), ids = RemainingIds(d, items),
           NEW m, m = Len(ids), NEW order, order = BuildOrder(d, items)
    PROVE  /\ n \in Nat /\ m \in Nat
           /\ IsSequence(order) /\ DOMAIN order = 1..(n + m)
           /\ \A i \in 1..n : order[i].field = items[i].field
           /\ \A i \in (n + 1)..(n + m) : order[i].field = ids[i - n]
           /\ \A i \in DOMAIN order : order[i].direction \in {"asc", "desc"}
<1>1. n \in Nat /\ DOMAIN items = 1..n /\ items \in Seq(Members(items))
  BY SequencesAre
<1>2. m \in Nat /\ DOMAIN ids = 1..m
  BY SequencesAre
<1> DEFINE rest == Ascending(ids)
           all == items \o rest
<1>3. rest = [i \in 1..m |-> [field |-> ids[i], desc |-> FALSE]]
  BY <1>2 DEF Ascending
<1>4. DOMAIN rest = 1..m /\ Len(rest) = m
  BY <1>2, <1>3
<1>5. /\ IsSequence(all) /\ Len(all) = n + m
      /\ \A i \in 1..n : all[i] = items[i]
      /\ \A i \in 1..m : all[n + i] = rest[i]
  <2>1. IsSequence(rest)
    BY <1>2, <1>3, <1>4 DEF IsSequence
  <2> HIDE DEF rest
  <2>2. /\ IsSequence(items \o rest) /\ Len(items \o rest) = Len(items) + Len(rest)
        /\ \A i \in 1..Len(items) : (items \o rest)[i] = items[i]
        /\ \A i \in 1..Len(rest) : (items \o rest)[Len(items) + i] = rest[i]
    BY <2>1, Concatenation
  <2> QED BY <1>4, <2>2
<1>6. order = [i \in 1..(n + m) |->
                 [field |-> all[i].field,
                  direction |-> IF all[i].desc THEN "desc" ELSE "asc"]]
  <2>1. DOMAIN all = 1..(n + m)
    BY <1>5, SequencesAre
  <2> HIDE DEF all
  <2>2. all = items \o Ascending(RemainingIds(d, items))
    BY DEF all
  <2> QED BY <2>1, <2>2 DEF BuildOrder
<1>7. /\ \A i \in 1..n : all[i] = items[i]
      /\ \A i \in (n + 1)..(n + m) : all[i].field = ids[i - n]
  <2>1. ASSUME NEW i \in 1..n PROVE all[i] = items[i]
    BY <1>5
  <2>2. ASSUME NEW i \in (n + 1)..(n + m) PROVE all[i].field = ids[i - n]
    <3>1. i - n \in 1..m /\ n + (i - n) = i
      BY <1>1, <1>2
    <3>2. all[i] = rest[i - n]
      <4> HIDE DEF all, rest
      <4> QED BY <1>5, <3>1
    <3>3. rest[i - n].field = ids[i - n]
      BY <1>3, <3>1
    <3> HIDE DEF all, rest
    <3> QED BY <3>2, <3>3
  <2> QED BY <2>1, <2>2
<1> HIDE DEF all, rest
<1>8. \A i \in 1..(n + m) : order[i].field = all[i].field
                              /\ order[i].direction \in {"asc", "desc"}
  BY <1>6
<1>9. IsSequence(order) /\ DOMAIN order = 1..(n + m)
  BY <1>1, <1>2, <1>6 DEF IsSequence
<1>10. 1..n \subseteq 1..(n + m) /\ (n + 1)..(n + m) \subseteq 1..(n + m)
  BY <1>1, <1>2
<1> QED BY <1>1, <1>2, <1>7, <1>8, <1>9, <1>10

(* buildCrudOrder compares every id field and no field twice; the order of *)
(* a cursor page compares fields that a cursor may stand for.              *)
LEMMA OrdersAreSound ==
    ASSUME NEW d, HasSequences(d), Accepted(d), NEW raw, IsRawQuery(raw),
           NEW mode, SortIsAllowed(d, raw, mode)
    PROVE  LET order == BuildOrder(d, SortItems(d, raw, mode))
           IN  /\ IsOrderOf(d, order)
               /\ mode = "cursor" => FieldSet(order) \subseteq CursorSafe(d)
<1> DEFINE items == SortItems(d, raw, mode)
           n == Len(items)
           ids == RemainingIds(d, items)
           m == Len(ids)
           order == BuildOrder(d, items)
<1>1. IsSequence(items)
  BY SortItemsAreSequences DEF SortIsAllowed
<1>2. /\ FieldsAreSound(d) /\ IsSequence(d.fields)
      /\ SortFields(d) \subseteq Members(d.fields)
      /\ FieldsOf(d.idFields) \subseteq Members(d.fields)
      /\ FieldsOf(d.idFields) # {}
  BY DEF Accepted, HasSequences, QueryIsSound, SortIsSound, SortFields,
         FieldsAreSound, FieldsOf
<1>3. /\ IsSequence(ids)
      /\ \A i, j \in DOMAIN ids : ids[i] = ids[j] => i = j
      /\ Members(ids) = FieldsOf(d.idFields) \ Members(FieldsIn(items))
  BY <1>2, RemainingIdsAre
<1>4. /\ Members(FieldsIn(items)) \subseteq SortFields(d)
      /\ Unique(FieldsIn(items))
      /\ mode = "cursor" => Members(FieldsIn(items)) \subseteq CursorSafe(d)
  BY DEF SortIsAllowed
<1> HIDE DEF items, ids
<1>5. /\ n \in Nat /\ m \in Nat
      /\ IsSequence(order) /\ DOMAIN order = 1..(n + m)
      /\ \A i \in 1..n : order[i].field = items[i].field
      /\ \A i \in (n + 1)..(n + m) : order[i].field = ids[i - n]
      /\ \A i \in DOMAIN order : order[i].direction \in {"asc", "desc"}
  BY <1>1, <1>3, OrderIsBuilt DEF ids
<1>6. DOMAIN items = 1..n /\ DOMAIN ids = 1..m
  BY <1>1, <1>3, SequencesAre
<1> HIDE DEF order, n, m
<1>7. \A i \in 1..n : order[i].field \in Members(FieldsIn(items))
  BY <1>5, <1>6 DEF Members, FieldsIn
<1>8. \A i \in (n + 1)..(n + m) :
         i - n \in DOMAIN ids /\ order[i].field = ids[i - n]
            /\ order[i].field \in Members(ids)
  BY <1>5, <1>6 DEF Members
<1>9. ASSUME NEW i \in DOMAIN order, NEW j \in DOMAIN order,
             order[i].field = order[j].field
      PROVE  i = j
  <2>1. CASE i \in 1..n /\ j \in 1..n
    <3> DEFINE f == FieldsIn(items)
    <3>1. f = [k \in 1..n |-> items[k].field]
      BY <1>6 DEF FieldsIn
    <3>2. IsSequence(f) /\ i \in DOMAIN f /\ j \in DOMAIN f /\ f[i] = f[j]
      BY <1>5, <1>9, <2>1, <3>1 DEF IsSequence
    <3> HIDE DEF f
    <3> QED BY <1>4, <3>2, UniqueMeansOnce DEF f
  <2>2. CASE i \notin 1..n /\ j \notin 1..n
    <3>1. i \in (n + 1)..(n + m) /\ j \in (n + 1)..(n + m)
      BY <1>5, <2>2
    <3>2. i - n = j - n
      BY <1>3, <1>8, <1>9, <3>1
    <3> QED BY <1>5, <3>1, <3>2
  <2>3. CASE (i \in 1..n) # (j \in 1..n)
    <3>1. \E k \in {i, j}, l \in {i, j} :
             k \in 1..n /\ l \in (n + 1)..(n + m)
                /\ order[k].field = order[l].field
      BY <1>5, <1>9, <2>3
    <3> QED BY <1>3, <1>7, <1>8, <3>1
  <2> QED BY <2>1, <2>2, <2>3
<1>10. ASSUME NEW x \in FieldsOf(d.idFields) PROVE x \in FieldSet(order)
  <2>1. CASE x \in Members(FieldsIn(items))
    <3>1. PICK i \in 1..n : items[i].field = x
      BY <1>6, <2>1 DEF Members, FieldsIn
    <3>2. i \in DOMAIN order /\ order[i].field = x
      BY <1>5, <3>1
    <3> QED BY <3>2 DEF FieldSet
  <2>2. CASE x \notin Members(FieldsIn(items))
    <3>1. PICK k \in 1..m : ids[k] = x
      BY <1>3, <1>6, <2>2 DEF Members
    <3>2. n + k \in (n + 1)..(n + m) /\ (n + k) - n = k /\ n + k \in DOMAIN order
      BY <1>5, <3>1
    <3>3. order[n + k].field = x
      BY <1>5, <3>1, <3>2
    <3> QED BY <3>2, <3>3 DEF FieldSet
  <2> QED BY <2>1, <2>2
<1>11. ASSUME NEW i \in DOMAIN order
       PROVE  \/ order[i].field \in Members(FieldsIn(items))
              \/ order[i].field \in FieldsOf(d.idFields)
  <2>1. i \in 1..n \/ i \in (n + 1)..(n + m)
    BY <1>5
  <2> QED BY <1>3, <1>7, <1>8, <2>1
<1>12. order # <<>>
  BY <1>2, <1>10 DEF FieldSet
<1>13. FieldSet(order) \subseteq Members(d.fields)
  BY <1>2, <1>4, <1>11 DEF FieldSet
<1>14. mode = "cursor" => FieldSet(order) \subseteq CursorSafe(d)
  BY <1>4, <1>11 DEF FieldSet, CursorSafe
<1>15. IsOrderOf(d, order)
  BY <1>5, <1>9, <1>10, <1>12, <1>13 DEF IsOrderOf
<1> QED BY <1>14, <1>15 DEF order, items

(***************************************************************************)
(* The order of rows                                                       *)
(***************************************************************************)
Value == Int \cup {Null}
\* The row left comes first when only the item of an order is compared.
Earlier(left, right, item) ==
    CompareNullable(left[item.field], right[item.field])
        = (IF item.direction = "asc" THEN -1 ELSE 1)
SameAt(left, right, item) == left[item.field] = right[item.field]
\* The row has a value in every field that the order compares.
HasValues(row, order) == \A i \in DOMAIN order : row[order[i].field] \in Value

(* compareNullable orders integers and null.                               *)
LEMMA Nullables ==
    ASSUME NEW a \in Value, NEW b \in Value, NEW c \in Value
    PROVE  /\ CompareNullable(a, b) = 0 <=> a = b
           /\ CompareNullable(a, b) \in {-1, 0, 1}
           /\ CompareNullable(b, a) = -CompareNullable(a, b)
           /\ CompareNullable(a, b) = -1 /\ CompareNullable(b, c) = -1
                 => CompareNullable(a, c) = -1
           /\ CompareNullable(a, b) = 1 /\ CompareNullable(b, c) = 1
                 => CompareNullable(a, c) = 1
<1>1. Null \notin Int
  BY RowsAssumption
<1>2. /\ CompareNullable(a, b) = (IF a = b THEN 0 ELSE IF a = Null THEN 1
                                  ELSE IF b = Null THEN -1
                                  ELSE IF a < b THEN -1 ELSE 1)
      /\ CompareNullable(b, a) = (IF a = b THEN 0 ELSE IF b = Null THEN 1
                                  ELSE IF a = Null THEN -1
                                  ELSE IF b < a THEN -1 ELSE 1)
      /\ CompareNullable(b, c) = (IF b = c THEN 0 ELSE IF b = Null THEN 1
                                  ELSE IF c = Null THEN -1
                                  ELSE IF b < c THEN -1 ELSE 1)
      /\ CompareNullable(a, c) = (IF a = c THEN 0 ELSE IF a = Null THEN 1
                                  ELSE IF c = Null THEN -1
                                  ELSE IF a < c THEN -1 ELSE 1)
  BY DEF CompareNullable
<1>3. /\ a # Null => a \in Int
      /\ b # Null => b \in Int
      /\ c # Null => c \in Int
  BY DEF Value
<1>4. /\ CompareNullable(a, b) = 0 <=> a = b
      /\ CompareNullable(a, b) \in {-1, 0, 1}
      /\ CompareNullable(b, a) = -CompareNullable(a, b)
  BY <1>2, <1>3
<1>5. CompareNullable(a, b) = -1 /\ CompareNullable(b, c) = -1
                 => CompareNullable(a, c) = -1
  BY <1>2, <1>3
<1>6. CompareNullable(a, b) = 1 /\ CompareNullable(b, c) = 1
                 => CompareNullable(a, c) = 1
  BY <1>2, <1>3
<1> QED BY <1>4, <1>5, <1>6

(* One item of an order orders rows strictly, up to rows it cannot tell    *)
(* apart.                                                                  *)
LEMMA ItemsOrder ==
    ASSUME NEW item, item.direction \in {"asc", "desc"},
           NEW x, NEW y, NEW z, x[item.field] \in Value,
           y[item.field] \in Value, z[item.field] \in Value
    PROVE  /\ Earlier(x, y, item) => ~SameAt(x, y, item)
           /\ ~SameAt(x, y, item) => Earlier(x, y, item) \/ Earlier(y, x, item)
           /\ Earlier(x, y, item) /\ Earlier(y, z, item) => Earlier(x, z, item)
           /\ SameAt(x, y, item) <=>
                 CompareNullable(x[item.field], y[item.field]) = 0
<1> DEFINE a == x[item.field]
           b == y[item.field]
           c == z[item.field]
<1>1. a \in Value /\ b \in Value /\ c \in Value
  OBVIOUS
<1> HIDE DEF a, b, c
<1>2. /\ CompareNullable(a, b) = 0 <=> a = b
      /\ CompareNullable(a, b) \in {-1, 0, 1}
      /\ CompareNullable(b, a) = -CompareNullable(a, b)
      /\ CompareNullable(a, b) = -1 /\ CompareNullable(b, c) = -1
            => CompareNullable(a, c) = -1
      /\ CompareNullable(a, b) = 1 /\ CompareNullable(b, c) = 1
            => CompareNullable(a, c) = 1
  BY <1>1, Nullables
<1>3. /\ Earlier(x, y, item) <=> CompareNullable(a, b)
                                    = (IF item.direction = "asc" THEN -1 ELSE 1)
      /\ Earlier(y, x, item) <=> CompareNullable(b, a)
                                    = (IF item.direction = "asc" THEN -1 ELSE 1)
      /\ Earlier(y, z, item) <=> CompareNullable(b, c)
                                    = (IF item.direction = "asc" THEN -1 ELSE 1)
      /\ Earlier(x, z, item) <=> CompareNullable(a, c)
                                    = (IF item.direction = "asc" THEN -1 ELSE 1)
      /\ SameAt(x, y, item) <=> a = b
  BY DEF Earlier, SameAt, a, b, c
<1>4. (SameAt(x, y, item)) <=> CompareNullable(x[item.field], y[item.field]) = 0
  BY <1>2, <1>3 DEF a, b
<1>5. /\ Earlier(x, y, item) => ~SameAt(x, y, item)
      /\ ~SameAt(x, y, item) => Earlier(x, y, item) \/ Earlier(y, x, item)
      /\ Earlier(x, y, item) /\ Earlier(y, z, item) => Earlier(x, z, item)
  BY <1>2, <1>3
<1> QED BY <1>4, <1>5

(* compareRecords: the first item that tells two rows apart decides.       *)
LEMMA FirstDifferenceDecides ==
    ASSUME NEW order, IsSequence(order),
           \A i \in DOMAIN order : order[i].direction \in {"asc", "desc"},
           NEW x, HasValues(x, order), NEW y, HasValues(y, order)
    PROVE  ComesBefore(x, y, order) <=>
              \E i \in DOMAIN order :
                 /\ \A j \in 1..(i - 1) : SameAt(x, y, order[j])
                 /\ Earlier(x, y, order[i])
<1>1. Len(order) \in Nat /\ DOMAIN order = 1..Len(order)
  BY SequencesAre
<1>2. ASSUME NEW i \in DOMAIN order, NEW j \in 1..(i - 1)
      PROVE  SameAt(x, y, order[j]) <=>
                CompareNullable(x[order[j].field], y[order[j].field]) = 0
  <2>1. j \in DOMAIN order
    BY <1>1
  <2>2. x[order[j].field] \in Value /\ y[order[j].field] \in Value
    BY <2>1 DEF HasValues
  <2> DEFINE item == order[j]
  <2>3. item.direction \in {"asc", "desc"}
    BY <2>1
  <2> QED BY <2>2, <2>3, ItemsOrder
<1> QED BY <1>2 DEF ComesBefore, Earlier

(* It orders rows strictly, and totally those that differ in a field of    *)
(* the order.                                                              *)
LEMMA RowsAreOrdered ==
    ASSUME NEW order, IsSequence(order),
           \A i \in DOMAIN order : order[i].direction \in {"asc", "desc"},
           NEW x, HasValues(x, order), NEW y, HasValues(y, order),
           NEW z, HasValues(z, order)
    PROVE  /\ ~ComesBefore(x, x, order)
           /\ ComesBefore(x, y, order) /\ ComesBefore(y, z, order)
                 => ComesBefore(x, z, order)
           /\ (\E i \in DOMAIN order : ~SameAt(x, y, order[i]))
                 => ComesBefore(x, y, order) \/ ComesBefore(y, x, order)
<1>1. Len(order) \in Nat /\ DOMAIN order = 1..Len(order)
  BY SequencesAre
<1>2. ASSUME NEW i \in DOMAIN order
      PROVE  /\ Earlier(x, y, order[i]) => ~SameAt(x, y, order[i])
             /\ ~SameAt(x, y, order[i])
                   => Earlier(x, y, order[i]) \/ Earlier(y, x, order[i])
             /\ Earlier(x, y, order[i]) /\ Earlier(y, z, order[i])
                   => Earlier(x, z, order[i])
             /\ ~Earlier(x, x, order[i])
  <2> DEFINE item == order[i]
  <2>1. /\ x[item.field] \in Value /\ y[item.field] \in Value
        /\ z[item.field] \in Value /\ item.direction \in {"asc", "desc"}
    BY DEF HasValues
  <2> HIDE DEF item
  <2>2. /\ Earlier(x, y, item) => ~SameAt(x, y, item)
        /\ ~SameAt(x, y, item) => Earlier(x, y, item) \/ Earlier(y, x, item)
        /\ Earlier(x, y, item) /\ Earlier(y, z, item) => Earlier(x, z, item)
    BY <2>1, ItemsOrder
  <2>3. Earlier(x, x, item) => ~SameAt(x, x, item)
    BY <2>1, ItemsOrder
  <2>4. SameAt(x, x, item)
    BY DEF SameAt
  <2> QED BY <2>2, <2>3, <2>4 DEF item
<1>3. ~ComesBefore(x, x, order)
  BY <1>2, FirstDifferenceDecides
<1>4. ASSUME ComesBefore(x, y, order), ComesBefore(y, z, order)
      PROVE  ComesBefore(x, z, order)
  <2>1. PICK i \in DOMAIN order : /\ \A j \in 1..(i - 1) : SameAt(x, y, order[j])
                                  /\ Earlier(x, y, order[i])
    BY <1>4, FirstDifferenceDecides
  <2>2. PICK k \in DOMAIN order : /\ \A j \in 1..(k - 1) : SameAt(y, z, order[j])
                                  /\ Earlier(y, z, order[k])
    BY <1>4, FirstDifferenceDecides
  <2>3. ASSUME NEW l \in DOMAIN order, \A j \in 1..(l - 1) :
                  SameAt(x, y, order[j]) /\ SameAt(y, z, order[j]),
               Earlier(x, z, order[l])
        PROVE  ComesBefore(x, z, order)
    <3>1. \A j \in 1..(l - 1) : SameAt(x, z, order[j])
      BY <2>3 DEF SameAt
    <3> QED BY <2>3, <3>1, FirstDifferenceDecides
  <2>4. i \in Int /\ k \in Int
    BY <1>1
  <2>5. CASE i < k
    <3>1. SameAt(y, z, order[i])
      BY <1>1, <2>2, <2>5
    <3>2. Earlier(x, z, order[i])
      BY <2>1, <3>1 DEF Earlier, SameAt
    <3>3. 1..(i - 1) \subseteq 1..(k - 1)
      BY <2>4, <2>5
    <3> QED BY <2>1, <2>2, <2>3, <3>2, <3>3
  <2>6. CASE k < i
    <3>1. SameAt(x, y, order[k])
      BY <1>1, <2>1, <2>6
    <3>2. Earlier(x, z, order[k])
      BY <2>2, <3>1 DEF Earlier, SameAt
    <3>3. 1..(k - 1) \subseteq 1..(i - 1)
      BY <2>4, <2>6
    <3> QED BY <2>1, <2>2, <2>3, <3>2, <3>3
  <2>7. CASE i = k
    <3>1. Earlier(x, z, order[i])
      BY <1>2, <2>1, <2>2, <2>7
    <3> QED BY <2>1, <2>2, <2>3, <2>7, <3>1
  <2> QED BY <2>4, <2>5, <2>6, <2>7
<1>5. ASSUME \E i \in DOMAIN order : ~SameAt(x, y, order[i])
      PROVE  ComesBefore(x, y, order) \/ ComesBefore(y, x, order)
  <2> DEFINE differ == {i \in DOMAIN order : ~SameAt(x, y, order[i])}
             less == OpToRel(<, Nat)
  <2>1. differ # {} /\ differ \subseteq Nat
    BY <1>1, <1>5
  <2>2. IsWellFoundedOn(less, Nat)
    BY NatLessThanWellFounded, Zenon
  <2>3. PICK i \in differ : \A j \in differ : <<j, i>> \notin less
    <3> HIDE DEF differ, less
    <3> QED BY <2>1, <2>2, WFMin
  <2>4. ASSUME NEW j \in 1..(i - 1) PROVE SameAt(x, y, order[j])
    <3>1. j \in DOMAIN order /\ j \in Nat /\ i \in Nat /\ j < i
      BY <1>1, <2>1
    <3>2. <<j, i>> \in less
      BY <3>1, Zenon DEF OpToRel
    <3> HIDE DEF less
    <3> QED BY <2>3, <3>1, <3>2
  <2>5. \A j \in 1..(i - 1) : SameAt(y, x, order[j])
    BY <2>4 DEF SameAt
  <2>6. i \in DOMAIN order /\ (Earlier(x, y, order[i]) \/ Earlier(y, x, order[i]))
    BY <1>2, <2>3
  <2> QED BY <2>4, <2>5, <2>6, FirstDifferenceDecides
<1> QED BY <1>3, <1>4, <1>5

(***************************************************************************)
(* The rows that a list finds                                              *)
(***************************************************************************)
RowsOK ==
    /\ app \in Applications
    /\ rows = [k \in Keys |-> rows[k]]
    /\ \A k \in Keys : rows[k] # Gone =>
          rows[k].id = k /\ rows[k] \in Stored(app)

Held == {k \in Keys : rows[k] # Gone}
Preceding(keys, order) ==
    {pair \in keys \X keys : ComesBefore(rows[pair[1]], rows[pair[2]], order)}

(* What is stored has values in the fields of every order, and in those of *)
(* a cursor no null.                                                       *)
LEMMA RowsAreStorage ==
    ASSUME IsCoherent, RowsOK, NEW r \in Bound
    PROVE  /\ Accepted(Definition(r)) /\ HasSequences(Definition(r))
           /\ IsStorage(Definition(r), Stored(app))
           /\ \A k \in Held : rows[k] \in Stored(app) /\ rows[k].id = k
  BY RowsAssumption, DefinitionsAssumption
     DEF IsCoherent, Bound, RowsOK, Held, Definition

LEMMA HeldRowsHaveValues ==
    ASSUME IsCoherent, RowsOK, NEW r \in Bound, NEW order,
           IsOrderOf(Definition(r), order), NEW k \in Held
    PROVE  HasValues(rows[k], order)
<1>1. /\ IsStorage(Definition(r), Stored(app)) /\ rows[k] \in Stored(app)
      /\ FieldSet(order) \subseteq Members(Definition(r).fields)
  BY RowsAreStorage DEF IsOrderOf
<1> QED BY <1>1 DEF IsStorage, HasValues, FieldSet, Value

(* The held rows can be sorted by any order that the parser builds.        *)
LEMMA HeldRowsAreSorted ==
    ASSUME IsCoherent, RowsOK, NEW r \in Bound, NEW order,
           IsOrderOf(Definition(r), order), NEW keys, keys \subseteq Held
    PROVE  /\ IsFiniteSet(keys)
           /\ IsTotalOrder(keys, Preceding(keys, order))
           /\ Lists(InOrder(keys, order), keys, Preceding(keys, order))
<1>1. IsFiniteSet(keys)
  BY KeysAssumption, FS_Subset DEF Held
<1>2. \A k \in keys : HasValues(rows[k], order)
  BY HeldRowsHaveValues
<1>3. /\ IsSequence(order)
      /\ \A i \in DOMAIN order : order[i].direction \in {"asc", "desc"}
      /\ FieldsOf(Definition(r).idFields) \subseteq FieldSet(order)
  BY DEF IsOrderOf
<1>4. \A k, l \in keys : <<k, l>> \in Preceding(keys, order)
                            <=> ComesBefore(rows[k], rows[l], order)
  BY DEF Preceding
<1>5. ASSUME NEW k \in keys, NEW l \in keys, k # l
      PROVE  \E i \in DOMAIN order : ~SameAt(rows[k], rows[l], order[i])
  <2>1. /\ IsStorage(Definition(r), Stored(app))
        /\ rows[k] \in Stored(app) /\ rows[l] \in Stored(app)
        /\ rows[k].id # rows[l].id
    BY <1>5, RowsAreStorage
  <2>2. PICK field \in FieldsOf(Definition(r).idFields) :
           rows[k][field] # rows[l][field]
    BY <2>1 DEF IsStorage
  <2>3. PICK i \in DOMAIN order : order[i].field = field
    BY <1>3, <2>2 DEF FieldSet
  <2> QED BY <2>2, <2>3 DEF SameAt
<1>6. IsTotalOrder(keys, Preceding(keys, order))
  <2>1. ASSUME NEW k \in keys PROVE ~ComesBefore(rows[k], rows[k], order)
    BY <1>2, <1>3, RowsAreOrdered
  <2>2. ASSUME NEW k \in keys, NEW l \in keys, NEW m \in keys,
               ComesBefore(rows[k], rows[l], order),
               ComesBefore(rows[l], rows[m], order)
        PROVE  ComesBefore(rows[k], rows[m], order)
    BY <1>2, <1>3, <2>2, RowsAreOrdered
  <2>3. ASSUME NEW k \in keys, NEW l \in keys, k # l
        PROVE  \/ ComesBefore(rows[k], rows[l], order)
               \/ ComesBefore(rows[l], rows[k], order)
    BY <1>2, <1>3, <1>5, <2>3, RowsAreOrdered
  <2> QED BY <1>4, <2>1, <2>2, <2>3 DEF IsTotalOrder
<1>7. InOrder(keys, order) = Arranged(keys, Preceding(keys, order))
  BY DEF InOrder, Preceding
<1> QED BY <1>1, <1>6, <1>7, Arrangement

(* findMany returns the rows from its offset on, no more than it was asked *)
(* for.                                                                    *)
LEMMA FoundRowsAreSelected ==
    ASSUME IsCoherent, RowsOK, NEW r \in Bound, NEW order,
           IsOrderOf(Definition(r), order), NEW predicate,
           NEW offset \in Nat, NEW limit \in Nat, NEW found,
           found = FindMany(predicate, order, offset, limit),
           NEW N, N = Cardinality(Selected(predicate)),
           NEW all, all = InOrder(Selected(predicate), order)
    PROVE  /\ N \in Nat /\ IsSequence(found)
           /\ Len(found) = IF N - offset < 0 THEN 0
                           ELSE IF N - offset < limit THEN N - offset ELSE limit
           /\ \A i \in DOMAIN found :
                 found[i] = all[offset + i] /\ found[i] \in Selected(predicate)
<1> DEFINE keys == Selected(predicate)
           rest == N - offset
           size == IF rest < limit THEN rest ELSE limit
           length == IF rest < 0 THEN 0 ELSE size
<1>1. keys \subseteq Held
  BY DEF Selected, Held
<1>2. /\ IsFiniteSet(keys) /\ all \in [1..N -> keys]
  BY <1>1, HeldRowsAreSorted DEF Lists
<1>3. N \in Nat
  BY <1>2, FS_CardinalityType
<1>4. Len(all) = N
  <2> HIDE DEF keys
  <2> QED BY <1>2, <1>3
<1>5. found = [i \in 1..size |-> all[offset + i]]
  <2>1. found = Slice(all, offset, limit)
    BY DEF FindMany
  <2> QED BY <1>4, <2>1 DEF Slice
<1> HIDE DEF keys
<1>6. length \in Nat /\ 1..size = 1..length
  BY <1>3
<1>7. \A i \in 1..length : all[offset + i] \in keys
  BY <1>2, <1>3
<1>8. found = [i \in 1..length |-> all[offset + i]]
  BY <1>5, <1>6
<1> HIDE DEF length
<1>9. Len(found) = length /\ IsSequence(found) /\ DOMAIN found = 1..length
  BY <1>6, <1>8 DEF IsSequence
<1> QED BY <1>3, <1>7, <1>8, <1>9 DEF keys, length

(***************************************************************************)
(* Predicates                                                              *)
(***************************************************************************)
\* Markers are not the things they mark the absence of.
MarkersAreApart ==
    /\ \A field, operator, value : Comparison(field, operator, value) # Null
    /\ \A kind, predicates :
          [kind |-> kind, predicates |-> predicates] # Null
    /\ \A resource, order, values :
          [resource |-> resource, order |-> order, values |-> values]
             \notin {NoToken, Malformed, Empty}
    /\ \A token : <<token>> # NotText

Truths == {"true", "false", Unknown}

(* A row that matches a conjunction satisfies each part of it that has a   *)
(* truth.                                                                  *)
LEMMA ConjunctsHold ==
    ASSUME IsEvaluation, MarkersAreApart, NEW row, NEW parts, IsSequence(parts),
           Matches(row, Combine("and", parts, Null)), NEW i \in DOMAIN parts,
           parts[i] # Null, Evaluation(row, parts[i]) \in Truths
    PROVE  Evaluation(row, parts[i]) = "true"
<1>1. Len(parts) \in Nat /\ DOMAIN parts = 1..Len(parts)
  BY SequencesAre
<1>2. parts # <<>>
  BY <1>1
<1>3. CASE Len(parts) = 1
  <2>1. Combine("and", parts, Null) = parts[1] /\ i = 1
    BY <1>1, <1>2, <1>3 DEF Combine
  <2> QED BY <2>1 DEF Matches
<1>4. CASE Len(parts) # 1
  <2> DEFINE p == [kind |-> "and", predicates |-> parts]
             truths == {Evaluation(row, parts[j]) : j \in DOMAIN parts}
  <2>1. Combine("and", parts, Null) = p
    BY <1>2, <1>4 DEF Combine
  <2>2. p # Null
    BY DEF MarkersAreApart
  <2>3. p.kind = "and" /\ p.predicates = parts
    OBVIOUS
  <2> HIDE DEF p
  <2>4. Evaluation(row, p) = "true"
    BY <2>1, <2>2 DEF Matches
  <2>5. Evaluation(row, p) = NodeTruth(Evaluation, row, p)
    BY DEF IsEvaluation
  <2>6. Evaluation(row, p) = And3(truths)
    BY <2>3, <2>5 DEF NodeTruth
  <2>7. "false" \notin truths /\ Unknown \notin truths
    BY <2>4, <2>6 DEF And3, Unknown
  <2> QED BY <2>7 DEF Truths
<1> QED BY <1>3, <1>4

LEMMA ComparisonsEvaluate ==
    ASSUME IsEvaluation, NEW row, NEW field, NEW operator, NEW value
    PROVE  Evaluation(row, Comparison(field, operator, value))
              = MemoryComparison(operator, row[field], value)
<1> DEFINE p == Comparison(field, operator, value)
<1>1. /\ p.kind = "comparison" /\ p.field = field
      /\ p.operator = operator /\ p.value = value
  BY DEF Comparison
<1> HIDE DEF p
<1>2. Evaluation(row, p) = NodeTruth(Evaluation, row, p)
  BY DEF IsEvaluation
<1>3. Evaluation(row, p) = MemoryComparison(p.operator, row[p.field], p.value)
  BY <1>1, <1>2 DEF NodeTruth
<1> QED BY <1>1, <1>3 DEF p

LEMMA EqualityHasTruth ==
    ASSUME IsEvaluation, NEW row, NEW field, NEW value
    PROVE  LET truth == Evaluation(row, Comparison(field, "eq", value))
           IN  truth \in Truths /\ (truth = "true" => row[field] = value)
<1> DEFINE a == row[field]
           truth == MemoryComparison("eq", a, value)
<1>1. truth = IF Null \in {a, value}
              THEN IF value = Null THEN Truth(a = Null) ELSE Unknown
              ELSE Truth(a = value)
  BY DEF MemoryComparison
<1> HIDE DEF a, truth
<1>2. truth \in Truths /\ (truth = "true" => a = value)
  BY <1>1 DEF Truth, Truths, Unknown
<1> QED BY <1>2, ComparisonsEvaluate DEF a, truth

(* A finite set as a sequence.                                             *)
LEMMA SetsAsSequences ==
    ASSUME NEW S, IsFiniteSet(S)
    PROVE  /\ IsSequence(SetToSeq(S))
           /\ \A i \in DOMAIN SetToSeq(S) : SetToSeq(S)[i] \in S
           /\ \A x \in S : \E i \in DOMAIN SetToSeq(S) : SetToSeq(S)[i] = x
<1> DEFINE N == Cardinality(S)
           s == SetToSeq(S)
<1>1. N \in Nat
  BY FS_CardinalityType
<1>2. IsFiniteSet(1..N) /\ Cardinality(1..N) = N
  <2> HIDE DEF N
  <2> QED BY <1>1, FS_Interval
<1>3. ExistsBijection(1..N, S)
  BY <1>2, FS_SameCardinalityBij
<1>4. \E f \in [1..N -> S] : IsInjective(f)
  BY <1>3 DEF ExistsBijection, Bijection, Injection
<1>5. s \in [1..N -> S] /\ IsInjective(s)
  BY <1>4 DEF SetToSeq
<1> HIDE DEF s
<1>6. s \in Surjection(1..N, S)
  <2>1. s \in Injection(1..N, S)
    BY <1>5 DEF Injection
  <2> QED BY <1>2, <2>1, FS_Injection
<1>7. IsSequence(s) /\ DOMAIN s = 1..N
  <2> HIDE DEF N
  <2> QED BY <1>1, <1>5 DEF IsSequence
<1> QED BY <1>5, <1>6, <1>7 DEF Surjection, s

(* The members of a sequence are finitely many.                            *)
LEMMA MembersAreFinite ==
    ASSUME NEW s, IsSequence(s) PROVE IsFiniteSet(Members(s))
<1> DEFINE n == Len(s)
<1>1. n \in Nat /\ DOMAIN s = 1..n
  BY SequencesAre
<1>2. s \in Surjection(1..n, Members(s))
  <2>1. s = [i \in 1..n |-> s[i]]
    BY DEF IsSequence
  <2> QED BY <1>1, <2>1 DEF Surjection, Members
<1> HIDE DEF n
<1>3. IsFiniteSet(1..n)
  BY <1>1, FS_Interval
<1> QED BY <1>2, <1>3, FS_Surjection

(***************************************************************************)
(* Queries                                                                 *)
(***************************************************************************)
LEMMA FirstFiltersAre ==
    ASSUME NEW raw, IsSequence(raw)
    PROVE  LET first == FirstFilters(raw)
           IN  /\ IsSequence(first)
               /\ \A n \in DOMAIN first : first[n] \in DOMAIN raw
               /\ \A i \in DOMAIN raw :
                     raw[i].filter
                     /\ (\A j \in 1..(i - 1) : ~SameFilter(raw[j], raw[i]))
                        => i \in Members(first)
<1> DEFINE first == FirstFilters(raw)
           places == {i \in DOMAIN raw : raw[i].filter
                        /\ \A j \in 1..(i - 1) : ~SameFilter(raw[j], raw[i])}
           N == Cardinality(places)
<1>1. Len(raw) \in Nat /\ DOMAIN raw = 1..Len(raw)
  BY SequencesAre
<1>2. first = InSequence(places)
  BY DEF FirstFilters
<1>3. places \subseteq DOMAIN raw
  OBVIOUS
<1>4. \A i \in DOMAIN raw : i \in places <=>
         raw[i].filter /\ \A j \in 1..(i - 1) : ~SameFilter(raw[j], raw[i])
  OBVIOUS
<1> HIDE DEF places, first
<1>5. /\ N \in Nat /\ first \in [1..N -> places]
      /\ \A p \in places : \E i \in 1..N : first[i] = p
  BY <1>1, <1>2, <1>3, Places_InSequence
<1> HIDE DEF N
<1>6. IsSequence(first)
  BY <1>5 DEF IsSequence
<1> QED BY <1>3, <1>4, <1>5, <1>6 DEF Members, first

\* What the parser returns where it does not refuse.
IsListQuery(r, raw, parent, q) ==
    LET d == Definition(r)
    IN  /\ q.kind = "query" /\ IsPage(d, raw, q.page)
        /\ q = ListQueryOf(raw, q.page, q.order)
        /\ q.order = BuildOrder(d, SortItems(d, raw, q.page.mode))
        /\ IsOrderOf(d, q.order)
        /\ q.page.mode = "cursor" => FieldSet(q.order) \subseteq CursorSafe(d)
        /\ IsAllowed(d, raw, q.page.mode) /\ ParametersAreKnown(raw)
        /\ CursorIsValid(d, q.page, q.order, ParserOptions(d, parent))
        /\ IsSequence(q.filters)

(* A raw query to a bound resource of a coherent application is refused or *)
(* is a query that a list can be answered for.                             *)
LEMMA QueriesAreSound ==
    ASSUME IsCoherent, RowsOK, NEW r \in Bound, NEW raw, IsRawQuery(raw),
           NEW parent, NEW q, q = Query(r, raw, parent)
    PROVE  q = Refused \/ IsListQuery(r, raw, parent, q)
<1> DEFINE d == Definition(r)
           options == ParserOptions(d, parent)
           page == Pagination(d, raw, options)
           order == BuildOrder(d, SortItems(d, raw, page.mode))
<1> SUFFICES ASSUME q # Refused PROVE IsListQuery(r, raw, parent, q)
  OBVIOUS
<1>1. Accepted(d) /\ HasSequences(d)
  BY RowsAreStorage
<1>2. page = Refused \/ IsPage(d, raw, page)
  BY PagesAreSound
<1> HIDE DEF options, page
<1>3. q = ParseList(d, raw, options)
  BY DEF Query, options
<1> HIDE DEF d
<1>4. ParametersAreKnown(raw) /\ q = ParseKnown(d, raw, options, page)
  BY <1>3 DEF ParseList, page
<1>5. IsPage(d, raw, page)
  BY <1>2, <1>4 DEF ParseKnown, Refused
<1> HIDE DEF order
<1>6. q = ParsePage(d, raw, options, page, order)
  BY <1>4, <1>5 DEF ParseKnown, IsPage, order
<1>7. /\ IsAllowed(d, raw, page.mode)
      /\ CursorIsValid(d, page, order, options)
      /\ q = ListQueryOf(raw, page, order)
  BY <1>6 DEF ParsePage
<1>8. q.kind = "query" /\ q.page = page /\ q.order = order
  BY <1>7 DEF ListQueryOf
<1>9. /\ IsOrderOf(d, order)
      /\ page.mode = "cursor" => FieldSet(order) \subseteq CursorSafe(d)
  BY <1>1, <1>7, OrdersAreSound DEF IsAllowed, order
<1>10. IsSequence(q.filters)
  <2> DEFINE f == FilterPredicates(raw)
             c == IF Continues(page)
                  THEN <<CursorPredicate(order, page.after.values)>> ELSE <<>>
  <2>1. q.filters = f \o c
    BY <1>7 DEF ListQueryOf
  <2>2. IsSequence(f)
    <3> DEFINE first == FirstFilters(raw)
    <3>1. Len(first) \in Nat /\ DOMAIN first = 1..Len(first)
      BY FirstFiltersAre, SequencesAre DEF IsRawQuery
    <3>2. f = [i \in DOMAIN first |-> FilterPredicate(raw, first[i])]
      BY DEF FilterPredicates
    <3> HIDE DEF first
    <3> QED BY <3>1, <3>2 DEF IsSequence
  <2>3. IsSequence(c)
    BY DEF IsSequence
  <2> HIDE DEF f, c
  <2> QED BY <2>1, <2>2, <2>3, Concatenation
<1>11. order = BuildOrder(d, SortItems(d, raw, page.mode))
  BY DEF order
<1> QED BY <1>4, <1>5, <1>7, <1>8, <1>9, <1>10, <1>11
        DEF IsListQuery, d, options

(***************************************************************************)
(* Path parameters and cursors                                             *)
(***************************************************************************)
(* The path of a collection fixes id fields.                               *)
LEMMA PathFieldsAreIdFields ==
    ASSUME NEW d, Accepted(d), NEW parent
    PROVE  DOMAIN Fixed(d, parent) \subseteq FieldsOf(d.idFields)
<1>1. CASE d.pathParams = None
  BY <1>1 DEF Fixed
<1>2. CASE d.pathParams # None
  <2>1. DOMAIN Fixed(d, parent) = FieldsOf(d.pathParams)
    BY <1>2 DEF Fixed
  <2>2. /\ DOMAIN d.pathParams \subseteq DOMAIN d.idFields
        /\ \A p \in DOMAIN d.pathParams : d.pathParams[p] = d.idFields[p]
    BY <1>2 DEF Accepted, RouteParametersAreSound, PathParamsAreSound
  <2> QED BY <2>1, <2>2 DEF FieldsOf
<1> QED BY <1>1, <1>2

(* A row that a list selects has the values that the path fixes.           *)
LEMMA PathParamsHold ==
    ASSUME IsEvaluation, MarkersAreApart, NEW r, HasSequences(Definition(r)),
           Accepted(Definition(r)), NEW q, IsSequence(q.filters), NEW parent,
           NEW row, Matches(row, ListPredicate(r, q, parent)),
           NEW field \in DOMAIN Fixed(Definition(r), parent)
    PROVE  row[field] = Fixed(Definition(r), parent)[field]
<1> DEFINE d == Definition(r)
           fixed == Fixed(d, parent)
           fields == SetToSeq(DOMAIN fixed)
           a == q.filters
           b == SearchPredicate(d, q)
           c == DeletedPredicate(d, q)
           e == Equalities(fixed, fields)
           f == ScopePredicate(r)
           parts == a \o b \o c \o e \o f
<1>1. IsFiniteSet(DOMAIN fixed)
  <2>1. DOMAIN fixed \subseteq Members(d.fields)
    BY PathFieldsAreIdFields DEF Accepted, FieldsAreSound
  <2> QED BY <2>1, MembersAreFinite, FS_Subset DEF HasSequences
<1>2. PICK i \in DOMAIN fields : fields[i] = field
  BY <1>1, SetsAsSequences
<1>3. IsSequence(fields)
  BY <1>1, SetsAsSequences
<1>4. DOMAIN fields = 1..Len(fields) /\ Len(fields) \in Nat
  BY <1>3, SequencesAre
<1> HIDE DEF fields
<1>5. e = [k \in 1..Len(fields) |-> Comparison(fields[k], "eq", fixed[fields[k]])]
  BY <1>4 DEF Equalities
<1> DEFINE eq == Comparison(field, "eq", fixed[field])
<1>6. IsSequence(e) /\ i \in 1..Len(e) /\ e[i] = eq
  <2> HIDE DEF fixed
  <2> QED BY <1>2, <1>4, <1>5 DEF IsSequence
<1>7. IsSequence(b) /\ IsSequence(c) /\ IsSequence(f)
  <2>1. IsSequence(b)
    BY DEF IsSequence, SearchPredicate
  <2>2. IsSequence(c)
    BY DEF IsSequence, DeletedPredicate
  <2>3. IsSequence(f)
    BY DEF IsSequence, ScopePredicate
  <2> QED BY <2>1, <2>2, <2>3
<1>8. Matches(row, Combine("and", parts, Null))
  BY DEF ListPredicate, PathParamsPredicate, fields
<1> HIDE DEF a, b, c, e, f, eq
<1>9. PICK abc : abc = a \o b \o c /\ IsSequence(abc)
  <2>1. IsSequence(a \o b)
    BY <1>7, Concatenation DEF a
  <2> QED BY <1>7, <2>1, Concatenation
<1>10. PICK abce : abce = abc \o e /\ IsSequence(abce)
  BY <1>6, <1>9, Concatenation
<1>11. /\ IsSequence(parts) /\ Len(parts) = Len(abce) + Len(f)
       /\ \A k \in 1..Len(abce) : parts[k] = abce[k]
  BY <1>7, <1>9, <1>10, Concatenation
<1>12. /\ Len(abce) = Len(abc) + Len(e) /\ abce[Len(abc) + i] = e[i]
  BY <1>6, <1>9, <1>10, Concatenation
<1>13. Len(abc) \in Nat /\ Len(e) \in Nat /\ Len(f) \in Nat
  BY <1>6, <1>7, <1>9, SequencesAre
<1>14. DOMAIN parts = 1..Len(parts)
  BY <1>11, SequencesAre
<1> HIDE DEF parts
<1>15. PICK j \in DOMAIN parts : parts[j] = eq
  BY <1>6, <1>11, <1>12, <1>13, <1>14
<1>16. eq # Null
  BY DEF MarkersAreApart, eq
<1>17. Evaluation(row, eq) \in Truths
          /\ (Evaluation(row, eq) = "true" => row[field] = fixed[field])
  BY EqualityHasTruth DEF eq
<1>18. Evaluation(row, eq) = "true"
  BY <1>8, <1>11, <1>15, <1>16, <1>17, ConjunctsHold
<1> QED BY <1>17, <1>18

BindingOf(r, q, parent) ==
    [resource |-> Definition(r).name, order |-> q.order,
     fixed |-> Fixed(Definition(r), parent)]

(* A cursor can be made of every row that a cursor page shows.             *)
LEMMA CursorsAreMade ==
    ASSUME IsEvaluation, MarkersAreApart, IsCoherent, RowsOK, NEW r \in Bound,
           NEW raw, NEW parent, NEW q, IsListQuery(r, raw, parent, q),
           q.page.mode = "cursor",
           NEW k \in Selected(ListPredicate(r, q, parent))
    PROVE  NextCursor(BindingOf(r, q, parent), rows[k]) # NoToken
<1> DEFINE d == Definition(r)
           fixed == Fixed(d, parent)
           order == q.order
           row == rows[k]
           values == OrderValues(row, order)
           binding == BindingOf(r, q, parent)
           cursor == [resource |-> d.name, order |-> order, values |-> values]
<1>1. /\ Accepted(d) /\ HasSequences(d) /\ IsStorage(d, Stored(app))
      /\ row \in Stored(app)
  BY RowsAreStorage DEF Selected, Held
<1>2. /\ IsOrderOf(d, order) /\ IsSequence(q.filters) /\ CursorMode(d)
      /\ FieldSet(order) \subseteq CursorSafe(d)
  BY DEF IsListQuery, IsPage
<1>3. Matches(row, ListPredicate(r, q, parent))
  BY DEF Selected
<1>4. \A field \in DOMAIN fixed : row[field] = fixed[field]
  BY <1>1, <1>2, <1>3, PathParamsHold
<1>5. DOMAIN fixed \subseteq FieldSet(order)
  BY <1>1, <1>2, PathFieldsAreIdFields DEF IsOrderOf
<1>6. Len(order) \in Nat /\ DOMAIN order = 1..Len(order) /\ order # <<>>
  BY <1>2, SequencesAre DEF IsOrderOf
<1> HIDE DEF fixed, order, row, d
<1>7. values = [i \in 1..Len(order) |-> row[order[i].field]]
  BY <1>6 DEF OrderValues
<1>8. DOMAIN values = DOMAIN order /\ Len(values) = Len(order)
  BY <1>6, <1>7
<1>9. \A i \in DOMAIN order : values[i] = row[order[i].field]
  BY <1>6, <1>7
<1> HIDE DEF values
<1>10. ASSUME NEW field \in DOMAIN fixed
       PROVE  /\ Cardinality(PlacesOf(order, field)) = 1
              /\ \A i \in PlacesOf(order, field) :
                    i \in DOMAIN values /\ values[i] = fixed[field]
  <2>1. PICK i \in DOMAIN order : order[i].field = field
    BY <1>5 DEF FieldSet
  <2>2. PlacesOf(order, field) = {i}
    BY <1>2, <2>1 DEF PlacesOf, IsOrderOf
  <2>3. Cardinality(PlacesOf(order, field)) = 1
    BY <2>2, FS_Singleton
  <2> QED BY <1>4, <1>8, <1>9, <2>1, <2>2, <2>3
<1>11. /\ binding.order = order /\ binding.fixed = fixed
       /\ binding.resource = d.name
  BY DEF BindingOf, order, fixed, d
<1> HIDE DEF binding
<1>12. FixedValuesAgree(binding, values)
  BY <1>10, <1>11 DEF FixedValuesAgree
<1>13. Null \notin Listed(values)
  BY <1>1, <1>2, <1>8, <1>9 DEF Listed, IsStorage, FieldSet
<1>14. cursor.order = order /\ cursor.values = values
  OBVIOUS
<1>15. cursor # NoToken
  BY DEF MarkersAreApart
<1> HIDE DEF cursor
<1>16. ShapeIsSound(cursor)
  BY <1>2, <1>6, <1>8, <1>13, <1>14 DEF ShapeIsSound, IsOrderOf
<1>17. Encode(binding, values) = cursor
  BY <1>11, <1>12, <1>16 DEF Encode, Sealed, cursor
<1>18. NextCursor(binding, row) = Encode(binding, values)
  BY <1>11 DEF NextCursor, values
<1> QED BY <1>15, <1>17, <1>18 DEF binding, row

\* The page that answers the query q.
IsAnswer(r, parent, q, page) ==
    LET predicate == ListPredicate(r, q, parent)
    IN  /\ page.kind = "page" /\ page.mode = q.page.mode
        /\ page.limit = q.page.limit
        /\ page.mode = "offset" =>
              LET total == Cardinality(Selected(predicate))
              IN  page = OffsetPageOf(q, total, TotalPages(total, q.page.limit),
                             FindMany(predicate, q.order,
                                      (q.page.page - 1) * q.page.limit,
                                      q.page.limit))
        /\ page.mode = "cursor" /\ page.nextCursor # NoToken =>
              \E row : page.nextCursor = NextCursor(BindingOf(r, q, parent), row)

(* A list of a bound resource of a coherent application is refused for its *)
(* query or answered with a page.                                          *)
LEMMA ListsAreAnswered ==
    ASSUME IsEvaluation, MarkersAreApart, IsCoherent, RowsOK, NEW r \in Bound,
           NEW raw, IsRawQuery(raw), NEW parent, NEW page,
           page = List(r, raw, parent), NEW q, q = Query(r, raw, parent)
    PROVE  \/ q = Refused /\ page = Refused
           \/ IsListQuery(r, raw, parent, q) /\ IsAnswer(r, parent, q, page)
<1> DEFINE d == Definition(r)
           predicate == ListPredicate(r, q, parent)
           limit == q.page.limit
           found == FindMany(predicate, q.order, 0, limit + 1)
           binding == BindingOf(r, q, parent)
<1>1. page = ListFor(r, q, parent)
  BY DEF List
<1>2. CASE q = Refused
  BY <1>1, <1>2 DEF ListFor, Refused
<1>3. CASE q # Refused
  <2>1. IsListQuery(r, raw, parent, q)
    BY <1>3, QueriesAreSound
  <2>2. /\ q.kind = "query" /\ IsPage(d, raw, q.page) /\ IsOrderOf(d, q.order)
    BY <2>1 DEF IsListQuery
  <2>3. page = Answered(d, q, parent, predicate)
    BY <1>1, <2>2 DEF ListFor
  <2>4. CASE q.page.mode = "offset"
    <3>1. page = OffsetAnswer(q, predicate)
      BY <2>3, <2>4 DEF Answered
    <3> DEFINE total == Cardinality(Selected(predicate))
               data == FindMany(predicate, q.order,
                                (q.page.page - 1) * q.page.limit, q.page.limit)
               pages == TotalPages(total, q.page.limit)
    <3>2. page = OffsetPageOf(q, total, pages, data)
      BY <3>1 DEF OffsetAnswer
    <3> HIDE DEF total, data, pages
    <3>3. page.kind = "page" /\ page.mode = "offset" /\ page.limit = q.page.limit
      BY <3>2 DEF OffsetPageOf
    <3> HIDE DEF predicate
    <3>4. IsAnswer(r, parent, q, page)
      BY <2>4, <3>2, <3>3 DEF IsAnswer, total, data, pages, predicate
    <3> QED BY <2>1, <3>4
  <2>5. CASE q.page.mode = "cursor"
    <3>1. page = CursorAnswer(q, binding, found)
      BY <2>3, <2>5 DEF Answered, BindingOf
    <3>2. limit \in 1..MaxSafe /\ limit + 1 \in Nat
      BY <2>2, MaxSafeAssumption DEF IsPage
    <3>3. /\ IsSequence(found) /\ Len(found) \in Nat
          /\ \A i \in DOMAIN found : found[i] \in Selected(predicate)
      <4> DEFINE top == limit + 1
      <4>1. found = FindMany(predicate, q.order, 0, top)
        OBVIOUS
      <4> HIDE DEF top, predicate, found
      <4>2. /\ IsSequence(found)
            /\ \A i \in DOMAIN found : found[i] \in Selected(predicate)
        BY <2>2, <3>2, <4>1, FoundRowsAreSelected DEF top
      <4> QED BY <4>2, SequencesAre
    <3>4. DOMAIN found = 1..Len(found)
      BY <3>3, SequencesAre
    <3> HIDE DEF found, predicate, binding
    <3>5. ASSUME NEW data, NEW more \in BOOLEAN, NEW next,
                 page = CursorPageOf(q, data, more, next),
                 more /\ HasCodec => next # NoToken,
                 next = NoToken \/ \E row : next = NextCursor(binding, row)
          PROVE  IsAnswer(r, parent, q, page)
      <4>1. page = [kind |-> "page", mode |-> "cursor", data |-> data,
                    limit |-> q.page.limit, hasNextPage |-> more,
                    nextCursor |-> next]
        BY <3>5 DEF CursorPageOf
      <4>2. /\ page.kind = "page" /\ page.mode = "cursor"
            /\ page.limit = q.page.limit /\ page.nextCursor = next
        BY <4>1
      <4> QED BY <2>5, <3>5, <4>2 DEF IsAnswer, binding
    <3>6. CASE Len(found) > limit
      <4> DEFINE next == IF HasCodec THEN NextCursor(binding, rows[found[limit]])
                         ELSE NoToken
                 data == SubSeq(found, 1, limit)
      <4>1. page = CursorPageOf(q, data, TRUE, next)
        BY <3>1, <3>6 DEF CursorAnswer
      <4>2. limit \in DOMAIN found
        BY <3>2, <3>3, <3>4, <3>6, MaxSafeAssumption
      <4>3. found[limit] \in Selected(predicate)
        BY <3>3, <4>2
      <4>4. NextCursor(binding, rows[found[limit]]) # NoToken
        BY <2>1, <2>5, <4>3, CursorsAreMade DEF binding, predicate
      <4>5. /\ HasCodec => next # NoToken
            /\ next = NoToken \/ \E row : next = NextCursor(binding, row)
        BY <4>4
      <4> HIDE DEF next, data
      <4> QED BY <2>1, <3>5, <4>1, <4>5
    <3>7. CASE ~(Len(found) > limit)
      <4>1. page = CursorPageOf(q, found, FALSE, NoToken)
        BY <3>1, <3>7 DEF CursorAnswer
      <4> QED BY <2>1, <3>5, <4>1
    <3> QED BY <3>6, <3>7
  <2> QED BY <2>2, <2>4, <2>5 DEF IsPage
<1> QED BY <1>2, <1>3

(***************************************************************************)
(* The requests an application makes of itself                             *)
(***************************************************************************)
\* The query next continues the list of raw at a token.
Resumes(next, raw, token) == next = Append(raw, After(token))

(* A query and its continuation have the same entries but the last.        *)
LEMMA ContinuedEntries ==
    ASSUME NEW raw, IsSequence(raw), NEW token,
           NEW next, Resumes(next, raw, token)
    PROVE  /\ Len(raw) \in Nat /\ DOMAIN raw = 1..Len(raw)
           /\ DOMAIN next = 1..(Len(raw) + 1) /\ IsSequence(next)
           /\ \A i \in 1..Len(raw) : next[i] = raw[i]
           /\ next[Len(raw) + 1] = After(token)
<1> DEFINE last == After(token)
           S == Members(raw) \cup {last}
           n == Len(raw)
<1>1. n \in Nat /\ DOMAIN raw = 1..n
  BY SequencesAre
<1>2. raw \in [1..n -> S]
  BY <1>1 DEF IsSequence, Members
<1>3. raw \in Seq(S) /\ last \in S
  BY <1>1, <1>2
<1> HIDE DEF S, last
<1>4. next = Append(raw, last)
  BY DEF Resumes, last
<1>5. next \in Seq(S) /\ Len(next) = n + 1
  BY <1>3, <1>4
<1>6. \A i \in 1..n : next[i] = raw[i]
  BY <1>1, <1>3, <1>4
<1>7. next[n + 1] = last
  BY <1>1, <1>3, <1>4
<1> QED BY <1>1, <1>5, <1>6, <1>7, SeqsAreSequences, SequencesAre DEF last

(* What a client sends with a token is a raw query.                        *)
LEMMA ContinuedIsRaw ==
    ASSUME NEW raw, IsRawQuery(raw), NEW token,
           NEW next, Resumes(next, raw, token)
    PROVE  IsRawQuery(next)
<1> DEFINE n == Len(raw)
           entry == After(token)
<1>1. /\ n \in Nat /\ DOMAIN raw = 1..n /\ DOMAIN next = 1..(n + 1)
      /\ \A i \in 1..n : next[i] = raw[i]
      /\ next[n + 1] = entry
  BY ContinuedEntries DEF IsRawQuery
<1>0. IsSequence(next)
  BY ContinuedEntries DEF IsRawQuery
<1>2. /\ entry.filter = FALSE /\ entry.value.array = FALSE
      /\ entry.value.items = <<<<token>>>>
  BY DEF After
<1> HIDE DEF n, entry
<1>3. IsEntry(entry)
  <2> DEFINE item == <<token>>
             items == <<item>>
  <2>1. IsItem(item)
    BY DEF IsSequence, IsItem
  <2> HIDE DEF item
  <2>2. IsSequence(items) /\ Len(items) = 1 /\ DOMAIN items = {1}
        /\ items[1] = item
    BY DEF IsSequence
  <2>3. entry.value.items = items
    BY <1>2 DEF item
  <2> HIDE DEF items
  <2> QED BY <1>2, <2>1, <2>2, <2>3 DEF IsEntry
<1>4. ASSUME NEW i \in DOMAIN next PROVE IsEntry(next[i])
  <2>1. i \in 1..n \/ i = n + 1
    BY <1>1
  <2> QED BY <1>1, <1>3, <2>1 DEF IsRawQuery
<1> QED BY <1>0, <1>4 DEF IsRawQuery

(* All parameters of a query but its token are those of its continuation.  *)
LEMMA ContinuedParameters ==
    ASSUME NEW raw, IsSequence(raw), NEW token,
           NEW next, Resumes(next, raw, token), NEW name,
           name # "after"
    PROVE  /\ Occurs(next, name) <=> Occurs(raw, name)
           /\ OccursOnce(next, name) <=> OccursOnce(raw, name)
           /\ Occurs(raw, name) => Scalar(next, name) = Scalar(raw, name)
           /\ IsText(next, name) <=> IsText(raw, name)
           /\ IsItems(next, name) <=> IsItems(raw, name)
           /\ \A maximum : IsNumber(next, name, maximum)
                              <=> IsNumber(raw, name, maximum)
<1> DEFINE n == Len(raw)
<1>1. /\ n \in Nat /\ DOMAIN raw = 1..n /\ DOMAIN next = 1..(n + 1)
      /\ \A i \in 1..n : next[i] = raw[i]
      /\ next[n + 1] = After(token)
  BY ContinuedEntries
<1> HIDE DEF n
<1>2. ~next[n + 1].filter /\ next[n + 1].name = "after"
  <2>1. After(token).filter = FALSE /\ After(token).name = "after"
    BY DEF After
  <2> QED BY <1>1, <2>1
<1>3. DOMAIN raw \subseteq DOMAIN next
  BY <1>1
<1>4. \A i \in DOMAIN next : i \in DOMAIN raw \/ i = n + 1
  BY <1>1
<1>5. Occurrences(next, name) = Occurrences(raw, name)
  BY <1>1, <1>2, <1>3, <1>4 DEF Occurrences
<1>6. Occurs(next, name) <=> Occurs(raw, name)
  BY <1>5 DEF Occurs
<1>7. OccursOnce(next, name) <=> OccursOnce(raw, name)
  <2>1. \A i \in Occurrences(raw, name) : next[i] = raw[i] /\ i \in DOMAIN raw
    BY <1>1 DEF Occurrences
  <2> QED BY <1>3, <1>5, <2>1 DEF OccursOnce
<1>8. ASSUME Occurs(raw, name) PROVE Scalar(next, name) = Scalar(raw, name)
  <2> DEFINE i == CHOOSE i \in Occurrences(raw, name) : TRUE
  <2>1. i \in Occurrences(raw, name)
    BY <1>8 DEF Occurs
  <2>2. next[i] = raw[i]
    BY <1>1, <2>1 DEF Occurrences
  <2> QED BY <1>5, <2>2 DEF Scalar
<1>9. OccursOnce(raw, name) => Occurs(raw, name)
  BY DEF Occurs, OccursOnce
<1>10. IsText(next, name) <=> IsText(raw, name)
  BY <1>7, <1>8, <1>9 DEF IsText
<1>11. IsText(raw, name) => Scalar(next, name) = Scalar(raw, name)
  BY <1>8, <1>9 DEF IsText
<1>12. IsItems(next, name) <=> IsItems(raw, name)
  BY <1>10, <1>11 DEF IsItems
<1>13. IsItems(raw, name) => Scalar(next, name) = Scalar(raw, name)
  BY <1>11 DEF IsItems
<1>14. ASSUME NEW maximum
       PROVE  IsNumber(next, name, maximum) <=> IsNumber(raw, name, maximum)
  BY <1>12, <1>13 DEF IsNumber
<1> QED BY <1>6, <1>7, <1>8, <1>10, <1>12, <1>14

(* The token of a continuation is its only one.                            *)
LEMMA ContinuedToken ==
    ASSUME NEW raw, IsSequence(raw), ~Occurs(raw, "after"), NEW token,
           token # Empty, <<token>> # NotText,
           NEW next, Resumes(next, raw, token)
    PROVE  Occurs(next, "after") /\ IsItems(next, "after") /\ Token(next) = token
<1> DEFINE n == Len(raw)
           entry == After(token)
<1>1. /\ n \in Nat /\ DOMAIN raw = 1..n /\ DOMAIN next = 1..(n + 1)
      /\ \A i \in 1..n : next[i] = raw[i]
      /\ next[n + 1] = entry
  BY ContinuedEntries
<1>2. /\ entry.filter = FALSE /\ entry.value.array = FALSE
      /\ entry.value.items = <<<<token>>>> /\ entry.name = "after"
  BY DEF After
<1> HIDE DEF n, entry
<1>3. \A i \in DOMAIN raw : ~(~raw[i].filter /\ raw[i].name = "after")
  BY DEF Occurs, Occurrences
<1>4. Occurrences(next, "after") = {n + 1}
  <2>1. n + 1 \in DOMAIN next
    BY <1>1
  <2>2. \A i \in DOMAIN next : i \in DOMAIN raw \/ i = n + 1
    BY <1>1
  <2> QED BY <1>1, <1>2, <1>3, <2>1, <2>2 DEF Occurrences
<1>5. Occurs(next, "after") /\ OccursOnce(next, "after")
  <2>1. n + 1 \in DOMAIN next /\ ~next[n + 1].value.array
    BY <1>1, <1>2
  <2> QED BY <1>4, <2>1 DEF Occurs, OccursOnce
<1>6. Scalar(next, "after") = <<token>>
  <2>1. (CHOOSE i \in Occurrences(next, "after") : TRUE) = n + 1
    BY <1>4
  <2>2. Scalar(next, "after") = next[n + 1].value.items[1]
    BY <2>1 DEF Scalar
  <2> QED BY <1>1, <1>2, <2>2
<1>7. Members(<<token>>) = {token}
  BY DEF Members
<1> QED BY <1>5, <1>6, <1>7 DEF IsItems, IsText, Token

(* The filters of a query are those of its continuation.                   *)
LEMMA ContinuedFilters ==
    ASSUME NEW raw, IsSequence(raw), NEW token, NEW next,
           Resumes(next, raw, token), NEW d
    PROVE  /\ FiltersAreAllowed(d, next) <=> FiltersAreAllowed(d, raw)
           /\ FilterPredicates(next) = FilterPredicates(raw)
<1> DEFINE n == Len(raw)
<1>1. /\ n \in Nat /\ DOMAIN raw = 1..n /\ DOMAIN next = 1..(n + 1)
      /\ \A i \in 1..n : next[i] = raw[i]
      /\ next[n + 1] = After(token)
  BY ContinuedEntries
<1> HIDE DEF n
<1>2. ~next[n + 1].filter
  <2>1. After(token).filter = FALSE
    BY DEF After
  <2> QED BY <1>1, <2>1
<1>3. \A i \in DOMAIN next : i \in DOMAIN raw \/ i = n + 1
  BY <1>1
<1>4. \A i \in DOMAIN raw : i \in DOMAIN next /\ next[i] = raw[i]
  BY <1>1
<1>5. FirstFilters(next) = FirstFilters(raw)
  <2>1. \A i \in DOMAIN raw : \A j \in 1..(i - 1) : next[j] = raw[j]
    BY <1>1
  <2>2. {i \in DOMAIN next : next[i].filter
            /\ \A j \in 1..(i - 1) : ~SameFilter(next[j], next[i])}
           = {i \in DOMAIN raw : raw[i].filter
                /\ \A j \in 1..(i - 1) : ~SameFilter(raw[j], raw[i])}
    BY <1>2, <1>3, <1>4, <2>1
  <2> QED BY <2>2 DEF FirstFilters
<1>6. ASSUME NEW i \in DOMAIN raw PROVE Operands(next, i) = Operands(raw, i)
  <2> DEFINE same == {j \in DOMAIN raw : SameFilter(raw[j], raw[i])}
             chosen == InSequence(same)
  <2>1. {j \in DOMAIN next : SameFilter(next[j], next[i])} = same
    BY <1>2, <1>3, <1>4 DEF SameFilter
  <2>2. \A k \in DOMAIN chosen : chosen[k] \in DOMAIN raw
    <3>1. same \in SUBSET (1..n)
      BY <1>1
    <3> HIDE DEF same
    <3>2. chosen \in [1..Cardinality(same) -> same]
      BY <1>1, <3>1, Places_InSequence
    <3> HIDE DEF chosen
    <3> QED BY <1>1, <3>1, <3>2
  <2>3. Operands(next, i) = [k \in DOMAIN chosen |-> next[chosen[k]].value]
    BY <2>1 DEF Operands
  <2>4. Operands(raw, i) = [k \in DOMAIN chosen |-> raw[chosen[k]].value]
    BY DEF Operands
  <2> HIDE DEF chosen
  <2> QED BY <1>4, <2>2, <2>3, <2>4
<1> DEFINE first == FirstFilters(raw)
<1>7. \A k \in DOMAIN first : first[k] \in DOMAIN raw
  BY FirstFiltersAre
<1>8. \A k \in Members(first) : k \in DOMAIN raw
  BY <1>7 DEF Members
<1> HIDE DEF first
<1>9. FiltersAreAllowed(d, next) <=> FiltersAreAllowed(d, raw)
  BY <1>4, <1>5, <1>6, <1>8 DEF FiltersAreAllowed, first
<1>10. \A k \in DOMAIN raw : FilterPredicate(next, k) = FilterPredicate(raw, k)
  BY <1>4, <1>6 DEF FilterPredicate
<1>11. FilterPredicates(next) = FilterPredicates(raw)
  BY <1>5, <1>7, <1>10 DEF FilterPredicates, first
<1> QED BY <1>9, <1>11

\* A cursor that encodeCrudCursor made for a binding.
IsTokenOf(token, binding) ==
    token # NoToken /\ \E row : token = NextCursor(binding, row)

LEMMA TokensAreBound ==
    ASSUME MarkersAreApart, NEW binding, NEW token, IsTokenOf(token, binding)
    PROVE  IsBoundTo(token, binding) /\ token # Empty
<1>1. PICK row : token = NextCursor(binding, row)
  BY DEF IsTokenOf
<1> DEFINE values == OrderValues(row, binding.order)
           cursor == [resource |-> binding.resource, order |-> binding.order,
                      values |-> values]
<1>2. token = Encode(binding, values)
  BY <1>1 DEF NextCursor
<1> HIDE DEF values
<1>3. /\ cursor.resource = binding.resource /\ cursor.order = binding.order
      /\ cursor.values = values
  OBVIOUS
<1>4. cursor # Malformed /\ cursor # Empty
  BY DEF MarkersAreApart
<1>5. token # NoToken
  BY DEF IsTokenOf
<1>6. FixedValuesAgree(binding, values) /\ token = Sealed(cursor)
  BY <1>2, <1>5 DEF Encode
<1> HIDE DEF cursor
<1>7. ShapeIsSound(cursor) /\ token = cursor
  BY <1>5, <1>6 DEF Sealed
<1>8. Len(token.values) = Len(binding.order)
  BY <1>3, <1>7 DEF ShapeIsSound
<1> QED BY <1>3, <1>4, <1>6, <1>7, <1>8 DEF IsBoundTo, Decodes

\* The page that a query to r asks for.
Asked(r, raw, parent) ==
    Pagination(Definition(r), raw, ParserOptions(Definition(r), parent))

(* The page that a continued list asks for is the list's next one.         *)
LEMMA ContinuedPage ==
    ASSUME IsCoherent, NEW r \in Bound, NEW parent,
           NEW raw, IsSequence(raw), ~Occurs(raw, "after"),
           Asked(r, raw, parent) # Refused,
           Asked(r, raw, parent).mode = "cursor",
           NEW token, token # Empty, <<token>> # NotText,
           NEW next, Resumes(next, raw, token)
    PROVE  Asked(r, next, parent)
              = [kind |-> "query", mode |-> "cursor",
                 limit |-> Asked(r, raw, parent).limit, after |-> token]
<1> DEFINE page == Asked(r, raw, parent)
           d == Definition(r)
           options == ParserOptions(d, parent)
           limit == Limit(d, raw, options)
<1>1. /\ ConfiguredLimit(d, options) \in 1..MaxSafe
      /\ ConfiguredMaximum(d, options) \in ConfiguredLimit(d, options)..MaxSafe
      /\ CursorMode(d) => ConfiguredMaximum(d, options) # MaxSafe
  BY LimitsAreInOrder
<1>2. /\ page = Pagination(d, raw, options) /\ IsPage(d, raw, page)
      /\ page # Refused /\ page.mode = "cursor"
  BY PagesAreSound DEF Asked
<1> HIDE DEF d, options, page
<1>3. /\ page = IF Mode(d, raw) = "cursor" THEN CursorPage(d, raw, limit)
                                           ELSE OffsetPage(d, raw, limit)
      /\ Occurs(raw, "limit") =>
            IsNumber(raw, "limit", ConfiguredMaximum(d, options))
  BY <1>1, <1>2 DEF Pagination
<1>4. CursorMode(d) /\ ~Occurs(raw, "page")
  BY <1>2 DEF IsPage
<1>5. Mode(d, raw) = "cursor"
  BY <1>4 DEF Mode
<1>6. limit \in 1..MaxSafe /\ limit # MaxSafe
  BY <1>1, <1>3, <1>4, MaxSafeAssumption DEF Limit, IsNumber
<1>7. page.limit = limit
  <2> HIDE DEF limit
  <2>1. page = [kind |-> "query", mode |-> "cursor", limit |-> limit,
                after |-> Token(raw)]
    BY <1>3, <1>4, <1>5, <1>6 DEF CursorPage
  <2> QED BY <2>1
<1>8. /\ ~Occurs(next, "page")
      /\ Occurs(next, "limit") <=> Occurs(raw, "limit")
      /\ Occurs(next, "limit") => Scalar(next, "limit") = Scalar(raw, "limit")
      /\ \A maximum : IsNumber(next, "limit", maximum)
                         <=> IsNumber(raw, "limit", maximum)
  BY <1>4, ContinuedParameters
<1>9. Limit(d, next, options) = limit
  BY <1>8 DEF Limit
<1>10. Occurs(next, "after") /\ IsItems(next, "after") /\ Token(next) = token
  BY ContinuedToken
<1>11. Mode(d, next) = "cursor"
  BY <1>10 DEF Mode
<1> HIDE DEF limit
<1>12. CursorPage(d, next, limit)
          = [kind |-> "query", mode |-> "cursor", limit |-> limit,
             after |-> token]
  BY <1>4, <1>6, <1>10 DEF CursorPage
<1>13. Pagination(d, next, options) = CursorPage(d, next, limit)
  BY <1>1, <1>3, <1>8, <1>9, <1>11 DEF Pagination
<1> QED BY <1>7, <1>12, <1>13 DEF d, options, page, Asked

LEMMA ContinuedSort ==
    ASSUME NEW raw, IsSequence(raw), NEW token,
           NEW next, Resumes(next, raw, token), NEW d, NEW mode
    PROVE  SortItems(d, next, mode) = SortItems(d, raw, mode)
<1>1. /\ Occurs(next, "sort") <=> Occurs(raw, "sort")
      /\ Occurs(raw, "sort") => Scalar(next, "sort") = Scalar(raw, "sort")
  BY ContinuedParameters
<1> QED BY <1>1 DEF SortItems

(* What a list allows, its continuation is allowed.                        *)
LEMMA ContinuedIsAllowed ==
    ASSUME NEW d, NEW raw, IsSequence(raw), NEW token,
           NEW next, Resumes(next, raw, token),
           NEW mode, IsAllowed(d, raw, mode)
    PROVE  IsAllowed(d, next, mode)
<1>1. SortItems(d, next, mode) = SortItems(d, raw, mode)
  BY ContinuedSort
<1>2. SortIsAllowed(d, next, mode)
  <2>1. /\ Occurs(next, "sort") <=> Occurs(raw, "sort")
        /\ IsItems(next, "sort") <=> IsItems(raw, "sort")
    BY ContinuedParameters
  <2> QED BY <1>1, <2>1 DEF SortIsAllowed, IsAllowed
<1>3. FiltersAreAllowed(d, next)
  BY ContinuedFilters DEF IsAllowed
<1>4. /\ SearchIsAllowed(d, next)
      /\ Occurs(next, "search") /\ d.search.fullText => mode = "offset"
  <2>1. /\ Occurs(next, "search") <=> Occurs(raw, "search")
        /\ IsText(next, "search") <=> IsText(raw, "search")
        /\ Occurs(raw, "search") =>
              Scalar(next, "search") = Scalar(raw, "search")
    BY ContinuedParameters
  <2> QED BY <2>1 DEF SearchIsAllowed, IsAllowed
<1>5. IncludesAreAllowed(d, next)
  <2>1. /\ Occurs(next, "include") <=> Occurs(raw, "include")
        /\ IsItems(next, "include") <=> IsItems(raw, "include")
        /\ Occurs(raw, "include") =>
              Scalar(next, "include") = Scalar(raw, "include")
    BY ContinuedParameters
  <2> QED BY <2>1 DEF IncludesAreAllowed, IsAllowed
<1>6. DeletedIsAllowed(d, next)
  <2>1. /\ Occurs(next, "deleted") <=> Occurs(raw, "deleted")
        /\ IsText(next, "deleted") <=> IsText(raw, "deleted")
        /\ Occurs(raw, "deleted") =>
              Scalar(next, "deleted") = Scalar(raw, "deleted")
    BY ContinuedParameters
  <2> QED BY <2>1 DEF DeletedIsAllowed, IsAllowed
<1> QED BY <1>2, <1>3, <1>4, <1>5, <1>6 DEF IsAllowed

(* A list that is answered with a token is answered when it is sent again  *)
(* with it, and in the same order.                                         *)
LEMMA ContinuationsAreAccepted ==
    ASSUME MarkersAreApart, IsCoherent, RowsOK, NEW r \in Bound, NEW parent,
           NEW raw, IsRawQuery(raw), ~Occurs(raw, "after"),
           NEW q, q = Query(r, raw, parent), q # Refused,
           q.page.mode = "cursor",
           NEW token, IsTokenOf(token, BindingOf(r, q, parent)),
           NEW next, Resumes(next, raw, token),
           NEW s, s = Query(r, next, parent)
    PROVE  /\ s # Refused /\ s.kind = "query" /\ s.page.mode = "cursor"
           /\ s.order = q.order
<1> DEFINE d == Definition(r)
           options == ParserOptions(d, parent)
           order == BuildOrder(d, SortItems(d, raw, "cursor"))
           page == [kind |-> "query", mode |-> "cursor", limit |-> q.page.limit,
                    after |-> token]
<1>1. IsListQuery(r, raw, parent, q)
  BY QueriesAreSound
<1>2. /\ IsAllowed(d, raw, "cursor") /\ ParametersAreKnown(raw)
      /\ q.order = order /\ CursorMode(d)
  BY <1>1 DEF IsListQuery, IsPage
<1>3. /\ IsBoundTo(token, BindingOf(r, q, parent)) /\ token # Empty
      /\ <<token>> # NotText /\ token # NoToken
  BY TokensAreBound DEF MarkersAreApart, IsTokenOf
<1>4. HasCodec
  BY <1>2, LimitsAreInOrder
<1>5. IsSequence(raw)
  BY DEF IsRawQuery
<1>6. q.page = Asked(r, raw, parent) /\ q.page # Refused
  <2> DEFINE asked == Asked(r, raw, parent)
  <2>1. asked = Pagination(d, raw, options)
    BY DEF Asked
  <2>2. asked = Refused \/ IsPage(d, raw, asked)
    BY <2>1, PagesAreSound
  <2> HIDE DEF asked, options
  <2>3. q = ParseKnown(d, raw, options, asked)
    BY <1>2, <2>1 DEF Query, ParseList, options
  <2>4. asked.kind = "query"
    BY <2>2, <2>3 DEF ParseKnown, Refused, IsPage
  <2>5. q.page = asked
    BY <2>3, <2>4 DEF ParseKnown, ParsePage, ListQueryOf
  <2> QED BY <2>4, <2>5 DEF asked, Refused
<1>7. Pagination(d, next, options) = page
  <2>1. Asked(r, raw, parent) # Refused /\ Asked(r, raw, parent).mode = "cursor"
    BY <1>6
  <2>2. Asked(r, next, parent)
           = [kind |-> "query", mode |-> "cursor",
              limit |-> Asked(r, raw, parent).limit, after |-> token]
    BY <1>3, <1>5, <2>1, ContinuedPage
  <2> QED BY <1>6, <2>2 DEF Asked
<1>8. ParametersAreKnown(next)
  <2> DEFINE n == Len(raw)
  <2>1. /\ DOMAIN raw = 1..n /\ DOMAIN next = 1..(n + 1) /\ n \in Nat
        /\ \A i \in 1..n : next[i] = raw[i]
        /\ next[n + 1] = After(token)
    BY <1>5, ContinuedEntries
  <2>2. After(token).filter = FALSE /\ After(token).name = "after"
    BY DEF After
  <2> HIDE DEF n
  <2>3. ASSUME NEW i \in DOMAIN next
        PROVE  IF next[i].filter THEN next[i].name # NotText
                                 ELSE next[i].name \in RootParameters
    <3>1. CASE i \in DOMAIN raw
      BY <1>2, <2>1, <3>1 DEF ParametersAreKnown
    <3>2. CASE i = n + 1
      BY <2>1, <2>2, <3>2 DEF RootParameters
    <3> QED BY <2>1, <3>1, <3>2
  <2> QED BY <2>3 DEF ParametersAreKnown
<1>9. IsAllowed(d, next, "cursor")
  BY <1>2, <1>5, ContinuedIsAllowed
<1>10. SortItems(d, next, "cursor") = SortItems(d, raw, "cursor")
  BY <1>5, ContinuedSort
<1>11. page.kind = "query" /\ page.mode = "cursor" /\ page.after = token
  OBVIOUS
<1> HIDE DEF page
<1>12. CursorIsValid(d, page, order, options)
  <2>1. /\ options.codec = HasCodec
        /\ [resource |-> d.name, order |-> order, fixed |-> options.fixed]
              = BindingOf(r, q, parent)
    BY <1>2 DEF ParserOptions, BindingOf
  <2> HIDE DEF options, order
  <2> QED BY <1>3, <1>4, <1>11, <2>1 DEF CursorIsValid
<1> HIDE DEF options
<1>13. s = ParseKnown(d, next, options, page)
  BY <1>7, <1>8 DEF Query, ParseList, options
<1>14. s = ParsePage(d, next, options, page, order)
  BY <1>9, <1>10, <1>11, <1>13 DEF ParseKnown
<1> HIDE DEF order
<1>15. s = ListQueryOf(next, page, order)
  BY <1>9, <1>11, <1>12, <1>14 DEF ParsePage
<1>16. s.kind = "query" /\ s.page = page /\ s.order = order
  BY <1>15 DEF ListQueryOf
<1> QED BY <1>2, <1>11, <1>16 DEF Refused

(* A list without parameters is accepted.                                  *)
LEMMA PlainListsAreAccepted ==
    ASSUME IsCoherent, RowsOK, NEW r \in Bound, NEW parent
    PROVE  Query(r, <<>>, parent) # Refused
<1> DEFINE d == Definition(r)
           options == ParserOptions(d, parent)
           raw == <<>>
           limit == Limit(d, raw, options)
           page == Pagination(d, raw, options)
<1>1. Accepted(d) /\ HasSequences(d)
  BY RowsAreStorage
<1>2. /\ ConfiguredLimit(d, options) \in 1..MaxSafe
      /\ ConfiguredMaximum(d, options) \in ConfiguredLimit(d, options)..MaxSafe
      /\ CursorMode(d) => ConfiguredMaximum(d, options) # MaxSafe
  BY LimitsAreInOrder
<1>3. \A name : ~Occurs(raw, name)
  BY DEF Occurs, Occurrences
<1>4. IsRawQuery(raw) /\ ParametersAreKnown(raw)
  BY DEF IsRawQuery, IsSequence, ParametersAreKnown
<1> HIDE DEF d, options, raw
<1>5. limit = ConfiguredLimit(d, options) /\ Page(raw) = 1 /\ Token(raw) = NoToken
  BY <1>3 DEF Limit, Page, Token
<1>6. page.kind = "query" /\ ~Continues(page)
  <2>1. /\ limit \in 1..MaxSafe
        /\ CursorMode(d) => limit # MaxSafe
    BY <1>2, <1>5, MaxSafeAssumption
  <2>2. page = IF CursorMode(d) THEN CursorPage(d, raw, limit)
                                ELSE OffsetPage(d, raw, limit)
    BY <1>2, <1>3 DEF Pagination, Mode
  <2> HIDE DEF limit, page
  <2>3. CASE CursorMode(d)
    <3>1. page = [kind |-> "query", mode |-> "cursor", limit |-> limit,
                  after |-> NoToken]
      BY <1>3, <1>5, <2>1, <2>2, <2>3 DEF CursorPage
    <3> QED BY <3>1 DEF Continues
  <2>4. CASE ~CursorMode(d)
    <3>1. OffsetMode(d)
      BY <1>1, <2>4 DEF Accepted, QueryIsSound
    <3>2. OffsetIsSafe(1, limit)
      BY <2>1, MaxSafeAssumption DEF OffsetIsSafe
    <3>3. page = [kind |-> "query", mode |-> "offset", limit |-> limit,
                  page |-> 1]
      BY <1>3, <1>5, <2>2, <2>4, <3>1, <3>2 DEF OffsetPage
    <3> QED BY <3>3 DEF Continues
  <2> QED BY <2>3, <2>4
<1> DEFINE mode == page.mode
           items == SortItems(d, raw, mode)
<1>7. SortIsAllowed(d, raw, mode)
  <2>1. SortIsSound(d) /\ CursorModeIsSound(d)
    BY <1>1 DEF Accepted, QueryIsSound
  <2>2. mode = "cursor" => CursorMode(d)
    BY <1>6, PagesAreSound DEF IsPage, Refused, d, options
  <2> HIDE DEF mode
  <2>3. CASE DefaultSort(d) # None
    <3>1. items = DefaultSort(d) /\ d.sort # None
      BY <1>3, <2>3 DEF SortItems, DefaultSort
    <3> HIDE DEF items
    <3> QED BY <1>3, <2>1, <2>2, <2>3, <3>1
            DEF SortIsAllowed, SortIsSound, CursorModeIsSound, items
  <2>4. CASE DefaultSort(d) = None /\ mode = "cursor" /\ d.sort # None
    <3> DEFINE c == d.sort.cursor
    <3>1. items = Ascending(c)
      BY <1>3, <2>4 DEF SortItems
    <3>2. IsSequence(c)
      BY <1>1, <2>4 DEF HasSequences
    <3> HIDE DEF c
    <3>3. FieldsIn(Ascending(c)) = [i \in DOMAIN c |-> c[i]]
      BY DEF FieldsIn, Ascending
    <3>4. DOMAIN c = 1..Len(c)
      BY <3>2, SequencesAre
    <3>5. FieldsIn(items) = c
      BY <3>1, <3>2, <3>3, <3>4 DEF IsSequence
    <3>6. /\ Unique(c) /\ Members(c) \subseteq SortFields(d)
          /\ Members(c) \subseteq CursorSafe(d)
      BY <2>1, <2>4 DEF SortIsSound, CursorFields, CursorSafe, c
    <3> QED BY <1>3, <3>5, <3>6 DEF SortIsAllowed
  <2>5. CASE DefaultSort(d) = None /\ ~(mode = "cursor" /\ d.sort # None)
    <3>1. items = <<>>
      BY <1>3, <2>5 DEF SortItems
    <3>2. FieldsIn(<<>>) = <<>> /\ Members(<<>>) = {}
      BY DEF FieldsIn, Members
    <3>3. Unique(<<>>)
      BY <3>2, FS_EmptySet DEF Unique
    <3> QED BY <1>3, <3>1, <3>2, <3>3 DEF SortIsAllowed
  <2> QED BY <2>3, <2>4, <2>5
<1>8. FiltersAreAllowed(d, raw)
  <2>1. \A n \in DOMAIN FirstFilters(raw) : FirstFilters(raw)[n] \in DOMAIN raw
    BY <1>4, FirstFiltersAre DEF IsRawQuery
  <2>2. Members(FirstFilters(raw)) = {}
    BY <2>1 DEF Members, raw
  <2> QED BY <2>2 DEF FiltersAreAllowed
<1>9. IsAllowed(d, raw, mode)
  BY <1>3, <1>7, <1>8
     DEF IsAllowed, SearchIsAllowed, IncludesAreAllowed, DeletedIsAllowed
<1> DEFINE order == BuildOrder(d, items)
           q == Query(r, raw, parent)
<1>10. q = ParseKnown(d, raw, options, page)
  BY <1>4 DEF Query, ParseList, d, options
<1> HIDE DEF page, items
<1>11. q = ParsePage(d, raw, options, page, order)
  BY <1>6, <1>10 DEF ParseKnown, items
<1> HIDE DEF order, q
<1>12. q = ListQueryOf(raw, page, order)
  BY <1>6, <1>9, <1>11 DEF ParsePage, CursorIsValid
<1>13. q.kind = "query"
  BY <1>12 DEF ListQueryOf
<1> QED BY <1>13 DEF Refused, q, raw

(* The requests and the writes leave the start's state alone.              *)
LEMMA AppStepsBoot == ASSUME Next PROVE [Boot]_bootVars
  BY DEF Next, Ask, StartWalk, NextPage, Write

(***************************************************************************)
(* The invariant of requests and walks                                     *)
(***************************************************************************)
AnswerOK ==
    \/ answer = Nothing
    \/ /\ walk = NoWalk /\ phase = "ready"
       /\ answer.resource \in Bound /\ answer.raw \in Requests
       /\ answer.page = List(answer.resource, answer.raw, answer.parent)

IsGoing(r, raw, parent, token) ==
    LET q == Query(r, raw, parent)
    IN  /\ r \in Bound /\ raw \in Walks
        /\ q # Refused /\ q.page.mode = "cursor"
        /\ token # NoToken => IsTokenOf(token, BindingOf(r, q, parent))
WalkOK ==
    \/ walk = NoWalk
    \/ /\ answer = Nothing /\ phase = "ready"
       /\ walk.status \in {"going", "ended"}
       /\ IsGoing(walk.resource, walk.raw, walk.parent, walk.token)

AppInv == IInv /\ RowsOK /\ AnswerOK /\ WalkOK

(* A query means the same as long as the application is the same, and is   *)
(* answered the same as long as the rows are.                              *)
LEMMA QueriesAreFixed ==
    ASSUME app' = app
    PROVE  /\ \A r, raw, parent :
                 Query(r, raw, parent)' = Query(r, raw, parent)
           /\ \A r, q, parent :
                 BindingOf(r, q, parent)' = BindingOf(r, q, parent)
           /\ \A r, q, parent :
                 ListPredicate(r, q, parent)' = ListPredicate(r, q, parent)
           /\ \A r, raw, parent, token : IsGoing(r, raw, parent, token)'
                                            = IsGoing(r, raw, parent, token)
<1>1. Bound' = Bound /\ \A r : Definition(r)' = Definition(r)
  BY AppIsFixed
<1>2. \A d, parent : ParserOptions(d, parent)' = ParserOptions(d, parent)
  BY DEF ParserOptions, ModuleLimit, ModuleMaximum, HasCodec
<1>3. \A r, raw, parent : Query(r, raw, parent)' = Query(r, raw, parent)
  BY <1>1, <1>2 DEF Query
<1>4. \A r, q, parent : BindingOf(r, q, parent)' = BindingOf(r, q, parent)
  BY <1>1 DEF BindingOf
<1>5. \A r, q, parent : ListPredicate(r, q, parent)' = ListPredicate(r, q, parent)
  <2>1. \A r : ScopePredicate(r)' = ScopePredicate(r)
    BY DEF ScopePredicate, Binding
  <2> QED BY <1>1, <2>1 DEF ListPredicate
<1>6. \A r, raw, parent, token :
         IsGoing(r, raw, parent, token)' = IsGoing(r, raw, parent, token)
  BY <1>1, <1>3, <1>4 DEF IsGoing
<1> QED BY <1>3, <1>4, <1>5, <1>6

LEMMA ListsAreFixed ==
    ASSUME app' = app, rows' = rows
    PROVE  \A r, raw, parent : List(r, raw, parent)' = List(r, raw, parent)
<1>1. \A predicate : Selected(predicate)' = Selected(predicate)
  BY DEF Selected
<1>2. \A keys, order : InOrder(keys, order)' = InOrder(keys, order)
  BY DEF InOrder
<1>3. \A predicate, order, offset, limit :
         FindMany(predicate, order, offset, limit)'
            = FindMany(predicate, order, offset, limit)
  BY <1>1, <1>2 DEF FindMany
<1>4. \A q, predicate : OffsetAnswer(q, predicate)' = OffsetAnswer(q, predicate)
  BY <1>1, <1>3 DEF OffsetAnswer
<1>5. \A q, data, more, next :
         CursorPageOf(q, data, more, next)' = CursorPageOf(q, data, more, next)
  BY DEF CursorPageOf, HasCodec
<1>6. \A q, binding, found :
         CursorAnswer(q, binding, found)' = CursorAnswer(q, binding, found)
  BY <1>5 DEF CursorAnswer, HasCodec
<1>7. \A d, q, parent, predicate :
         Answered(d, q, parent, predicate)' = Answered(d, q, parent, predicate)
  BY <1>3, <1>4, <1>6 DEF Answered
<1>8. \A r, q, parent : ListFor(r, q, parent)' = ListFor(r, q, parent)
  BY <1>7, AppIsFixed, QueriesAreFixed DEF ListFor
<1> QED BY <1>8, QueriesAreFixed DEF List

(* A page of a walk.                                                       *)
LEMMA PagesContinue ==
    ASSUME IsEvaluation, MarkersAreApart, IsCoherent, RowsOK,
           NEW r, NEW raw, NEW parent, NEW token, IsGoing(r, raw, parent, token),
           NEW next, IF token = NoToken THEN next = raw
                                        ELSE Resumes(next, raw, token),
           NEW page, page = List(r, next, parent)
    PROVE  page.kind = "page" /\ IsGoing(r, raw, parent, page.nextCursor)
<1> DEFINE q == Query(r, raw, parent)
           s == Query(r, next, parent)
<1>1. /\ r \in Bound /\ raw \in Walks /\ IsRawQuery(raw)
      /\ ~Occurs(raw, "after") /\ q # Refused /\ q.page.mode = "cursor"
      /\ token # NoToken => IsTokenOf(token, BindingOf(r, q, parent))
  BY RequestsAssumption DEF IsGoing
<1>2. IsRawQuery(next)
  BY <1>1, ContinuedIsRaw
<1>3. s # Refused /\ s.page.mode = "cursor" /\ s.order = q.order
  <2>1. CASE token = NoToken
    BY <1>1, <2>1
  <2>2. CASE token # NoToken
    <3> HIDE DEF q, s
    <3>1. q = Query(r, raw, parent) /\ s = Query(r, next, parent)
      BY DEF q, s
    <3> QED BY <1>1, <2>2, <3>1, ContinuationsAreAccepted
  <2> QED BY <2>1, <2>2
<1> HIDE DEF q
<1>4. IsAnswer(r, parent, s, page)
  <2> HIDE DEF s
  <2>1. s = Query(r, next, parent)
    BY DEF s
  <2> QED BY <1>1, <1>2, <1>3, <2>1, ListsAreAnswered
<1>5. BindingOf(r, s, parent) = BindingOf(r, q, parent)
  BY <1>3 DEF BindingOf
<1> HIDE DEF s
<1>6. /\ page.kind = "page"
      /\ page.nextCursor # NoToken =>
            IsTokenOf(page.nextCursor, BindingOf(r, q, parent))
  BY <1>3, <1>4, <1>5 DEF IsAnswer, IsTokenOf
<1> QED BY <1>1, <1>6 DEF IsGoing, q

LEMMA AppInvInit == AppInit => AppInv
<1> SUFFICES ASSUME AppInit PROVE AppInv
  OBVIOUS
<1>1. IInv
  BY InitInv DEF AppInit
<1>2. app \in Applications /\ rows \in app.tables
  BY DEF AppInit, Init
<1>3. RowsOK
  BY <1>2, TablesAssumption DEF RowsOK, Stored
<1> QED BY <1>1, <1>3 DEF AppInv, AnswerOK, WalkOK, AppInit

(* A ready application stays as it is.                                     *)
LEMMA ReadyStays ==
    ASSUME phase = "ready", [Boot]_bootVars PROVE UNCHANGED bootVars
  BY DEF Boot, bootVars, Define, DefineThrows, ConstructService,
         ConstructServiceThrows, CanConstruct, Register, RegisterThrows,
         CanRegister, ForFeature, ForFeatureThrows, CanImport,
         StartInstantiation, ResolveOptions, ResolveOptionsThrows,
         OnApplicationBootstrap, OnApplicationBootstrapThrows, CanBootstrap

LEMMA AppIsKept == ASSUME [Boot]_bootVars PROVE app' = app
  BY DEF Boot, bootVars, Define, DefineThrows, ConstructService,
         ConstructServiceThrows, Register, RegisterThrows, ForFeature,
         ForFeatureThrows, StartInstantiation, ResolveOptions,
         ResolveOptionsThrows, OnApplicationBootstrap,
         OnApplicationBootstrapThrows, Throw

LEMMA RowsInv == ASSUME AppInv, [Next]_appVars PROVE RowsOK'
<1>1. app' = app /\ Stored(app)' = Stored(app)
  <2>1. app' = app
    BY AppIsKept, AppStepsBoot DEF appVars, bootVars
  <2> QED BY <2>1 DEF Stored
<1>2. CASE rows' = rows
  BY <1>1, <1>2 DEF AppInv, RowsOK
<1>3. ASSUME NEW k \in Keys, NEW row \in Records \cup {Gone}, Write(k, row)
      PROVE  RowsOK'
  <2>1. rows' = [rows EXCEPT ![k] = row] /\ (row # Gone => row.id = k)
    BY <1>3 DEF Write
  <2>2. row # Gone => row \in Stored(app)
    BY DEF Stored
  <2> QED BY <1>1, <2>1, <2>2 DEF AppInv, RowsOK
<1> QED BY <1>2, <1>3 DEF Next, appVars, Ask, StartWalk, NextPage

(* A request is answered when the application is ready, and nothing        *)
(* happens after it.                                                       *)
LEMMA AnswerInv == ASSUME AppInv, [Next]_appVars PROVE AnswerOK'
<1>1. [Boot]_bootVars
  BY AppStepsBoot DEF appVars, bootVars
<1>2. CASE UNCHANGED appVars
  <2>1. ASSUME answer # Nothing PROVE AnswerOK'
    <3>1. /\ walk = NoWalk /\ phase = "ready"
          /\ answer.resource \in Bound /\ answer.raw \in Requests
          /\ answer.page = List(answer.resource, answer.raw, answer.parent)
      BY <2>1 DEF AppInv, AnswerOK
    <3>2. PICK r, raw, parent, page :
             /\ r = answer.resource /\ raw = answer.raw
             /\ parent = answer.parent /\ page = answer.page
      OBVIOUS
    <3>3. List(r, raw, parent)' = List(r, raw, parent) /\ Bound' = Bound
      BY <1>2, ListsAreFixed, AppIsFixed DEF appVars
    <3>4. /\ answer' = answer /\ walk' = walk /\ phase' = phase
      BY <1>2 DEF appVars
    <3> QED BY <3>1, <3>2, <3>3, <3>4 DEF AnswerOK
  <2> QED BY <1>2, <2>1 DEF appVars, AnswerOK
<1>3. CASE Boot /\ UNCHANGED <<rows, answer, walk, writes>>
  <2>1. CASE answer = Nothing
    BY <1>3, <2>1 DEF AnswerOK
  <2>2. CASE answer # Nothing
    <3>1. phase = "ready"
      BY <2>2 DEF AppInv, AnswerOK
    <3>2. UNCHANGED appVars
      BY <1>1, <1>3, <3>1, ReadyStays DEF appVars, bootVars
    <3> QED BY <1>2, <3>2
  <2> QED BY <2>1, <2>2
<1>4. ASSUME NEW r \in Bound, NEW parent, NEW raw \in Requests,
             Ask(r, raw, parent)
      PROVE  AnswerOK'
  <2>1. /\ walk' = walk /\ walk = NoWalk /\ phase' = phase /\ phase = "ready"
        /\ app' = app /\ rows' = rows
        /\ answer' = [page |-> List(r, raw, parent), resource |-> r,
                      raw |-> raw, parent |-> parent]
    BY <1>4 DEF Ask, IsIdle, bootVars
  <2>2. List(r, raw, parent)' = List(r, raw, parent) /\ Bound' = Bound
    BY <2>1, ListsAreFixed, AppIsFixed
  <2>3. /\ answer'.page = List(r, raw, parent) /\ answer'.resource = r
        /\ answer'.raw = raw /\ answer'.parent = parent
    BY <2>1
  <2> QED BY <2>1, <2>2, <2>3 DEF AnswerOK
<1>5. ASSUME NEW r \in Bound, NEW parent, NEW raw \in Walks,
             StartWalk(r, raw, parent)
      PROVE  AnswerOK'
  BY <1>5 DEF StartWalk, IsIdle, AnswerOK
<1>6. ASSUME NextPage \/ \E k \in Keys, row \in Records \cup {Gone} : Write(k, row)
      PROVE  AnswerOK'
  <2>1. walk.status = "going" /\ answer' = answer
    BY <1>6 DEF NextPage, Write
  <2>2. walk # NoWalk
    BY <2>1 DEF NoWalk
  <2> QED BY <2>1, <2>2 DEF AppInv, AnswerOK
<1> QED BY <1>2, <1>3, <1>4, <1>5, <1>6 DEF Next

LEMMA WalkInv ==
    ASSUME IsEvaluation, MarkersAreApart, AppInv, [Next]_appVars PROVE WalkOK'
<1>1. [Boot]_bootVars
  BY AppStepsBoot DEF appVars, bootVars
<1>2. ASSUME walk # NoWalk, UNCHANGED <<bootVars, answer>>, NEW status,
             status \in {"going", "ended"}, walk'.status = status,
             NEW token, walk'.token = token,
             walk'.resource = walk.resource, walk'.raw = walk.raw,
             walk'.parent = walk.parent,
             IsGoing(walk.resource, walk.raw, walk.parent, token)
      PROVE  WalkOK'
  <2>1. answer = Nothing /\ phase = "ready"
    BY <1>2 DEF AppInv, WalkOK
  <2>2. PICK r, raw, parent : /\ r = walk.resource /\ raw = walk.raw
                              /\ parent = walk.parent
    OBVIOUS
  <2>3. IsGoing(r, raw, parent, token)' = IsGoing(r, raw, parent, token)
    BY <1>2, QueriesAreFixed DEF bootVars
  <2> QED BY <1>2, <2>1, <2>2, <2>3 DEF WalkOK, bootVars
<1>3. CASE Boot /\ UNCHANGED <<rows, answer, walk, writes>>
  <2>1. CASE walk = NoWalk
    BY <1>3, <2>1 DEF WalkOK
  <2>2. CASE walk # NoWalk
    <3>1. phase = "ready" /\ walk.status \in {"going", "ended"}
          /\ IsGoing(walk.resource, walk.raw, walk.parent, walk.token)
      BY <2>2 DEF AppInv, WalkOK
    <3>2. UNCHANGED bootVars
      BY <1>1, <3>1, ReadyStays
    <3> QED BY <1>2, <1>3, <2>2, <3>1, <3>2
  <2> QED BY <2>1, <2>2
<1>4. CASE UNCHANGED appVars
  <2>1. CASE walk = NoWalk
    BY <1>4, <2>1 DEF WalkOK, appVars
  <2>2. CASE walk # NoWalk
    <3>1. walk.status \in {"going", "ended"}
          /\ IsGoing(walk.resource, walk.raw, walk.parent, walk.token)
      BY <2>2 DEF AppInv, WalkOK
    <3> QED BY <1>2, <1>4, <2>2, <3>1 DEF appVars, bootVars
  <2> QED BY <2>1, <2>2
<1>5. ASSUME NEW r \in Bound, NEW parent, NEW raw \in Requests,
             Ask(r, raw, parent)
      PROVE  WalkOK'
  BY <1>5 DEF Ask, IsIdle, WalkOK
<1>6. ASSUME NEW r \in Bound, NEW parent, NEW raw \in Walks,
             StartWalk(r, raw, parent)
      PROVE  WalkOK'
  <2>1. PICK q : /\ q = Query(r, raw, parent) /\ IsCursorQuery(q)
                 /\ walk' = WalkOf(r, raw, parent, q)
    BY <1>6 DEF StartWalk
  <2>2. /\ answer' = Nothing /\ phase' = "ready" /\ app' = app
    BY <1>6 DEF StartWalk, IsIdle, bootVars
  <2>3. q # Refused /\ q.page.mode = "cursor"
    BY <2>1 DEF IsCursorQuery, Refused
  <2>4. IsGoing(r, raw, parent, NoToken)
    BY <2>1, <2>3 DEF IsGoing
  <2>5. IsGoing(r, raw, parent, NoToken)'
    BY <2>2, <2>4, QueriesAreFixed
  <2>6. /\ walk'.status = "going" /\ walk'.resource = r /\ walk'.raw = raw
        /\ walk'.parent = parent /\ walk'.token = NoToken
    BY <2>1 DEF WalkOf
  <2> QED BY <2>2, <2>5, <2>6 DEF WalkOK
<1>7. CASE NextPage
  <2>1. walk.status = "going" /\ walk # NoWalk
    BY <1>7 DEF NextPage, NoWalk
  <2>2. /\ phase = "ready"
        /\ IsGoing(walk.resource, walk.raw, walk.parent, walk.token)
    BY <2>1 DEF AppInv, WalkOK
  <2>3. IsCoherent /\ RowsOK
    BY <2>2 DEF AppInv, IInv, VerdictHasNoOrder
  <2>4. PICK page : /\ page = List(walk.resource, Continued, walk.parent)
                    /\ walk' = IF page.kind = "page" THEN Shown(page)
                               ELSE [walk EXCEPT !.status = page.kind]
    BY <1>7 DEF NextPage
  <2>5. page.kind = "page"
        /\ IsGoing(walk.resource, walk.raw, walk.parent, page.nextCursor)
    <3>1. PICK r, raw, parent, token, next :
             /\ r = walk.resource /\ raw = walk.raw /\ parent = walk.parent
             /\ token = walk.token /\ next = Continued
      OBVIOUS
    <3>2. IF token = NoToken THEN next = raw ELSE Resumes(next, raw, token)
      BY <3>1 DEF Continued, Resumes
    <3>3. IsGoing(r, raw, parent, token) /\ page = List(r, next, parent)
      BY <2>2, <2>4, <3>1
    <3>4. page.kind = "page" /\ IsGoing(r, raw, parent, page.nextCursor)
      BY <2>3, <3>2, <3>3, PagesContinue
    <3> QED BY <3>1, <3>4
  <2>6. walk' = Shown(page)
    BY <2>4, <2>5
  <2>7. /\ walk'.status = IF page.nextCursor = NoToken THEN "ended"
                          ELSE walk.status
        /\ walk'.token = page.nextCursor /\ walk'.resource = walk.resource
        /\ walk'.raw = walk.raw /\ walk'.parent = walk.parent
    BY <2>2, <2>6 DEF Shown
  <2> QED BY <1>2, <1>7, <2>1, <2>5, <2>7 DEF NextPage
<1>8. ASSUME NEW k \in Keys, NEW row \in Records \cup {Gone}, Write(k, row)
      PROVE  WalkOK'
  <2>1. walk.status = "going" /\ walk # NoWalk
    BY <1>8 DEF Write, NoWalk
  <2>2. IsGoing(walk.resource, walk.raw, walk.parent, walk.token)
    BY <2>1 DEF AppInv, WalkOK
  <2>3. /\ walk'.status = walk.status /\ walk'.token = walk.token
        /\ walk'.resource = walk.resource /\ walk'.raw = walk.raw
        /\ walk'.parent = walk.parent /\ UNCHANGED <<bootVars, answer>>
    BY <1>8 DEF Write
  <2> QED BY <1>2, <2>1, <2>2, <2>3
<1> QED BY <1>3, <1>4, <1>5, <1>6, <1>7, <1>8 DEF Next

LEMMA AppInvNext ==
    ASSUME IsEvaluation, MarkersAreApart PROVE AppInv /\ [Next]_appVars => AppInv'
<1> SUFFICES ASSUME AppInv, [Next]_appVars PROVE AppInv'
  OBVIOUS
<1>1. [Boot]_bootVars
  BY AppStepsBoot DEF appVars, bootVars
<1>2. IInv'
  BY <1>1, NextInv DEF AppInv
<1> QED BY <1>2, RowsInv, AnswerInv, WalkInv DEF AppInv

(* What the invariant says of an answer: a page, or a refusal of a query   *)
(* that was not empty.                                                     *)
LEMMA AnswersAreSound ==
    ASSUME IsEvaluation, MarkersAreApart, AppInv, answer # Nothing,
           NEW r, r = answer.resource, NEW raw, raw = answer.raw,
           NEW parent, parent = answer.parent, NEW page, page = answer.page,
           NEW q, q = Query(r, raw, parent)
    PROVE  /\ IsCoherent /\ RowsOK /\ r \in Bound /\ IsRawQuery(raw)
           /\ page = List(r, raw, parent)
           /\ \/ q = Refused /\ page = Refused /\ raw # <<>>
              \/ IsListQuery(r, raw, parent, q) /\ IsAnswer(r, parent, q, page)
<1>1. /\ phase = "ready" /\ r \in Bound /\ raw \in Requests
      /\ page = List(r, raw, parent)
  BY DEF AppInv, AnswerOK
<1>2. IsCoherent /\ RowsOK
  BY <1>1 DEF AppInv, IInv, VerdictHasNoOrder
<1>3. IsRawQuery(raw)
  BY <1>1, RequestsAssumption
<1>4. \/ q = Refused /\ page = Refused
      \/ IsListQuery(r, raw, parent, q) /\ IsAnswer(r, parent, q, page)
  BY <1>1, <1>2, <1>3, ListsAreAnswered
<1>5. q = Refused => raw # <<>>
  BY <1>1, <1>2, PlainListsAreAccepted
<1> QED BY <1>1, <1>2, <1>3, <1>4, <1>5

LEMMA AppInvImplies ==
    ASSUME IsEvaluation, MarkersAreApart, AppInv
    PROVE  NoRequestMeetsMisconfiguration /\ OwnRequestsAreAnswered
<1>1. walk.status \notin {"error", "refused"}
  BY DEF AppInv, WalkOK, NoWalk
<1>2. /\ answer.page.kind # "error"
      /\ answer.page.kind = "refused" => answer.raw # <<>>
  <2>1. CASE answer = Nothing
    BY <2>1 DEF Nothing
  <2>2. CASE answer # Nothing
    <3>1. PICK r, raw, parent, page, q :
             /\ r = answer.resource /\ raw = answer.raw
             /\ parent = answer.parent /\ page = answer.page
             /\ q = Query(r, raw, parent)
      OBVIOUS
    <3>2. \/ q = Refused /\ page = Refused /\ raw # <<>>
          \/ IsListQuery(r, raw, parent, q) /\ IsAnswer(r, parent, q, page)
      BY <2>2, <3>1, AnswersAreSound
    <3>3. \/ page.kind = "refused" /\ raw # <<>>
          \/ page.kind = "page"
      BY <3>2 DEF Refused, IsAnswer
    <3> QED BY <3>1, <3>3
  <2> QED BY <2>1, <2>2
<1> QED BY <1>1, <1>2 DEF NoRequestMeetsMisconfiguration, OwnRequestsAreAnswered

(* A coherent application never meets a misconfiguration while it answers  *)
(* a list: every limit, order and cursor it needs can be had.              *)
THEOREM NothingIsMisconfigured ==
    ASSUME IsEvaluation, MarkersAreApart
    PROVE  Spec => []NoRequestMeetsMisconfiguration
<1>1. AppInv => NoRequestMeetsMisconfiguration
  BY AppInvImplies
<1> QED BY <1>1, AppInvInit, AppInvNext, PTL DEF Spec

(* A list without parameters, and the list that a nextCursor continues,    *)
(* are answered with a page.                                               *)
THEOREM OwnRequestsHaveAnswers ==
    ASSUME IsEvaluation, MarkersAreApart
    PROVE  Spec => []OwnRequestsAreAnswered
<1>1. AppInv => OwnRequestsAreAnswered
  BY AppInvImplies
<1> QED BY <1>1, AppInvInit, AppInvNext, PTL DEF Spec

(***************************************************************************)
(* What is documented                                                      *)
(***************************************************************************)
(* The filter of an entry is the same as that of the first entry with its  *)
(* name and operator.                                                      *)
LEMMA FirstFilterExists ==
    ASSUME NEW raw, IsSequence(raw), NEW i \in DOMAIN raw, raw[i].filter
    PROVE  \E k \in Members(FirstFilters(raw)) :
              k \in DOMAIN raw /\ SameFilter(raw[k], raw[i])
<1> DEFINE T == {j \in DOMAIN raw : SameFilter(raw[j], raw[i])}
<1>1. Len(raw) \in Nat /\ DOMAIN raw = 1..Len(raw)
  BY SequencesAre
<1>2. i \in T
  BY DEF SameFilter
<1>3. T \subseteq Nat
  BY <1>1
<1>4. \A j : j \in T <=> j \in DOMAIN raw /\ SameFilter(raw[j], raw[i])
  OBVIOUS
<1> HIDE DEF T
<1>5. PICK k \in T : \A j \in T : ~(<<j, k>> \in OpToRel(<, Nat))
  <2>1. T # {}
    BY <1>2
  <2> QED BY <1>3, <2>1, NatLessThanWellFounded, WFMin, Zenon
<1>6. \A j \in T : ~(j < k)
  BY <1>3, <1>5 DEF OpToRel
<1>7. /\ k \in DOMAIN raw /\ SameFilter(raw[k], raw[i]) /\ k \in 1..Len(raw)
  BY <1>1, <1>4
<1>8. \A j \in 1..(k - 1) : ~SameFilter(raw[j], raw[k])
  <2> SUFFICES ASSUME NEW j \in 1..(k - 1), SameFilter(raw[j], raw[k])
               PROVE  FALSE
    OBVIOUS
  <2>1. j \in DOMAIN raw /\ j < k
    BY <1>1, <1>7
  <2>2. SameFilter(raw[j], raw[i])
    BY <1>7 DEF SameFilter
  <2> QED BY <1>4, <1>6, <2>1, <2>2
<1>9. raw[k].filter
  BY <1>7 DEF SameFilter
<1> QED BY <1>7, <1>8, <1>9, FirstFiltersAre

LEMMA PresentParameters ==
    ASSUME NEW raw, IsRawQuery(raw), NEW name, IsItems(raw, name)
    PROVE  1 \in DOMAIN Scalar(raw, name) /\ IsSequence(Scalar(raw, name))
<1> DEFINE item == Scalar(raw, name)
<1>1. IsItem(item) /\ item # NotText
  BY ScalarsAreItems DEF IsItems, IsText
<1> HIDE DEF item
<1>2. IsSequence(item) /\ item # <<>>
  BY <1>1 DEF IsItem
<1>3. Len(item) \in Nat /\ DOMAIN item = 1..Len(item)
  BY <1>2, SequencesAre
<1>4. Len(item) # 0
  BY <1>2, <1>3 DEF IsSequence
<1> QED BY <1>2, <1>3, <1>4 DEF item

(* Every parameter that the parser takes is documented.                    *)
LEMMA ParametersAreDocumented ==
    ASSUME NEW d, Accepted(d), HasSequences(d), NEW raw, IsRawQuery(raw),
           NEW page, IsPage(d, raw, page), IsAllowed(d, raw, page.mode),
           ParametersAreKnown(raw), NEW i \in DOMAIN raw
    PROVE  Documents(d, raw[i])
<1> DEFINE name == raw[i].name
<1>1. CASE raw[i].filter
  <2>1. PICK k \in Members(FirstFilters(raw)) :
           k \in DOMAIN raw /\ SameFilter(raw[k], raw[i])
    BY <1>1, FirstFilterExists DEF IsRawQuery
  <2>2. /\ raw[k].name \in Filters(d)
        /\ raw[k].operator \in Members(d.filters[raw[k].name])
    BY <2>1 DEF IsAllowed, FiltersAreAllowed
  <2>3. raw[i].name = raw[k].name /\ raw[i].operator = raw[k].operator
    BY <2>1 DEF SameFilter
  <2> QED BY <1>1, <2>2, <2>3 DEF Documents
<1>2. CASE ~raw[i].filter
  <2>1. name \in RootParameters /\ Occurs(raw, name)
    BY <1>2 DEF ParametersAreKnown, Occurs, Occurrences
  <2>2. CASE name = "sort"
    <3>1. IsItems(raw, "sort") /\ SortItems(d, raw, page.mode) = Scalar(raw, "sort")
      BY <2>1, <2>2 DEF IsAllowed, SortIsAllowed, SortItems
    <3>2. Members(FieldsIn(Scalar(raw, "sort"))) \subseteq SortFields(d)
      BY <3>1 DEF IsAllowed, SortIsAllowed
    <3>3. 1 \in DOMAIN Scalar(raw, "sort")
      BY <3>1, PresentParameters
    <3>4. SortFields(d) # {}
      BY <3>2, <3>3 DEF Members, FieldsIn
    <3> QED BY <1>2, <2>2, <3>4 DEF Documents
  <2>3. CASE name = "search"
    <3>1. d.search # None
      BY <2>1, <2>3 DEF IsAllowed, SearchIsAllowed
    <3> DEFINE fields == d.search.fields
    <3>2. fields # <<>> /\ IsSequence(fields)
      BY <3>1 DEF Accepted, QueryIsSound, SearchIsSound, HasSequences
    <3> HIDE DEF fields
    <3>3. Len(fields) \in Nat /\ DOMAIN fields = 1..Len(fields)
      BY <3>2, SequencesAre
    <3>4. 1 \in DOMAIN fields
      BY <3>2, <3>3 DEF IsSequence
    <3>5. fields[1] \in Members(fields)
      BY <3>4 DEF Members
    <3>6. SearchFields(d) # {}
      BY <3>1, <3>5 DEF SearchFields, fields
    <3> QED BY <1>2, <2>3, <3>6 DEF Documents
  <2>4. CASE name = "include"
    <3>1. /\ IsItems(raw, "include")
          /\ Members(Scalar(raw, "include")) \subseteq DOMAIN d.relations
      BY <2>1, <2>4 DEF IsAllowed, IncludesAreAllowed
    <3>2. 1 \in DOMAIN Scalar(raw, "include")
      BY <3>1, PresentParameters
    <3>3. DOMAIN d.relations # {}
      BY <3>1, <3>2 DEF Members
    <3> QED BY <1>2, <2>4, <3>3 DEF Documents
  <2>5. CASE name = "after"
    <3>1. CursorMode(d)
      BY <2>1, <2>5 DEF IsPage
    <3> QED BY <1>2, <2>5, <3>1 DEF Documents
  <2>6. CASE name = "deleted"
    <3>1. d.softDelete # None /\ d.queryDeleted
      BY <2>1, <2>6 DEF IsAllowed, DeletedIsAllowed
    <3>2. Reads(d)
      BY <3>1 DEF Reads
    <3> QED BY <1>2, <2>6, <3>2 DEF Documents
  <2>7. CASE name = "page"
    <3>1. OffsetMode(d)
      BY <2>1, <2>7 DEF IsPage
    <3> QED BY <1>2, <2>7, <3>1 DEF Documents
  <2>8. CASE name = "limit"
    <3>1. OffsetMode(d) \/ CursorMode(d)
      BY DEF IsPage
    <3> QED BY <1>2, <2>8, <3>1 DEF Documents
  <2> QED BY <2>1, <2>2, <2>3, <2>4, <2>5, <2>6, <2>7, <2>8
          DEF RootParameters
<1> QED BY <1>1, <1>2 DEF IsRawQuery, IsEntry

(* There are no more pages than rows.                                      *)
LEMMA PagesAreFew ==
    ASSUME NEW total \in Nat, NEW limit \in Nat, limit > 0
    PROVE  /\ TotalPages(total, limit) \in 0..total
           /\ \A page \in Nat : page < TotalPages(total, limit)
                                  <=> page * limit < total
<1> DEFINE pages == (total + limit - 1) \div limit
           rest == (total + limit - 1) % limit
<1>1. /\ pages \in Int /\ rest \in 0..(limit - 1)
      /\ total + limit - 1 = limit * pages + rest
  OBVIOUS
<1>2. TotalPages(total, limit) = pages
  BY DEF TotalPages
<1> HIDE DEF pages, rest
<1>3. pages >= 0
  <2> SUFFICES ASSUME pages <= -1 PROVE FALSE
    BY <1>1
  <2>1. limit * pages <= limit * (-1)
    BY <1>1
  <2> QED BY <1>1, <2>1
<1>4. pages <= total
  <2> SUFFICES ASSUME pages >= total + 1 PROVE FALSE
    BY <1>1
  <2>1. limit * pages >= limit * (total + 1)
    BY <1>1
  <2>2. limit * (total + 1) = limit * total + limit
    OBVIOUS
  <2>3. limit * total >= total
    OBVIOUS
  <2>4. limit * total \in Int /\ limit * pages \in Int
    BY <1>1
  <2> QED BY <1>1, <2>1, <2>2, <2>3, <2>4
<1>5. ASSUME NEW page \in Nat PROVE page < pages <=> page * limit < total
  <2>1. page * limit \in Int /\ limit * pages \in Int
    BY <1>1
  <2>2. ASSUME page < pages PROVE page * limit < total
    <3>1. page + 1 <= pages
      BY <1>1, <2>2
    <3>2. limit * (page + 1) <= limit * pages
      BY <1>1, <3>1
    <3>3. limit * (page + 1) = page * limit + limit
      OBVIOUS
    <3> QED BY <1>1, <2>1, <3>2, <3>3
  <2>3. ASSUME page >= pages PROVE page * limit >= total
    <3>1. limit * page >= limit * pages
      BY <1>1, <2>3
    <3>2. limit * page = page * limit
      OBVIOUS
    <3> QED BY <1>1, <2>1, <3>1, <3>2
  <2> QED BY <1>1, <2>2, <2>3
<1> QED BY <1>1, <1>2, <1>3, <1>4, <1>5

(* The page that answers a query passes the documented schema.             *)
LEMMA PagesPassTheirSchema ==
    ASSUME NEW r, NEW parent, NEW raw, NEW q, NEW page,
           IsListQuery(r, raw, parent, q), IsAnswer(r, parent, q, page)
    PROVE  PageSchemaAccepts(Definition(r), page)
<1> DEFINE d == Definition(r)
<1>1. IsPage(d, raw, q.page) /\ page.mode = q.page.mode
      /\ page.limit = q.page.limit
  BY DEF IsListQuery, IsAnswer
<1>2. page.limit \in 1..MaxSafe
  BY <1>1 DEF IsPage
<1>3. ASSUME page.mode = "offset"
      PROVE  /\ page.page \in 1..MaxSafe
             /\ page.total \in 0..MaxSafe /\ page.totalPages \in 0..MaxSafe
  <2> DEFINE keys == Selected(ListPredicate(r, q, parent))
             total == Cardinality(keys)
             limit == q.page.limit
  <2>1. PICK data : page = OffsetPageOf(q, total, TotalPages(total, limit), data)
    BY <1>3 DEF IsAnswer
  <2>2. total \in 0..MaxSafe
    <3>1. keys \subseteq Keys
      BY DEF Selected
    <3> HIDE DEF keys
    <3>2. IsFiniteSet(keys) /\ Cardinality(keys) <= Cardinality(Keys)
      BY <3>1, FS_Subset, KeysAssumption
    <3>3. Cardinality(keys) \in Nat /\ Cardinality(Keys) \in Nat
      BY <3>2, FS_CardinalityType, KeysAssumption
    <3> QED BY <3>2, <3>3, KeysAssumption, MaxSafeAssumption
  <2>3. limit \in Nat /\ limit > 0
    BY <1>1, <1>2, MaxSafeAssumption
  <2> HIDE DEF total, limit
  <2>4. TotalPages(total, limit) \in 0..total
    BY <2>2, <2>3, PagesAreFew, MaxSafeAssumption
  <2>5. /\ page.total = total /\ page.totalPages = TotalPages(total, limit)
        /\ page.page = q.page.page
    BY <2>1 DEF OffsetPageOf
  <2>6. q.page.page \in 1..MaxSafe
    BY <1>1, <1>3 DEF IsPage
  <2> QED BY <2>2, <2>4, <2>5, <2>6, MaxSafeAssumption
<1>4. IF page.mode = "offset" THEN OffsetMode(d) ELSE CursorMode(d)
  BY <1>1 DEF IsPage
<1> HIDE DEF d
<1> QED BY <1>2, <1>3, <1>4 DEF PageSchemaAccepts, IsPageMeta, d

(* What the OpenAPI document says of a list is what it takes and answers:  *)
(* each parameter of an answered list is documented, and the answer passes *)
(* the response schema.                                                    *)
THEOREM ListsKeepTheirDocument ==
    ASSUME IsEvaluation, MarkersAreApart
    PROVE  Spec => []ListsAreAsDocumented
<1>1. ASSUME AppInv PROVE ListsAreAsDocumented
  <2> SUFFICES ASSUME answer.page.kind = "page"
               PROVE  /\ \A i \in DOMAIN answer.raw :
                            Documents(Definition(answer.resource), answer.raw[i])
                      /\ PageSchemaAccepts(Definition(answer.resource),
                                           answer.page)
    BY DEF ListsAreAsDocumented
  <2>1. answer # Nothing
    BY DEF Nothing
  <2>2. PICK r, raw, parent, page, q :
           /\ r = answer.resource /\ raw = answer.raw
           /\ parent = answer.parent /\ page = answer.page
           /\ q = Query(r, raw, parent)
    OBVIOUS
  <2>3. /\ IsCoherent /\ RowsOK /\ r \in Bound /\ IsRawQuery(raw)
        /\ \/ q = Refused /\ page = Refused /\ raw # <<>>
           \/ IsListQuery(r, raw, parent, q) /\ IsAnswer(r, parent, q, page)
    BY <1>1, <2>1, <2>2, AnswersAreSound
  <2>4. IsListQuery(r, raw, parent, q) /\ IsAnswer(r, parent, q, page)
    BY <2>2, <2>3 DEF Refused
  <2>5. PageSchemaAccepts(Definition(r), page)
    BY <2>4, PagesPassTheirSchema
  <2>6. \A i \in DOMAIN raw : Documents(Definition(r), raw[i])
    BY <2>3, <2>4, RowsAreStorage, ParametersAreDocumented DEF IsListQuery
  <2> QED BY <2>2, <2>5, <2>6
<1> QED BY <1>1, AppInvInit, AppInvNext, PTL DEF Spec

(***************************************************************************)
(* What a list selects                                                     *)
(***************************************************************************)
\* What the parser makes of the operand of a filter.
IsOperand(operator, operand) ==
    CASE operator \in {"in", "nin"} -> /\ IsSequence(operand) /\ operand # <<>>
                                       /\ Members(operand) \subseteq Int
      [] operator = "between" -> operand[1] \in Int /\ operand[2] \in Int
      [] operator = "isnull" -> operand \in BOOLEAN
      [] OTHER -> operand \in Int

(* A comparison has a truth, and it is true of a value that satisfies it   *)
(* as a reader of the request would say.                                   *)
LEMMA ComparisonsAgree ==
    ASSUME NEW operator \in FilterOperators, NEW operand,
           IsOperand(operator, operand), NEW value \in Value
    PROVE  LET truth == MemoryComparison(operator, value, operand)
           IN  /\ truth \in Truths
               /\ truth = "true" <=> Satisfies(value, operator, operand)
<1> DEFINE truth == MemoryComparison(operator, value, operand)
<1>1. Null \notin Int
  BY RowsAssumption
<1>2. CASE operator \in {"eq", "ne"}
  <2>1. operand \in Int
    BY <1>2 DEF IsOperand
  <2>2. /\ operator = "eq" => truth = IF value = Null THEN Unknown
                                      ELSE Truth(value = operand)
        /\ operator = "ne" => truth = IF value = Null THEN Not3(Unknown)
                                      ELSE Not3(Truth(value = operand))
    BY <1>1, <1>2, <2>1 DEF MemoryComparison
  <2>3. /\ operator = "eq" => (Satisfies(value, operator, operand)
                                 <=> value = operand)
        /\ operator = "ne" => (Satisfies(value, operator, operand)
                                 <=> value # Null /\ value # operand)
    BY <1>2 DEF Satisfies
  <2> HIDE DEF truth
  <2> QED BY <1>1, <1>2, <2>1, <2>2, <2>3 DEF Truth, Truths, Not3, Unknown, truth
<1>3. CASE operator \in {"gt", "gte", "lt", "lte"}
  <2>1. operand \in Int
    BY <1>3 DEF IsOperand
  <2>2. truth = IF value = Null THEN Unknown
                ELSE Truth(Holds(operator, value, operand))
    BY <1>1, <1>3, <2>1 DEF MemoryComparison, MemoryCompares
  <2>3. Satisfies(value, operator, operand)
           <=> value # Null /\ Holds(operator, value, operand)
    BY <1>3 DEF Satisfies
  <2> HIDE DEF truth
  <2> QED BY <2>2, <2>3 DEF Truth, Truths, Unknown, truth
<1>4. CASE operator \in {"in", "nin"}
  <2>1. /\ operand # <<>> /\ Members(operand) \subseteq Int
        /\ Listed(operand) = Members(operand)
    BY <1>4 DEF IsOperand, Listed, Members
  <2>2. /\ operator = "in" => truth = MemoryMember(value, operand, "true", "false")
        /\ operator = "nin" => truth = MemoryMember(value, operand, "false", "true")
    BY <1>4 DEF MemoryComparison
  <2>3. \A found, absent : MemoryMember(value, operand, found, absent)
          = IF value = Null THEN Unknown
            ELSE IF value \in Members(operand) THEN found ELSE absent
    BY <1>1, <2>1 DEF MemoryMember
  <2>4. /\ operator = "in" => (Satisfies(value, operator, operand)
                                 <=> value \in Members(operand))
        /\ operator = "nin" => (Satisfies(value, operator, operand)
                                 <=> value # Null /\ value \notin Members(operand))
    BY <1>4 DEF Satisfies
  <2> HIDE DEF truth
  <2> QED BY <1>1, <1>4, <2>1, <2>2, <2>3, <2>4 DEF Truths, Unknown, truth
<1>5. CASE operator \in {"contains", "icontains"}
  <2> DEFINE texts == IF operator = "contains" THEN Includes
                                               ELSE IncludesInsensitive
  <2>1. truth = IF value = Null THEN Unknown
                ELSE Truth(<<value, operand>> \in texts)
    BY <1>5 DEF MemoryComparison
  <2>2. Satisfies(value, operator, operand) <=> <<value, operand>> \in texts
    BY <1>5 DEF Satisfies
  <2>3. <<Null, operand>> \notin texts
    BY <1>1, TextsAssumption
  <2> HIDE DEF truth, texts
  <2> QED BY <2>1, <2>2, <2>3 DEF Truth, Truths, Unknown, truth
<1>6. CASE operator = "isnull"
  <2>1. operand \in BOOLEAN
    BY <1>6 DEF IsOperand
  <2>2. truth = Truth((value = Null) = operand)
    BY <1>6 DEF MemoryComparison
  <2>3. Satisfies(value, operator, operand) <=> ((value = Null) = operand)
    BY <1>6 DEF Satisfies
  <2> HIDE DEF truth
  <2> QED BY <2>1, <2>2, <2>3 DEF Truth, Truths, truth
<1>7. CASE operator = "between"
  <2> DEFINE lower == MemoryCompares("gte", value, operand[1])
             upper == MemoryCompares("lte", value, operand[2])
  <2>1. operand[1] \in Int /\ operand[2] \in Int
    BY <1>7 DEF IsOperand
  <2>2. truth = IF Unknown \in {lower, upper} THEN Unknown
                ELSE And3({lower, upper})
    BY <1>7 DEF MemoryComparison, MemoryBetween
  <2>3. /\ lower = IF value = Null THEN Unknown ELSE Truth(value >= operand[1])
        /\ upper = IF value = Null THEN Unknown ELSE Truth(value <= operand[2])
    BY <1>1, <2>1 DEF MemoryCompares, Holds
  <2>4. Satisfies(value, operator, operand)
           <=> value # Null /\ value \in operand[1]..operand[2]
    BY <1>7 DEF Satisfies
  <2>5. value # Null => (value \in operand[1]..operand[2]
                           <=> value >= operand[1] /\ value <= operand[2])
    BY <2>1 DEF Value
  <2> HIDE DEF truth, lower, upper
  <2> QED BY <2>2, <2>3, <2>4, <2>5 DEF Truth, Truths, Unknown, And3, truth
<1> QED BY <1>2, <1>3, <1>4, <1>5, <1>6, <1>7 DEF FilterOperators

\* The parts of a conjunction are predicates, and all of them are true.
ArePredicates(row, parts) ==
    /\ IsSequence(parts)
    /\ \A i \in DOMAIN parts :
          parts[i] # Null /\ Evaluation(row, parts[i]) \in Truths
AllHold(row, parts) ==
    \A i \in DOMAIN parts : Evaluation(row, parts[i]) = "true"

LEMMA PredicatesJoin ==
    ASSUME NEW row, NEW s, ArePredicates(row, s), NEW t, ArePredicates(row, t)
    PROVE  /\ ArePredicates(row, s \o t)
           /\ AllHold(row, s \o t) <=> AllHold(row, s) /\ AllHold(row, t)
<1> DEFINE all == s \o t
           n == Len(s)
           m == Len(t)
<1>1. /\ n \in Nat /\ DOMAIN s = 1..n /\ m \in Nat /\ DOMAIN t = 1..m
  BY SequencesAre DEF ArePredicates
<1>2. /\ IsSequence(all) /\ Len(all) = n + m
      /\ \A i \in 1..n : all[i] = s[i]
      /\ \A i \in 1..m : all[n + i] = t[i]
  BY Concatenation DEF ArePredicates
<1> HIDE DEF all, n, m
<1>3. DOMAIN all = 1..(n + m)
  BY <1>2, SequencesAre
<1>4. \A i \in 1..(n + m) : i \in 1..n \/ (i - n \in 1..m /\ i = n + (i - n))
  BY <1>1
<1>5. \A i \in 1..m : n + i \in 1..(n + m)
  BY <1>1
<1>6. \A i \in 1..n : i \in 1..(n + m)
  BY <1>1
<1>7. ArePredicates(row, all)
  <2>1. \A i \in 1..n : all[i] # Null /\ Evaluation(row, all[i]) \in Truths
    BY <1>1, <1>2 DEF ArePredicates
  <2>2. \A i \in 1..m : /\ all[n + i] # Null
                        /\ Evaluation(row, all[n + i]) \in Truths
    BY <1>1, <1>2 DEF ArePredicates
  <2>3. \A i \in 1..(n + m) : all[i] # Null /\ Evaluation(row, all[i]) \in Truths
    BY <1>4, <2>1, <2>2
  <2> QED BY <1>2, <1>3, <2>3 DEF ArePredicates
<1>8. AllHold(row, all) => AllHold(row, s) /\ AllHold(row, t)
  BY <1>1, <1>2, <1>3, <1>5, <1>6 DEF AllHold
<1>9. AllHold(row, s) /\ AllHold(row, t) => AllHold(row, all)
  BY <1>1, <1>2, <1>3, <1>4 DEF AllHold
<1> QED BY <1>7, <1>8, <1>9 DEF all

(* A row matches a conjunction of predicates if all of them hold.          *)
LEMMA ConjunctionsMatch ==
    ASSUME IsEvaluation, MarkersAreApart, NEW row, NEW parts,
           ArePredicates(row, parts)
    PROVE  Matches(row, Combine("and", parts, Null)) <=> AllHold(row, parts)
<1>1. IsSequence(parts) /\ Len(parts) \in Nat /\ DOMAIN parts = 1..Len(parts)
  BY SequencesAre DEF ArePredicates
<1>2. CASE parts = <<>>
  <2>1. Combine("and", parts, Null) = Null
    BY <1>2 DEF Combine
  <2> QED BY <1>2, <2>1 DEF Matches, AllHold
<1>3. CASE parts # <<>> /\ Len(parts) = 1
  <2>1. Combine("and", parts, Null) = parts[1]
    BY <1>3 DEF Combine
  <2>2. DOMAIN parts = {1}
    BY <1>1, <1>3
  <2> QED BY <2>1, <2>2 DEF Matches, AllHold, ArePredicates
<1>4. CASE parts # <<>> /\ Len(parts) # 1
  <2> DEFINE p == [kind |-> "and", predicates |-> parts]
             truths == {Evaluation(row, parts[j]) : j \in DOMAIN parts}
  <2>1. Combine("and", parts, Null) = p
    BY <1>4 DEF Combine
  <2>2. p # Null
    BY DEF MarkersAreApart
  <2>3. p.kind = "and" /\ p.predicates = parts
    OBVIOUS
  <2> HIDE DEF p
  <2>4. Matches(row, p) <=> Evaluation(row, p) = "true"
    BY <2>2 DEF Matches
  <2>5. Evaluation(row, p) = NodeTruth(Evaluation, row, p)
    BY DEF IsEvaluation
  <2>6. Evaluation(row, p) = And3(truths)
    BY <2>3, <2>5 DEF NodeTruth
  <2>7. truths \subseteq Truths
    BY DEF ArePredicates
  <2>8. AllHold(row, parts) <=> truths \subseteq {"true"}
    BY DEF AllHold
  <2> HIDE DEF truths
  <2>9. And3(truths) = "true" <=> truths \subseteq {"true"}
    BY <2>7 DEF And3, Truths, Unknown
  <2> QED BY <2>1, <2>4, <2>6, <2>8, <2>9
<1> QED BY <1>2, <1>3, <1>4

(* A disjunction of comparisons, one or more, holds if one of them does.   *)
LEMMA DisjunctionsHold ==
    ASSUME IsEvaluation, MarkersAreApart, NEW row, NEW parts,
           ArePredicates(row, parts), parts # <<>>
    PROVE  LET p == Combine("or", parts, Null)
           IN  /\ p # Null /\ Evaluation(row, p) \in Truths
               /\ Evaluation(row, p) = "true"
                     <=> \E i \in DOMAIN parts : Evaluation(row, parts[i]) = "true"
<1>1. IsSequence(parts) /\ Len(parts) \in Nat /\ DOMAIN parts = 1..Len(parts)
  BY SequencesAre DEF ArePredicates
<1>2. CASE Len(parts) = 1
  <2>1. Combine("or", parts, Null) = parts[1]
    BY <1>2 DEF Combine
  <2>2. DOMAIN parts = {1}
    BY <1>1, <1>2
  <2> QED BY <2>1, <2>2 DEF ArePredicates
<1>3. CASE Len(parts) # 1
  <2> DEFINE p == [kind |-> "or", predicates |-> parts]
             truths == {Evaluation(row, parts[j]) : j \in DOMAIN parts}
  <2>1. Combine("or", parts, Null) = p
    BY <1>3 DEF Combine
  <2>2. p # Null
    BY DEF MarkersAreApart
  <2>3. p.kind = "or" /\ p.predicates = parts
    OBVIOUS
  <2> HIDE DEF p
  <2>5. Evaluation(row, p) = NodeTruth(Evaluation, row, p)
    BY DEF IsEvaluation
  <2>6. Evaluation(row, p) = Or3(truths)
    BY <2>3, <2>5 DEF NodeTruth
  <2>7. "true" \in truths
           <=> \E i \in DOMAIN parts : Evaluation(row, parts[i]) = "true"
    OBVIOUS
  <2> HIDE DEF truths
  <2>8. Or3(truths) \in Truths /\ (Or3(truths) = "true" <=> "true" \in truths)
    BY DEF Or3, Truths, Unknown
  <2> QED BY <2>1, <2>2, <2>6, <2>7, <2>8
<1> QED BY <1>2, <1>3

\* The values of the entries of one filter.
Numbers == Int \cup {Empty, Bad}
AreValues(values) ==
    /\ IsSequence(values)
    /\ \A i \in DOMAIN values :
          /\ IsSequence(values[i].items)
          /\ \A j \in DOMAIN values[i].items :
                LET item == values[i].items[j]
                IN  IsItem(item) /\ (item # NotText => Members(item) \subseteq Numbers)

LEMMA PartsAre ==
    ASSUME NEW values, AreValues(values), NEW i \in DOMAIN values,
           NEW j \in DOMAIN values[i].items
    PROVE  LET parts == Parts(values[i].items[j])
           IN  IsSequence(parts) /\ Members(parts) \subseteq Numbers
<1> DEFINE item == values[i].items[j]
<1>1. IsItem(item) /\ (item # NotText => Members(item) \subseteq Numbers)
  BY DEF AreValues
<1> HIDE DEF item
<1>2. IsSequence(<<Bad>>) /\ Members(<<Bad>>) \subseteq Numbers
  BY DEF IsSequence, Members, Numbers
<1>3. Parts(item) = <<Bad>> \/ (item # NotText /\ Parts(item) = item)
  BY DEF Parts
<1> QED BY <1>1, <1>2, <1>3 DEF IsItem, item

LEMMA PlacesAreFinite ==
    ASSUME NEW values, AreValues(values)
    PROVE  IsFiniteSet(PartPlaces(values))
<1> DEFINE Of(i, j) == {<<i, j, k>> : k \in DOMAIN Parts(values[i].items[j])}
           In(i) == {Of(i, j) : j \in DOMAIN values[i].items}
           All == {UNION In(i) : i \in DOMAIN values}
<1>1. ASSUME NEW i \in DOMAIN values, NEW j \in DOMAIN values[i].items
      PROVE  IsFiniteSet(Of(i, j))
  <2> DEFINE parts == Parts(values[i].items[j])
             n == Len(parts)
             s == [k \in 1..n |-> <<i, j, k>>]
  <2>1. n \in Nat /\ DOMAIN parts = 1..n
    BY PartsAre, SequencesAre
  <2> HIDE DEF n
  <2>2. IsSequence(s)
    BY <2>1 DEF IsSequence
  <2>3. Members(s) = Of(i, j)
    BY <2>1 DEF Members
  <2> HIDE DEF s
  <2> QED BY <2>2, <2>3, MembersAreFinite
<1>2. ASSUME NEW i \in DOMAIN values PROVE IsFiniteSet(UNION In(i))
  <2> DEFINE items == values[i].items
             n == Len(items)
             s == [j \in 1..n |-> Of(i, j)]
  <2>1. n \in Nat /\ DOMAIN items = 1..n
    BY SequencesAre DEF AreValues
  <2> HIDE DEF n, Of
  <2>2. IsSequence(s)
    BY <2>1 DEF IsSequence
  <2>3. Members(s) = In(i)
    BY <2>1 DEF Members
  <2> HIDE DEF s
  <2>4. IsFiniteSet(In(i))
    BY <2>2, <2>3, MembersAreFinite
  <2>5. \A T \in In(i) : IsFiniteSet(T)
    BY <1>1
  <2> HIDE DEF In
  <2> QED BY <2>4, <2>5, FS_UNION
<1>3. IsFiniteSet(All)
  <2> DEFINE n == Len(values)
             s == [i \in 1..n |-> UNION In(i)]
  <2>1. n \in Nat /\ DOMAIN values = 1..n
    BY SequencesAre DEF AreValues
  <2> HIDE DEF n, In
  <2>2. IsSequence(s)
    BY <2>1 DEF IsSequence
  <2>3. Members(s) = All
    BY <2>1 DEF Members
  <2> HIDE DEF s
  <2> QED BY <2>2, <2>3, MembersAreFinite
<1>4. \A T \in All : IsFiniteSet(T)
  BY <1>2
<1>5. PartPlaces(values) = UNION All
  BY DEF PartPlaces
<1> HIDE DEF All
<1> QED BY <1>3, <1>4, <1>5, FS_UNION

(* Parts are read entry by entry, item by item, part by part.              *)
LEMMA PlacesAreOrdered ==
    ASSUME NEW places, places \subseteq Nat \X Nat \X Nat
    PROVE  IsTotalOrder(places, {pair \in places \X places :
                                    ReadsBefore(pair[1], pair[2])})
<1> DEFINE before == {pair \in places \X places : ReadsBefore(pair[1], pair[2])}
<1>1. \A p, q \in places : <<p, q>> \in before <=> ReadsBefore(p, q)
  OBVIOUS
<1>2. \A p \in places : p = <<p[1], p[2], p[3]>>
                        /\ p[1] \in Nat /\ p[2] \in Nat /\ p[3] \in Nat
  OBVIOUS
<1>3. ASSUME NEW p, NEW q
      PROVE  ReadsBefore(p, q) <=>
                \/ p[1] < q[1]
                \/ p[1] = q[1] /\ p[2] < q[2]
                \/ p[1] = q[1] /\ p[2] = q[2] /\ p[3] < q[3]
  <2> DEFINE Agree(n) == \A j \in 1..(n - 1) : p[j] = q[j]
             Less(n) == p[n] < q[n]
  <2>1. \A n : n \in 1..3 <=> n = 1 \/ n = 2 \/ n = 3
    OBVIOUS
  <2>2. ReadsBefore(p, q) <=> \E n \in 1..3 : Less(n) /\ Agree(n)
    BY DEF ReadsBefore
  <2>3. Agree(1)
    OBVIOUS
  <2>4. Agree(2) <=> p[1] = q[1]
    OBVIOUS
  <2>5. Agree(3) <=> p[1] = q[1] /\ p[2] = q[2]
    OBVIOUS
  <2>6. /\ Less(1) <=> p[1] < q[1]
        /\ Less(2) <=> p[2] < q[2]
        /\ Less(3) <=> p[3] < q[3]
    OBVIOUS
  <2> HIDE DEF Agree, Less
  <2>7. ReadsBefore(p, q)
           <=> \/ Less(1) /\ Agree(1)
               \/ Less(2) /\ Agree(2)
               \/ Less(3) /\ Agree(3)
    BY <2>1, <2>2
  <2> QED BY <2>3, <2>4, <2>5, <2>6, <2>7
<1> HIDE DEF before
<1>4. \A p \in places : ~ReadsBefore(p, p)
  BY <1>2, <1>3
<1>5. ASSUME NEW p \in places, NEW q \in places, NEW s \in places,
             ReadsBefore(p, q), ReadsBefore(q, s)
      PROVE  ReadsBefore(p, s)
  <2>1. \/ p[1] < q[1]
        \/ p[1] = q[1] /\ p[2] < q[2]
        \/ p[1] = q[1] /\ p[2] = q[2] /\ p[3] < q[3]
    BY <1>3, <1>5
  <2>2. \/ q[1] < s[1]
        \/ q[1] = s[1] /\ q[2] < s[2]
        \/ q[1] = s[1] /\ q[2] = s[2] /\ q[3] < s[3]
    BY <1>3, <1>5
  <2>3. /\ p[1] \in Nat /\ p[2] \in Nat /\ p[3] \in Nat
        /\ q[1] \in Nat /\ q[2] \in Nat /\ q[3] \in Nat
        /\ s[1] \in Nat /\ s[2] \in Nat /\ s[3] \in Nat
    BY <1>2
  <2>4. \/ p[1] < s[1]
        \/ p[1] = s[1] /\ p[2] < s[2]
        \/ p[1] = s[1] /\ p[2] = s[2] /\ p[3] < s[3]
    BY <2>1, <2>2, <2>3
  <2> QED BY <1>3, <2>4
<1>6. ASSUME NEW p \in places, NEW q \in places, p # q
      PROVE  ReadsBefore(p, q) \/ ReadsBefore(q, p)
  <2>1. p[1] # q[1] \/ p[2] # q[2] \/ p[3] # q[3]
    BY <1>2, <1>6
  <2>2. /\ p[1] \in Nat /\ p[2] \in Nat /\ p[3] \in Nat
        /\ q[1] \in Nat /\ q[2] \in Nat /\ q[3] \in Nat
    BY <1>2
  <2>3. CASE p[1] # q[1]
    <3>1. p[1] < q[1] \/ q[1] < p[1]
      BY <2>2, <2>3
    <3>2. /\ p[1] < q[1] => ReadsBefore(p, q)
          /\ q[1] < p[1] => ReadsBefore(q, p)
      BY <1>3
    <3> QED BY <3>1, <3>2
  <2>4. CASE p[1] = q[1] /\ p[2] # q[2]
    <3>1. p[2] < q[2] \/ q[2] < p[2]
      BY <2>2, <2>4
    <3> QED BY <1>3, <2>4, <3>1
  <2>5. CASE p[1] = q[1] /\ p[2] = q[2] /\ p[3] # q[3]
    <3>1. p[3] < q[3] \/ q[3] < p[3]
      BY <2>2, <2>5
    <3> QED BY <1>3, <2>5, <3>1
  <2> QED BY <2>1, <2>3, <2>4, <2>5
<1>7. IsTotalOrder(places, before)
  BY <1>1, <1>4, <1>5, <1>6 DEF IsTotalOrder
<1> QED BY <1>7 DEF before

LEMMA ExpandedAre ==
    ASSUME NEW values, AreValues(values)
    PROVE  IsSequence(Expanded(values)) /\ Members(Expanded(values)) \subseteq Numbers
<1> DEFINE places == PartPlaces(values)
           before == {pair \in places \X places : ReadsBefore(pair[1], pair[2])}
           written == Arranged(places, before)
           N == Cardinality(places)
           Part(p) == Parts(values[p[1]].items[p[2]])[p[3]]
<1>1. ASSUME NEW p \in places
      PROVE  p \in Nat \X Nat \X Nat /\ Part(p) \in Numbers
  <2>1. PICK i \in DOMAIN values : \E j \in DOMAIN values[i].items :
           \E k \in DOMAIN Parts(values[i].items[j]) : p = <<i, j, k>>
    BY DEF PartPlaces
  <2>2. PICK j \in DOMAIN values[i].items :
           \E k \in DOMAIN Parts(values[i].items[j]) : p = <<i, j, k>>
    BY <2>1
  <2>3. PICK k \in DOMAIN Parts(values[i].items[j]) : p = <<i, j, k>>
    BY <2>2
  <2> DEFINE parts == Parts(values[i].items[j])
  <2>4. IsSequence(parts) /\ Members(parts) \subseteq Numbers
    BY PartsAre
  <2>5. Part(p) = parts[k]
    BY <2>3
  <2> HIDE DEF parts
  <2>6. parts[k] \in Numbers
    BY <2>3, <2>4 DEF Members, parts
  <2>7. i \in Nat
    <3>1. DOMAIN values = 1..Len(values) /\ Len(values) \in Nat
      BY SequencesAre DEF AreValues
    <3> QED BY <3>1
  <2>8. j \in Nat
    <3> DEFINE items == values[i].items
    <3>1. DOMAIN items = 1..Len(items) /\ Len(items) \in Nat
      BY SequencesAre DEF AreValues
    <3> QED BY <3>1
  <2>9. k \in Nat
    <3>1. DOMAIN parts = 1..Len(parts) /\ Len(parts) \in Nat
      BY <2>4, SequencesAre
    <3> QED BY <3>1 DEF parts
  <2> QED BY <2>3, <2>5, <2>6, <2>7, <2>8, <2>9
<1>2. IsFiniteSet(places)
  BY PlacesAreFinite
<1>3. places \subseteq Nat \X Nat \X Nat
  BY <1>1
<1>4. Expanded(values) = [n \in DOMAIN written |-> Part(written[n])]
  BY DEF Expanded
<1> HIDE DEF places, Part
<1>5. IsTotalOrder(places, before)
  BY <1>3, PlacesAreOrdered
<1> HIDE DEF before
<1>6. Lists(written, places, before)
  BY <1>2, <1>5, Arrangement
<1>7. N \in Nat
  BY <1>2, FS_CardinalityType
<1> HIDE DEF written
<1>8. written \in [1..N -> places]
  BY <1>6 DEF Lists
<1> HIDE DEF N
<1>9. \A n \in 1..N : Part(written[n]) \in Numbers
  BY <1>1, <1>8
<1>10. Expanded(values) = [n \in 1..N |-> Part(written[n])]
  BY <1>4, <1>8
<1> QED BY <1>7, <1>9, <1>10 DEF IsSequence, Members

(* The operand of a filter that the parser allows is of the kind that its  *)
(* operator takes.                                                         *)
LEMMA OperandsAre ==
    ASSUME NEW operator \in FilterOperators, NEW values, AreValues(values),
           OperandIsSound(operator, values)
    PROVE  IsOperand(operator, Operand(operator, values))
<1> DEFINE expanded == Expanded(values)
<1>1. /\ IsSequence(expanded) /\ Members(expanded) \subseteq Numbers
      /\ {Empty, Bad} \cap Members(expanded) = {}
      /\ ExpandedAreSound(operator, expanded)
  BY ExpandedAre DEF OperandIsSound, ExpandedAreSound
<1>2. Operand(operator, values)
        = CASE operator \in {"in", "nin", "between"} -> expanded
            [] operator = "isnull" -> expanded[1] = 1
            [] OTHER -> expanded[1]
  BY DEF Operand
<1> HIDE DEF expanded
<1>3. Members(expanded) \subseteq Int
  BY <1>1 DEF Numbers
<1>4. Len(expanded) \in Nat /\ DOMAIN expanded = 1..Len(expanded)
  BY <1>1, SequencesAre
<1>5. \A i \in 1..Len(expanded) : expanded[i] \in Int
  BY <1>3, <1>4 DEF Members
<1>6. CASE operator \in {"in", "nin"}
  BY <1>1, <1>2, <1>3, <1>6 DEF ExpandedAreSound, IsOperand
<1>7. CASE operator = "between"
  <2>1. Len(expanded) = 2
    BY <1>1, <1>7 DEF ExpandedAreSound
  <2>2. expanded[1] \in Int /\ expanded[2] \in Int
    BY <1>5, <2>1
  <2> QED BY <1>2, <1>7, <2>2 DEF IsOperand
<1>8. CASE operator = "isnull"
  BY <1>2, <1>8 DEF IsOperand
<1>9. CASE operator \notin {"in", "nin", "between", "isnull"}
  <2>1. Len(expanded) = 1
    BY <1>1, <1>9 DEF ExpandedAreSound
  <2>2. expanded[1] \in Int
    BY <1>5, <2>1
  <2> QED BY <1>2, <1>9, <2>2 DEF IsOperand
<1> QED BY <1>6, <1>7, <1>8, <1>9

LEMMA FilterValuesAre ==
    ASSUME NEW raw, IsRawQuery(raw), NEW k \in DOMAIN raw
    PROVE  AreValues(Operands(raw, k))
<1> DEFINE same == {j \in DOMAIN raw : SameFilter(raw[j], raw[k])}
           chosen == InSequence(same)
           N == Cardinality(same)
           values == Operands(raw, k)
<1>1. Len(raw) \in Nat /\ DOMAIN raw = 1..Len(raw)
  BY SequencesAre DEF IsRawQuery
<1>2. same \in SUBSET (1..Len(raw))
  BY <1>1
<1>3. \A j \in same : raw[j].filter /\ IsEntry(raw[j])
  BY DEF SameFilter, IsRawQuery
<1>4. values = [n \in DOMAIN chosen |-> raw[chosen[n]].value]
  BY DEF Operands
<1> HIDE DEF same, values
<1>5. N \in Nat /\ chosen \in [1..N -> same]
  BY <1>1, <1>2, Places_InSequence
<1> HIDE DEF chosen, N
<1>6. IsSequence(values) /\ DOMAIN values = 1..N
  BY <1>4, <1>5 DEF IsSequence
<1>7. ASSUME NEW i \in DOMAIN values
      PROVE  /\ IsSequence(values[i].items)
             /\ \A j \in DOMAIN values[i].items :
                  LET item == values[i].items[j]
                  IN  IsItem(item)
                      /\ (item # NotText => Members(item) \subseteq Numbers)
  <2>1. PICK e \in same : values[i] = raw[e].value
    BY <1>4, <1>5, <1>6
  <2> QED BY <1>3, <2>1 DEF IsEntry, Numbers
<1>8. AreValues(values)
  BY <1>6, <1>7 DEF AreValues
<1> QED BY <1>8 DEF values

(* The predicates of the filters compare documented fields with operands   *)
(* of the kind that their operators take.                                  *)
LEMMA FiltersAre ==
    ASSUME NEW d, Accepted(d), NEW raw, IsRawQuery(raw), FiltersAreAllowed(d, raw)
    PROVE  LET filters == FilterPredicates(raw)
           IN  /\ IsSequence(filters)
               /\ \A n \in DOMAIN filters :
                    \E field \in Members(d.fields), operator \in FilterOperators :
                       \E operand :
                          /\ IsOperand(operator, operand)
                          /\ filters[n] = Comparison(field, operator, operand)
<1> DEFINE first == FirstFilters(raw)
           filters == FilterPredicates(raw)
<1>1. /\ IsSequence(first)
      /\ \A n \in DOMAIN first : first[n] \in DOMAIN raw
  BY FirstFiltersAre DEF IsRawQuery
<1>2. filters = [n \in DOMAIN first |-> FilterPredicate(raw, first[n])]
  BY DEF FilterPredicates
<1> HIDE DEF first, filters
<1>3. IsSequence(filters)
  <2>1. Len(first) \in Nat /\ DOMAIN first = 1..Len(first)
    BY <1>1, SequencesAre
  <2> QED BY <1>2, <2>1 DEF IsSequence
<1>4. ASSUME NEW n \in DOMAIN filters
      PROVE  \E field \in Members(d.fields), operator \in FilterOperators :
                \E operand :
                   /\ IsOperand(operator, operand)
                   /\ filters[n] = Comparison(field, operator, operand)
  <2> DEFINE k == first[n]
             operator == raw[k].operator
             values == Operands(raw, k)
  <2>1. n \in DOMAIN first /\ k \in Members(first) /\ k \in DOMAIN raw
    BY <1>1, <1>2 DEF Members
  <2>2. /\ raw[k].name \in Filters(d)
        /\ operator \in Members(d.filters[raw[k].name])
        /\ OperandIsSound(operator, values)
    BY <2>1 DEF FiltersAreAllowed, first
  <2>3. raw[k].name \in Members(d.fields) /\ operator \in FilterOperators
    BY <2>2 DEF Accepted, QueryIsSound, FiltersAreSound
  <2>4. AreValues(values)
    BY <2>1, FilterValuesAre
  <2>5. filters[n] = Comparison(raw[k].name, operator, Operand(operator, values))
    BY <1>2, <2>1 DEF FilterPredicate
  <2> HIDE DEF k, operator, values
  <2>6. IsOperand(operator, Operand(operator, values))
    BY <2>2, <2>3, <2>4, OperandsAre
  <2> QED BY <2>3, <2>5, <2>6
<1> QED BY <1>3, <1>4 DEF filters

(* A sequence of at most one predicate.                                    *)
LEMMA NoneOrOne ==
    ASSUME NEW row
    PROVE  /\ ArePredicates(row, <<>>) /\ AllHold(row, <<>>)
           /\ \A p : p # Null /\ Evaluation(row, p) \in Truths =>
                /\ ArePredicates(row, <<p>>)
                /\ AllHold(row, <<p>>) <=> Evaluation(row, p) = "true"
  BY DEF ArePredicates, AllHold, IsSequence

LEMMA FiltersSelect ==
    ASSUME IsEvaluation, MarkersAreApart, NEW d, Accepted(d),
           NEW raw, IsRawQuery(raw), FiltersAreAllowed(d, raw),
           NEW row, \A field \in Members(d.fields) : row[field] \in Value
    PROVE  LET filters == FilterPredicates(raw)
           IN  /\ ArePredicates(row, filters)
               /\ AllHold(row, filters) <=> \A n \in DOMAIN filters :
                     Satisfies(row[filters[n].field], filters[n].operator,
                               filters[n].value)
<1> DEFINE filters == FilterPredicates(raw)
           Holding(n) == Satisfies(row[filters[n].field], filters[n].operator,
                                   filters[n].value)
<1>1. /\ IsSequence(filters)
      /\ \A n \in DOMAIN filters :
            \E field \in Members(d.fields), operator \in FilterOperators :
               \E operand :
                  /\ IsOperand(operator, operand)
                  /\ filters[n] = Comparison(field, operator, operand)
  BY FiltersAre
<1> HIDE DEF filters
<1>2. ASSUME NEW n \in DOMAIN filters
      PROVE  /\ filters[n] # Null /\ Evaluation(row, filters[n]) \in Truths
             /\ Evaluation(row, filters[n]) = "true" <=> Holding(n)
  <2>1. PICK field \in Members(d.fields), operator \in FilterOperators :
           \E operand : /\ IsOperand(operator, operand)
                        /\ filters[n] = Comparison(field, operator, operand)
    BY <1>1
  <2>2. PICK operand : /\ IsOperand(operator, operand)
                       /\ filters[n] = Comparison(field, operator, operand)
    BY <2>1
  <2> DEFINE truth == MemoryComparison(operator, row[field], operand)
  <2>3. row[field] \in Value
    OBVIOUS
  <2>4. /\ truth \in Truths
        /\ truth = "true" <=> Satisfies(row[field], operator, operand)
    BY <2>2, <2>3, ComparisonsAgree
  <2>5. Evaluation(row, filters[n]) = truth
    BY <2>2, ComparisonsEvaluate
  <2> HIDE DEF truth
  <2>6. filters[n] # Null
    BY <2>2 DEF MarkersAreApart
  <2>7. /\ filters[n].field = field /\ filters[n].operator = operator
        /\ filters[n].value = operand
    BY <2>2 DEF Comparison
  <2> QED BY <2>4, <2>5, <2>6, <2>7
<1> HIDE DEF Holding
<1>3. ArePredicates(row, filters)
  BY <1>1, <1>2 DEF ArePredicates
<1>4. AllHold(row, filters) <=> \A n \in DOMAIN filters : Holding(n)
  BY <1>2 DEF AllHold
<1> QED BY <1>3, <1>4 DEF filters, Holding

LEMMA SearchSelects ==
    ASSUME IsEvaluation, MarkersAreApart, NEW d, Accepted(d), HasSequences(d),
           NEW q, q.search # None =>
                     d.search # None /\ ~HasFullText(d) /\ q.search \in Int,
           NEW row, \A field \in Members(d.fields) : row[field] \in Value
    PROVE  LET parts == SearchPredicate(d, q)
           IN  /\ ArePredicates(row, parts)
               /\ AllHold(row, parts) <=>
                     (q.search # None => \E field \in SearchFields(d) :
                         Satisfies(row[field], "icontains", q.search))
<1>1. CASE q.search = None
  <2>1. SearchPredicate(d, q) = <<>>
    BY <1>1 DEF SearchPredicate
  <2> QED BY <1>1, <2>1, NoneOrOne
<1>2. CASE q.search # None
  <2> DEFINE fields == d.search.fields
             Match(field) == Comparison(field, "icontains", q.search)
             matches == [i \in DOMAIN fields |-> Match(fields[i])]
             p == Combine("or", matches, Null)
  <2>1. /\ d.search # None /\ IsSequence(fields) /\ fields # <<>>
        /\ Members(fields) \subseteq Members(d.fields)
        /\ SearchFields(d) = Members(fields)
    BY <1>2 DEF Accepted, QueryIsSound, SearchIsSound, HasSequences, SearchFields
  <2>2. SearchPredicate(d, q) = <<p>>
    BY <1>2 DEF SearchPredicate
  <2>3. ASSUME NEW field \in Members(fields)
        PROVE  /\ Match(field) # Null /\ Evaluation(row, Match(field)) \in Truths
               /\ Evaluation(row, Match(field)) = "true"
                     <=> Satisfies(row[field], "icontains", q.search)
    <3>1. IsOperand("icontains", q.search) /\ "icontains" \in FilterOperators
      BY <1>2 DEF IsOperand, FilterOperators
    <3>2. row[field] \in Value
      BY <2>1
    <3> DEFINE truth == MemoryComparison("icontains", row[field], q.search)
    <3>3. /\ truth \in Truths
          /\ truth = "true" <=> Satisfies(row[field], "icontains", q.search)
      BY <3>1, <3>2, ComparisonsAgree
    <3>4. Evaluation(row, Match(field)) = truth
      BY ComparisonsEvaluate
    <3>5. Match(field) # Null
      BY DEF MarkersAreApart
    <3> HIDE DEF truth, Match
    <3> QED BY <3>3, <3>4, <3>5
  <2> HIDE DEF Match, fields
  <2>4. Len(fields) \in Nat /\ DOMAIN fields = 1..Len(fields) /\ Len(fields) # 0
    <3>1. Len(fields) \in Nat /\ DOMAIN fields = 1..Len(fields)
      BY <2>1, SequencesAre
    <3>2. Len(fields) # 0
      BY <2>1, <3>1 DEF IsSequence
    <3> QED BY <3>1, <3>2
  <2>5. /\ IsSequence(matches) /\ DOMAIN matches = 1..Len(fields)
        /\ 1 \in DOMAIN matches
    BY <2>4 DEF IsSequence
  <2>6. \A i \in DOMAIN matches : fields[i] \in Members(fields)
                                  /\ matches[i] = Match(fields[i])
    BY <2>4, <2>5 DEF Members
  <2>7. \A field \in Members(fields) : \E i \in DOMAIN matches :
           matches[i] = Match(field)
    BY <2>4, <2>5 DEF Members
  <2> HIDE DEF matches
  <2>8. ArePredicates(row, matches) /\ matches # <<>>
    BY <2>3, <2>5, <2>6 DEF ArePredicates
  <2>9. /\ p # Null /\ Evaluation(row, p) \in Truths
        /\ Evaluation(row, p) = "true"
              <=> \E i \in DOMAIN matches : Evaluation(row, matches[i]) = "true"
    BY <2>8, DisjunctionsHold
  <2> HIDE DEF p
  <2>10. Evaluation(row, p) = "true" <=> \E field \in SearchFields(d) :
            Satisfies(row[field], "icontains", q.search)
    BY <2>1, <2>3, <2>6, <2>7, <2>9
  <2>11. /\ ArePredicates(row, <<p>>)
         /\ AllHold(row, <<p>>) <=> Evaluation(row, p) = "true"
    BY <2>9, NoneOrOne
  <2> QED BY <1>2, <2>2, <2>10, <2>11
<1> QED BY <1>1, <1>2

LEMMA DeletedSelects ==
    ASSUME IsEvaluation, MarkersAreApart, NEW d, NEW q, q.deleted \in Modes,
           NEW row
    PROVE  LET parts == DeletedPredicate(d, q)
           IN  /\ ArePredicates(row, parts)
               /\ AllHold(row, parts) <=>
                     (d.softDelete # None /\ q.deleted # "include" =>
                        (row[d.softDelete] # Null) = (q.deleted = "only"))
<1>1. CASE d.softDelete = None \/ q.deleted = "include"
  <2>1. DeletedPredicate(d, q) = <<>>
    BY <1>1 DEF DeletedPredicate
  <2> QED BY <1>1, <2>1, NoneOrOne
<1>2. CASE ~(d.softDelete = None \/ q.deleted = "include")
  <2> DEFINE live == q.deleted = "exclude"
             value == row[d.softDelete]
             p == Comparison(d.softDelete, "isnull", live)
  <2>1. DeletedPredicate(d, q) = <<p>>
    BY <1>2 DEF DeletedPredicate
  <2>2. Evaluation(row, p) = Truth((value = Null) = live)
    <3>1. Evaluation(row, p) = MemoryComparison("isnull", value, live)
      BY ComparisonsEvaluate
    <3> HIDE DEF live, value, p
    <3>2. MemoryComparison("isnull", value, live) = Truth((value = Null) = live)
      BY DEF MemoryComparison
    <3> QED BY <3>1, <3>2
  <2>3. p # Null
    BY DEF MarkersAreApart
  <2>4. (value = Null) = live <=> (value # Null) = (q.deleted = "only")
    BY <1>2 DEF Modes
  <2> HIDE DEF p, value, live
  <2>5. /\ Evaluation(row, p) \in Truths
        /\ Evaluation(row, p) = "true" <=> ((value = Null) = live)
    BY <2>2 DEF Truth, Truths
  <2>6. /\ ArePredicates(row, <<p>>)
        /\ AllHold(row, <<p>>) <=> Evaluation(row, p) = "true"
    BY <2>3, <2>5, NoneOrOne
  <2> QED BY <1>2, <2>1, <2>4, <2>5, <2>6 DEF value
<1> QED BY <1>1, <1>2

LEMMA PathParamsSelect ==
    ASSUME IsEvaluation, MarkersAreApart, NEW d, Accepted(d), HasSequences(d),
           NEW parent, NEW row
    PROVE  LET parts == PathParamsPredicate(d, parent)
               fixed == Fixed(d, parent)
           IN  /\ ArePredicates(row, parts)
               /\ AllHold(row, parts)
                     <=> \A field \in DOMAIN fixed : row[field] = fixed[field]
<1> DEFINE fixed == Fixed(d, parent)
           fields == SetToSeq(DOMAIN fixed)
           Equal(field) == Comparison(field, "eq", fixed[field])
           parts == PathParamsPredicate(d, parent)
<1>1. IsFiniteSet(DOMAIN fixed)
  <2>1. DOMAIN fixed \subseteq Members(d.fields)
    BY PathFieldsAreIdFields DEF Accepted, FieldsAreSound
  <2> QED BY <2>1, MembersAreFinite, FS_Subset DEF HasSequences
<1>2. /\ IsSequence(fields)
      /\ \A i \in DOMAIN fields : fields[i] \in DOMAIN fixed
      /\ \A field \in DOMAIN fixed : \E i \in DOMAIN fields : fields[i] = field
  BY <1>1, SetsAsSequences
<1>3. Len(fields) \in Nat /\ DOMAIN fields = 1..Len(fields)
  BY <1>2, SequencesAre
<1>4. parts = [i \in DOMAIN fields |-> Equal(fields[i])]
  BY DEF PathParamsPredicate, Equalities
<1>5. ASSUME NEW field
      PROVE  /\ Equal(field) # Null /\ Evaluation(row, Equal(field)) \in Truths
             /\ Evaluation(row, Equal(field)) = "true" <=> row[field] = fixed[field]
  <2> DEFINE a == row[field]
             b == fixed[field]
             truth == MemoryComparison("eq", a, b)
  <2>1. truth = IF Null \in {a, b}
                THEN IF b = Null THEN Truth(a = Null) ELSE Unknown
                ELSE Truth(a = b)
    BY DEF MemoryComparison
  <2>2. Evaluation(row, Equal(field)) = truth
    BY ComparisonsEvaluate
  <2>3. Equal(field) # Null
    BY DEF MarkersAreApart
  <2> HIDE DEF a, b, truth, Equal
  <2>4. truth \in Truths /\ (truth = "true" <=> a = b)
    BY <2>1 DEF Truth, Truths, Unknown
  <2> QED BY <2>2, <2>3, <2>4 DEF a, b
<1> HIDE DEF fields, fixed, Equal, parts
<1>6. IsSequence(parts) /\ DOMAIN parts = DOMAIN fields
  BY <1>3, <1>4 DEF IsSequence
<1>7. \A i \in DOMAIN parts : parts[i] = Equal(fields[i])
  BY <1>4
<1>8. ArePredicates(row, parts)
  BY <1>5, <1>6, <1>7 DEF ArePredicates
<1>9. AllHold(row, parts)
         <=> \A field \in DOMAIN fixed : row[field] = fixed[field]
  BY <1>2, <1>5, <1>6, <1>7 DEF AllHold
<1> QED BY <1>8, <1>9 DEF parts, fixed

LEMMA ScopeSelects ==
    ASSUME app \in Applications, NEW r \in Resources, NEW row \in Stored(app)
    PROVE  LET scope == Binding(r).scope
           IN  /\ ArePredicates(row, ScopePredicate(r))
               /\ AllHold(row, ScopePredicate(r))
                     <=> (scope # None => Matches(row, scope))
<1> DEFINE scope == Binding(r).scope
<1>1. scope # None => scope # Null /\ Evaluation(row, scope) \in Truths
  BY ScopesAssumption DEF Binding, Truths
<1>2. ScopePredicate(r) = IF scope = None THEN <<>> ELSE <<scope>>
  BY DEF ScopePredicate
<1> HIDE DEF scope
<1>3. CASE scope = None
  BY <1>2, <1>3, NoneOrOne DEF scope
<1>4. CASE scope # None
  <2>1. /\ ArePredicates(row, <<scope>>)
        /\ AllHold(row, <<scope>>) <=> Evaluation(row, scope) = "true"
    BY <1>1, <1>4, NoneOrOne
  <2>2. Matches(row, scope) <=> Evaluation(row, scope) = "true"
    BY <1>1, <1>4 DEF Matches
  <2> QED BY <1>2, <1>4, <2>1, <2>2 DEF scope
<1> QED BY <1>3, <1>4

\* The parameters of a query that its predicate is made from.
HasParameters(d, q) ==
    /\ q.search # None => /\ d.search # None /\ ~HasFullText(d)
                          /\ q.search \in Int
    /\ q.deleted \in Modes

LEMMA ParametersAreSound ==
    ASSUME NEW d, Accepted(d), NEW raw, ~IsFullText(raw, d),
           NEW mode, IsAllowed(d, raw, mode), NEW q,
           q.search = OptionalText(raw, "search", None),
           q.deleted = OptionalText(raw, "deleted", "exclude")
    PROVE  HasParameters(d, q)
<1>1. q.search # None => /\ d.search # None /\ ~HasFullText(d)
                         /\ q.search \in Int
  <2> SUFFICES ASSUME q.search # None
               PROVE  d.search # None /\ ~HasFullText(d) /\ q.search \in Int
    OBVIOUS
  <2>1. Occurs(raw, "search") /\ q.search = Scalar(raw, "search")[1]
    BY DEF OptionalText
  <2>2. d.search # None /\ q.search \in Given(d.search.minLength, 1)
                                            ..Given(d.search.maxLength, 200)
    BY <2>1 DEF IsAllowed, SearchIsAllowed
  <2>3. Given(d.search.minLength, 1) \in Int /\ Given(d.search.maxLength, 200) \in Int
    <3>1. /\ PositiveOrNone(d.search.minLength)
          /\ PositiveOrNone(d.search.maxLength)
      BY <2>2 DEF Accepted, QueryIsSound, SearchIsSound
    <3> QED BY <3>1, MaxSafeAssumption DEF PositiveOrNone, Given
  <2>4. ~HasFullText(d)
    BY <2>1 DEF IsFullText
  <2> QED BY <2>2, <2>3, <2>4
<1>2. Occurs(raw, "deleted") => Scalar(raw, "deleted")[1] \in Modes
  BY DEF IsAllowed, DeletedIsAllowed
<1>3. q.deleted \in Modes
  BY <1>2 DEF OptionalText, Modes
<1> QED BY <1>1, <1>3 DEF HasParameters

(* What the predicate of a list selects: the rows that satisfy its parts.  *)
LEMMA ListsSelect ==
    ASSUME IsEvaluation, MarkersAreApart, IsCoherent, RowsOK, NEW r \in Bound,
           NEW parent, NEW q, HasParameters(Definition(r), q),
           NEW row \in Stored(app), ArePredicates(row, q.filters)
    PROVE  LET d == Definition(r)
               fixed == Fixed(d, parent)
               scope == Binding(r).scope
           IN  Matches(row, ListPredicate(r, q, parent)) <=>
                  /\ AllHold(row, q.filters)
                  /\ q.search # None => \E field \in SearchFields(d) :
                        Satisfies(row[field], "icontains", q.search)
                  /\ d.softDelete # None /\ q.deleted # "include"
                        => (row[d.softDelete] # Null) = (q.deleted = "only")
                  /\ \A field \in DOMAIN fixed : row[field] = fixed[field]
                  /\ scope # None => Matches(row, scope)
<1> DEFINE d == Definition(r)
           fixed == Fixed(d, parent)
           scope == Binding(r).scope
           f == q.filters
           s == SearchPredicate(d, q)
           x == DeletedPredicate(d, q)
           p == PathParamsPredicate(d, parent)
           c == ScopePredicate(r)
           predicate == ListPredicate(r, q, parent)
<1>1. /\ Accepted(d) /\ HasSequences(d) /\ IsStorage(d, Stored(app))
      /\ app \in Applications /\ r \in Resources
  BY RowsAreStorage DEF RowsOK, Bound
<1>2. \A field \in Members(d.fields) : row[field] \in Value
  BY <1>1 DEF IsStorage, Value
<1>3. ArePredicates(row, f)
  OBVIOUS
<1>4. /\ ArePredicates(row, s)
      /\ AllHold(row, s) <=>
            (q.search # None => \E field \in SearchFields(d) :
                Satisfies(row[field], "icontains", q.search))
  BY <1>1, <1>2, SearchSelects DEF HasParameters
<1>5. /\ ArePredicates(row, x)
      /\ AllHold(row, x) <=>
            (d.softDelete # None /\ q.deleted # "include" =>
               (row[d.softDelete] # Null) = (q.deleted = "only"))
  BY DeletedSelects DEF HasParameters
<1>6. /\ ArePredicates(row, p)
      /\ AllHold(row, p) <=> \A field \in DOMAIN fixed : row[field] = fixed[field]
  BY <1>1, PathParamsSelect
<1>7. /\ ArePredicates(row, c)
      /\ AllHold(row, c) <=> (scope # None => Matches(row, scope))
  BY <1>1, ScopeSelects
<1>8. predicate = Combine("and", f \o s \o x \o p \o c, Null)
  BY DEF ListPredicate
<1> HIDE DEF d, fixed, scope, f, s, x, p, c, predicate
<1>9. /\ ArePredicates(row, f \o s)
      /\ AllHold(row, f \o s) <=> AllHold(row, f) /\ AllHold(row, s)
  BY <1>3, <1>4, PredicatesJoin
<1>10. /\ ArePredicates(row, f \o s \o x)
       /\ AllHold(row, f \o s \o x) <=> AllHold(row, f \o s) /\ AllHold(row, x)
  BY <1>5, <1>9, PredicatesJoin
<1>11. /\ ArePredicates(row, f \o s \o x \o p)
       /\ AllHold(row, f \o s \o x \o p)
             <=> AllHold(row, f \o s \o x) /\ AllHold(row, p)
  BY <1>6, <1>10, PredicatesJoin
<1>12. /\ ArePredicates(row, f \o s \o x \o p \o c)
       /\ AllHold(row, f \o s \o x \o p \o c)
             <=> AllHold(row, f \o s \o x \o p) /\ AllHold(row, c)
  BY <1>7, <1>11, PredicatesJoin
<1>13. Matches(row, predicate) <=> AllHold(row, f \o s \o x \o p \o c)
  BY <1>8, <1>12, ConjunctionsMatch
<1>14. Matches(row, predicate)
          <=> /\ AllHold(row, f) /\ AllHold(row, s) /\ AllHold(row, x)
              /\ AllHold(row, p) /\ AllHold(row, c)
  BY <1>9, <1>10, <1>11, <1>12, <1>13
<1>15. Matches(row, predicate) <=>
          /\ AllHold(row, f)
          /\ q.search # None => \E field \in SearchFields(d) :
                Satisfies(row[field], "icontains", q.search)
          /\ d.softDelete # None /\ q.deleted # "include"
                => (row[d.softDelete] # Null) = (q.deleted = "only")
          /\ \A field \in DOMAIN fixed : row[field] = fixed[field]
          /\ scope # None => Matches(row, scope)
  BY <1>4, <1>5, <1>6, <1>7, <1>14
<1> QED BY <1>15 DEF d, fixed, scope, f, predicate

(* An offset query selects the rows that the request asks for.             *)
LEMMA OffsetQueriesSelect ==
    ASSUME IsEvaluation, MarkersAreApart, IsCoherent, RowsOK, NEW r \in Bound,
           NEW raw, IsRawQuery(raw), ~IsFullText(raw, Definition(r)),
           NEW parent, NEW q, IsListQuery(r, raw, parent, q),
           q.page.mode = "offset"
    PROVE  Selected(ListPredicate(r, q, parent))
              = AskedFor(Definition(r), q, Fixed(Definition(r), parent),
                         Binding(r).scope)
<1> DEFINE d == Definition(r)
           fixed == Fixed(d, parent)
           scope == Binding(r).scope
           predicate == ListPredicate(r, q, parent)
<1>1. /\ Accepted(d) /\ HasSequences(d) /\ IsStorage(d, Stored(app))
      /\ \A k \in Held : rows[k] \in Stored(app)
  BY RowsAreStorage
<1>2. /\ q = ListQueryOf(raw, q.page, q.order)
      /\ IsAllowed(d, raw, "offset")
  BY DEF IsListQuery
<1>3. q.filters = FilterPredicates(raw)
  <2>1. q.filters = FilterPredicates(raw) \o <<>>
    BY <1>2 DEF ListQueryOf, Continues
  <2>2. IsSequence(FilterPredicates(raw))
    BY <1>1, <1>2, FiltersAre DEF IsAllowed
  <2>3. FilterPredicates(raw) \in Seq(Members(FilterPredicates(raw)))
    BY <2>2, SequencesAre
  <2> HIDE DEF d
  <2> QED BY <2>1, <2>3
<1>4. HasParameters(d, q)
  <2>1. /\ q.search = OptionalText(raw, "search", None)
        /\ q.deleted = OptionalText(raw, "deleted", "exclude")
    BY <1>2 DEF ListQueryOf
  <2> HIDE DEF d
  <2> QED BY <1>1, <1>2, <2>1, ParametersAreSound DEF d
<1>5. ASSUME NEW k \in Held
      PROVE  Matches(rows[k], predicate)
                <=> /\ IsAskedFor(rows[k], d, q, fixed)
                    /\ scope # None => Matches(rows[k], scope)
  <2> DEFINE row == rows[k]
  <2>1. \A field \in Members(d.fields) : row[field] \in Value
    BY <1>1 DEF IsStorage, Value
  <2>2. row \in Stored(app)
    BY <1>1
  <2> HIDE DEF row
  <2>3. /\ ArePredicates(row, q.filters)
        /\ AllHold(row, q.filters) <=> \A n \in DOMAIN q.filters :
              Satisfies(row[q.filters[n].field], q.filters[n].operator,
                        q.filters[n].value)
    BY <1>1, <1>2, <1>3, <2>1, FiltersSelect DEF IsAllowed
  <2>4. Matches(row, predicate) <=>
           /\ AllHold(row, q.filters)
           /\ q.search # None => \E field \in SearchFields(d) :
                 Satisfies(row[field], "icontains", q.search)
           /\ d.softDelete # None /\ q.deleted # "include"
                 => (row[d.softDelete] # Null) = (q.deleted = "only")
           /\ \A field \in DOMAIN fixed : row[field] = fixed[field]
           /\ scope # None => Matches(row, scope)
    BY <1>4, <2>2, <2>3, ListsSelect
  <2> HIDE DEF d, fixed, scope, predicate
  <2>5. Matches(row, predicate) <=> /\ IsAskedFor(row, d, q, fixed)
                                    /\ scope # None => Matches(row, scope)
    BY <2>3, <2>4 DEF IsAskedFor
  <2> QED BY <2>5 DEF row
<1> HIDE DEF d, fixed, scope, predicate
<1>6. Selected(predicate) = AskedFor(d, q, fixed, scope)
  BY <1>5 DEF Selected, AskedFor, Held
<1> QED BY <1>6 DEF d, fixed, scope, predicate

(* The i-th element of a list has i - 1 elements before it.                *)
LEMMA PlaceIsRank ==
    ASSUME NEW S, IsFiniteSet(S), NEW before, IsTotalOrder(S, before),
           NEW s, Lists(s, S, before), NEW i \in 1..Cardinality(S)
    PROVE  Cardinality({x \in S : <<x, s[i]>> \in before}) = i - 1
<1> DEFINE N == Cardinality(S)
           Below == {x \in S : <<x, s[i]>> \in before}
           t == [j \in 1..(i - 1) |-> s[j]]
<1>1. N \in Nat
  BY FS_CardinalityType
<1>2. /\ s \in [1..N -> S]
      /\ \A j, k \in 1..N : j < k => <<s[j], s[k]>> \in before
      /\ \A x \in S : \E j \in 1..N : s[j] = x
  BY DEF Lists
<1>3. \A x : x \in Below <=> x \in S /\ <<x, s[i]>> \in before
  OBVIOUS
<1>4. /\ \A x \in S : <<x, x>> \notin before
      /\ \A x, y \in S : <<x, y>> \in before => <<y, x>> \notin before
  BY DEF IsTotalOrder
<1>5. i \in 1..N
  OBVIOUS
<1> HIDE DEF N, Below
<1>6. \A j \in 1..N : <<s[j], s[i]>> \in before <=> j < i
  <2> SUFFICES ASSUME NEW j \in 1..N
               PROVE  <<s[j], s[i]>> \in before <=> j < i
    OBVIOUS
  <2>1. j < i \/ j = i \/ i < j
    BY <1>1, <1>5
  <2>2. s[i] \in S /\ s[j] \in S
    BY <1>2, <1>5
  <2>3. j < i => <<s[j], s[i]>> \in before
    BY <1>2, <1>5
  <2>4. j = i => <<s[j], s[i]>> \notin before
    BY <1>4, <2>2
  <2>5. i < j => <<s[j], s[i]>> \notin before
    BY <1>2, <1>4, <1>5, <2>2
  <2>6. j = i \/ i < j => ~(j < i)
    BY <1>1, <1>5
  <2> QED BY <2>1, <2>3, <2>4, <2>5, <2>6
<1>7. \A j \in 1..(i - 1) : j \in 1..N /\ j < i
  BY <1>1, <1>5
<1>8. \A j \in 1..N : j < i => j \in 1..(i - 1)
  BY <1>1, <1>5
<1>9. t \in [1..(i - 1) -> Below]
  BY <1>2, <1>3, <1>6, <1>7
<1>10. \A x \in Below : \E j \in 1..(i - 1) : t[j] = x
  BY <1>2, <1>3, <1>6, <1>8
<1>11. t \in Surjection(1..(i - 1), Below)
  BY <1>9, <1>10 DEF Surjection
<1>12. t \in Injection(1..(i - 1), Below)
  <2>1. ASSUME NEW j \in 1..(i - 1), NEW k \in 1..(i - 1), j < k
        PROVE  t[j] # t[k]
    <3>1. j \in 1..N /\ k \in 1..N
      BY <1>7
    <3>2. <<s[j], s[k]>> \in before /\ s[j] \in S
      BY <1>2, <2>1, <3>1
    <3>3. s[j] # s[k]
      BY <1>4, <3>2
    <3> QED BY <3>3
  <2>2. ASSUME NEW j \in 1..(i - 1), NEW k \in 1..(i - 1), j # k
        PROVE  t[j] # t[k]
    <3>1. j < k \/ k < j
      BY <1>1, <1>5, <2>2
    <3> QED BY <2>1, <3>1
  <2> HIDE DEF t
  <2> QED BY <1>9, <2>2 DEF Injection, IsInjective
<1>13. IsFiniteSet(1..(i - 1)) /\ Cardinality(1..(i - 1)) = i - 1
  <2>1. i - 1 \in Int
    BY <1>1, <1>5
  <2>2. /\ IsFiniteSet(1..(i - 1))
        /\ Cardinality(1..(i - 1)) = IF 1 > i - 1 THEN 0 ELSE (i - 1) - 1 + 1
    BY <2>1, FS_Interval
  <2> QED BY <1>1, <1>5, <2>2
<1>14. Cardinality(Below) = i - 1
  <2> HIDE DEF t
  <2>1. Cardinality(Below) = Cardinality(1..(i - 1))
    BY <1>11, <1>12, <1>13, FS_Surjection
  <2> QED BY <1>13, <2>1
<1> QED BY <1>14 DEF Below

(* The rows that a query selects stand at their ranks.                     *)
LEMMA SelectedRowsHaveRanks ==
    ASSUME IsCoherent, RowsOK, NEW r \in Bound, NEW order,
           IsOrderOf(Definition(r), order), NEW predicate
    PROVE  LET keys == Selected(predicate)
               all == InOrder(keys, order)
               N == Cardinality(keys)
           IN  /\ N \in Nat /\ all \in [1..N -> keys]
               /\ \A k \in keys : \E m \in 1..N : all[m] = k
               /\ \A m \in 1..N : Rank(all[m], keys, order) = m - 1
<1> DEFINE keys == Selected(predicate)
           all == InOrder(keys, order)
           before == Preceding(keys, order)
           N == Cardinality(keys)
<1>1. keys \subseteq Held
  BY DEF Selected, Held
<1> HIDE DEF keys
<1>2. IsFiniteSet(keys) /\ IsTotalOrder(keys, before) /\ Lists(all, keys, before)
  BY <1>1, HeldRowsAreSorted
<1>3. N \in Nat
  BY <1>2, FS_CardinalityType
<1>4. /\ all \in [1..N -> keys]
      /\ \A k \in keys : \E m \in 1..N : all[m] = k
  BY <1>2 DEF Lists
<1> HIDE DEF all
<1>5. ASSUME NEW m \in 1..N PROVE Rank(all[m], keys, order) = m - 1
  <2>1. all[m] \in keys
    BY <1>4
  <2>2. {l \in keys : ComesBefore(rows[l], rows[all[m]], order)}
           = {l \in keys : <<l, all[m]>> \in before}
    BY <2>1 DEF Preceding
  <2> HIDE DEF before
  <2>3. Cardinality({l \in keys : <<l, all[m]>> \in before}) = m - 1
    BY <1>2, PlaceIsRank
  <2> QED BY <2>2, <2>3 DEF Rank
<1> QED BY <1>3, <1>4, <1>5 DEF keys, all

LEMMA OffsetPagesAreTruePages ==
    ASSUME IsEvaluation, MarkersAreApart, IsCoherent, RowsOK, NEW r \in Bound,
           NEW raw, IsRawQuery(raw), ~IsFullText(raw, Definition(r)),
           NEW parent, NEW q, IsListQuery(r, raw, parent, q),
           NEW page, IsAnswer(r, parent, q, page), q.page.mode = "offset"
    PROVE  IsTruePage(page, q.page.limit, q.order,
                      (q.page.page - 1) * q.page.limit,
                      AskedFor(Definition(r), q, Fixed(Definition(r), parent),
                               Binding(r).scope))
<1> DEFINE predicate == ListPredicate(r, q, parent)
           asked == AskedFor(Definition(r), q, Fixed(Definition(r), parent),
                             Binding(r).scope)
           order == q.order
           limit == q.page.limit
           number == q.page.page
           offset == (number - 1) * limit
           all == InOrder(asked, order)
           N == Cardinality(asked)
           data == FindMany(predicate, order, offset, limit)
<1>1. Selected(predicate) = asked
  BY OffsetQueriesSelect
<1>2. /\ limit \in 1..MaxSafe /\ number \in 1..MaxSafe
      /\ OffsetIsSafe(number, limit) /\ IsOrderOf(Definition(r), order)
  BY DEF IsListQuery, IsPage
<1>3. page = OffsetPageOf(q, N, TotalPages(N, limit), data)
  BY <1>1 DEF IsAnswer
<1>4. /\ page.total = N /\ page.data = data
      /\ page.hasNextPage = (number < TotalPages(N, limit))
  BY <1>3 DEF OffsetPageOf
<1> HIDE DEF predicate, asked, order, limit, number
<1>5. limit \in Nat /\ limit > 0 /\ number \in Nat /\ number > 0
  BY <1>2, MaxSafeAssumption
<1>6. /\ offset \in Nat /\ offset <= MaxSafe
      /\ number * limit = offset + limit
  <2>1. number - 1 \in Nat
    BY <1>5
  <2>2. (number - 1) * limit \in Nat
    BY <1>5, <2>1
  <2>3. number * limit = (number - 1) * limit + limit
    BY <1>5
  <2> QED BY <1>2, <2>2, <2>3 DEF OffsetIsSafe
<1> HIDE DEF offset
<1>7. /\ N \in Nat /\ all \in [1..N -> asked]
      /\ \A k \in asked : \E m \in 1..N : all[m] = k
      /\ \A m \in 1..N : Rank(all[m], asked, order) = m - 1
  BY <1>1, <1>2, SelectedRowsHaveRanks
<1>8. /\ IsSequence(data)
      /\ Len(data) = IF N - offset < 0 THEN 0
                     ELSE IF N - offset < limit THEN N - offset ELSE limit
      /\ \A i \in DOMAIN data : data[i] = all[offset + i] /\ data[i] \in asked
  BY <1>1, <1>2, <1>5, <1>6, FoundRowsAreSelected
<1> HIDE DEF all, N, data
<1>9. DOMAIN data = 1..Len(data) /\ Len(data) \in Nat
  BY <1>8, SequencesAre
<1>10. ASSUME NEW k \in asked, NEW i \in 1..limit
       PROVE  Rank(k, asked, order) = offset + i - 1
                 <=> i \in DOMAIN data /\ data[i] = k
  <2>1. PICK m \in 1..N : all[m] = k
    BY <1>7
  <2>2. Rank(k, asked, order) = m - 1
    BY <1>7, <2>1
  <2>3. m - 1 = offset + i - 1 <=> m = offset + i
    BY <1>5, <1>6, <1>7
  <2>4. ASSUME m = offset + i PROVE i \in DOMAIN data /\ data[i] = k
    <3>1. i \in 1..Len(data)
      BY <1>5, <1>6, <1>7, <1>8, <2>4
    <3> QED BY <1>8, <1>9, <2>1, <2>4, <3>1
  <2>5. ASSUME i \in DOMAIN data, data[i] = k PROVE m = offset + i
    <3>1. i \in 1..Len(data) /\ Len(data) \in Nat
      BY <1>9, <2>5
    <3>2. Len(data) = 0 \/ Len(data) <= N - offset
      BY <1>5, <1>6, <1>7, <1>8
    <3>3. offset + i \in 1..N
      BY <1>6, <1>7, <3>1, <3>2
    <3>4. all[offset + i] = k
      BY <1>8, <2>5
    <3>5. Rank(k, asked, order) = (offset + i) - 1
      BY <1>7, <3>3, <3>4
    <3>6. m - 1 = (offset + i) - 1
      BY <2>2, <3>5
    <3>7. m \in Int /\ offset + i \in Int
      BY <1>6, <1>7, <3>1
    <3> QED BY <3>6, <3>7
  <2> QED BY <2>2, <2>3, <2>4, <2>5
<1>11. page.hasNextPage <=> offset + limit < N
  <2>1. \A n \in Nat : n < TotalPages(N, limit) <=> n * limit < N
    BY <1>5, <1>7, PagesAreFew
  <2>2. number < TotalPages(N, limit) <=> number * limit < N
    BY <1>5, <2>1
  <2> QED BY <1>4, <1>6, <2>2
<1>12. (\E k \in asked : Rank(k, asked, order) >= offset + limit)
          <=> offset + limit < N
  <2>1. ASSUME NEW k \in asked, Rank(k, asked, order) >= offset + limit
        PROVE  offset + limit < N
    <3>1. PICK m \in 1..N : all[m] = k
      BY <1>7
    <3>2. Rank(k, asked, order) = m - 1
      BY <1>7, <3>1
    <3> QED BY <1>5, <1>6, <1>7, <2>1, <3>2
  <2>2. ASSUME offset + limit < N
        PROVE  \E k \in asked : Rank(k, asked, order) >= offset + limit
    <3>1. N \in 1..N
      BY <1>5, <1>6, <1>7, <2>2
    <3>2. all[N] \in asked /\ Rank(all[N], asked, order) = N - 1
      BY <1>7, <3>1
    <3>3. N - 1 >= offset + limit
      BY <1>5, <1>6, <1>7, <2>2
    <3> QED BY <3>2, <3>3
  <2> QED BY <2>1, <2>2
<1>13. Members(data) \subseteq asked
  BY <1>8 DEF Members
<1>14. IsTruePage(page, limit, order, offset, asked)
  BY <1>4, <1>6, <1>10, <1>11, <1>12, <1>13 DEF IsTruePage, N
<1> QED BY <1>14 DEF asked, order, limit, number, offset

(* Every page that an offset query is answered with is true: the rows it   *)
(* shows, their places, the total and what is said of the next page follow *)
(* from the table and the request alone.                                   *)
THEOREM PagesAreTrue ==
    ASSUME IsEvaluation, MarkersAreApart
    PROVE  Spec => []OffsetPagesAreTrue
<1>1. ASSUME AppInv PROVE OffsetPagesAreTrue
  <2> SUFFICES ASSUME answer.page.kind = "page", answer.page.mode = "offset",
                      ~IsFullText(answer.raw, Definition(answer.resource))
               PROVE  IsTrueFor(Query(answer.resource, answer.raw, answer.parent),
                                answer.resource, answer.parent)
    BY DEF OffsetPagesAreTrue
  <2>1. answer # Nothing
    BY DEF Nothing
  <2>2. PICK r, raw, parent, page, q :
           /\ r = answer.resource /\ raw = answer.raw
           /\ parent = answer.parent /\ page = answer.page
           /\ q = Query(r, raw, parent)
    OBVIOUS
  <2>3. /\ IsCoherent /\ RowsOK /\ r \in Bound /\ IsRawQuery(raw)
        /\ \/ q = Refused /\ page = Refused /\ raw # <<>>
           \/ IsListQuery(r, raw, parent, q) /\ IsAnswer(r, parent, q, page)
    BY <1>1, <2>1, <2>2, AnswersAreSound
  <2>4. IsListQuery(r, raw, parent, q) /\ IsAnswer(r, parent, q, page)
    BY <2>2, <2>3 DEF Refused
  <2>5. q.page.mode = "offset" /\ ~IsFullText(raw, Definition(r))
    BY <2>2, <2>4 DEF IsAnswer
  <2>6. IsTruePage(page, q.page.limit, q.order,
                   (q.page.page - 1) * q.page.limit,
                   AskedFor(Definition(r), q, Fixed(Definition(r), parent),
                            Binding(r).scope))
    BY <2>3, <2>4, <2>5, OffsetPagesAreTruePages
  <2>7. IsTrueFor(q, r, parent)
    BY <2>2, <2>6 DEF IsTrueFor
  <2> QED BY <2>2, <2>7
<1> QED BY <1>1, AppInvInit, AppInvNext, PTL DEF Spec

(***************************************************************************)
(* The rows after a cursor                                                 *)
(***************************************************************************)
(* A conjunction of predicates, one or more, holds if all of them do.      *)
LEMMA ConjunctionsHold ==
    ASSUME IsEvaluation, MarkersAreApart, NEW row, NEW parts,
           ArePredicates(row, parts), parts # <<>>
    PROVE  LET p == Combine("and", parts, Null)
           IN  /\ p # Null /\ Evaluation(row, p) \in Truths
               /\ Evaluation(row, p) = "true" <=> AllHold(row, parts)
<1> DEFINE p == Combine("and", parts, Null)
<1>1. IsSequence(parts) /\ Len(parts) \in Nat /\ DOMAIN parts = 1..Len(parts)
  BY SequencesAre DEF ArePredicates
<1>2. CASE Len(parts) = 1
  <2>1. p = parts[1] /\ 1 \in DOMAIN parts
    BY <1>1, <1>2 DEF Combine
  <2>2. p # Null /\ Evaluation(row, p) \in Truths
    BY <2>1 DEF ArePredicates
  <2> HIDE DEF p
  <2>3. Matches(row, p) <=> Evaluation(row, p) = "true"
    BY <2>2 DEF Matches
  <2> QED BY <2>2, <2>3, ConjunctionsMatch DEF p
<1>3. CASE Len(parts) # 1
  <2> DEFINE truths == {Evaluation(row, parts[j]) : j \in DOMAIN parts}
  <2>1. p = [kind |-> "and", predicates |-> parts]
    BY <1>3 DEF Combine
  <2>2. p # Null /\ p.kind = "and" /\ p.predicates = parts
    BY <2>1 DEF MarkersAreApart
  <2> HIDE DEF p
  <2>3. Evaluation(row, p) = NodeTruth(Evaluation, row, p)
    BY DEF IsEvaluation
  <2>4. Evaluation(row, p) = And3(truths)
    BY <2>2, <2>3 DEF NodeTruth
  <2>5. Evaluation(row, p) \in Truths
    <3> HIDE DEF truths
    <3> QED BY <2>4 DEF And3, Truths, Unknown
  <2>6. Matches(row, p) <=> Evaluation(row, p) = "true"
    BY <2>2 DEF Matches
  <2> QED BY <2>2, <2>5, <2>6, ConjunctionsMatch DEF p
<1> QED BY <1>2, <1>3

\* An order with a direction for every field, and as many numbers as it has.
IsDirected(order) ==
    /\ IsSequence(order) /\ order # <<>>
    /\ \A i \in DOMAIN order : order[i].direction \in {"asc", "desc"}
AreNumbers(values, order) ==
    /\ Len(values) = Len(order) /\ \A i \in DOMAIN order : values[i] \in Int

\* In the direction of the item, b lies after a.
Beyond(item, a, b) == IF item.direction = "asc" THEN a < b ELSE b < a

LEMMA AdvancesHold ==
    ASSUME IsEvaluation, NEW item, NEW value \in Int, NEW row,
           row[item.field] \in Int
    PROVE  LET truth == Evaluation(row, Advances(item, value))
           IN  /\ truth \in Truths
               /\ truth = "true" <=> Beyond(item, value, row[item.field])
<1> DEFINE a == row[item.field]
           operator == IF item.direction = "asc" THEN "gt" ELSE "lt"
           truth == Evaluation(row, Advances(item, value))
<1>1. truth = MemoryComparison(operator, a, value)
  BY ComparisonsEvaluate DEF Advances
<1>2. MemoryComparison(operator, a, value) = MemoryCompares(operator, a, value)
  BY DEF MemoryComparison
<1>3. a \in Int /\ Null \notin {a, value}
  BY RowsAssumption
<1> HIDE DEF a, truth
<1>4. MemoryCompares(operator, a, value) = Truth(Holds(operator, a, value))
  BY <1>3 DEF MemoryCompares
<1>5. Holds(operator, a, value) <=> Beyond(item, value, a)
  BY <1>3 DEF Holds, Beyond
<1>6. truth = Truth(Beyond(item, value, a))
  BY <1>1, <1>2, <1>4, <1>5 DEF Truth
<1>7. truth \in Truths /\ (truth = "true" <=> Beyond(item, value, a))
  BY <1>6 DEF Truth, Truths
<1> QED BY <1>7 DEF truth, a

LEMMA EqualitiesHold ==
    ASSUME IsEvaluation, NEW field, NEW value \in Int, NEW row,
           row[field] \in Int
    PROVE  LET truth == Evaluation(row, Comparison(field, "eq", value))
           IN  truth \in Truths /\ (truth = "true" <=> row[field] = value)
<1> DEFINE a == row[field]
           truth == MemoryComparison("eq", a, value)
<1>1. truth = IF Null \in {a, value}
              THEN IF value = Null THEN Truth(a = Null) ELSE Unknown
              ELSE Truth(a = value)
  BY DEF MemoryComparison
<1>2. Null \notin {a, value}
  BY RowsAssumption
<1> HIDE DEF a, truth
<1>3. truth \in Truths /\ (truth = "true" <=> a = value)
  BY <1>1, <1>2 DEF Truth, Truths, Unknown
<1> QED BY <1>3, ComparisonsEvaluate DEF a, truth

\* The row has a number in every field that the order compares.
HasNumbers(row, order) == \A i \in DOMAIN order : row[order[i].field] \in Int

(* One branch of a cursor's predicate: the row agrees with the cursor in   *)
(* the fields before, and lies beyond it in the branch's own.              *)
LEMMA BranchesHold ==
    ASSUME IsEvaluation, MarkersAreApart, NEW order, IsDirected(order),
           NEW values, AreNumbers(values, order), NEW row,
           HasNumbers(row, order), NEW i \in DOMAIN order
    PROVE  LET p == Branch(order, values, i)
           IN  /\ p # Null /\ Evaluation(row, p) \in Truths
               /\ Evaluation(row, p) = "true" <=>
                     /\ \A j \in 1..(i - 1) : row[order[j].field] = values[j]
                     /\ Beyond(order[i], values[i], row[order[i].field])
<1> DEFINE part(j) == IF j < i THEN Comparison(order[j].field, "eq", values[j])
                               ELSE Advances(order[i], values[i])
           parts == [j \in 1..i |-> part(j)]
           p == Branch(order, values, i)
<1>1. DOMAIN order = 1..Len(order) /\ Len(order) \in Nat /\ i \in 1..Len(order)
  BY SequencesAre DEF IsDirected
<1>2. i \in Nat /\ i >= 1 /\ \A j \in 1..i : j \in DOMAIN order /\ (j < i \/ j = i)
  BY <1>1
<1>3. IsSequence(parts) /\ DOMAIN parts = 1..i /\ parts # <<>>
  <2> HIDE DEF part
  <2>1. DOMAIN parts = 1..i /\ Len(parts) = i
    BY <1>2
  <2>2. parts # <<>>
    BY <1>2, <2>1
  <2> QED BY <1>2, <2>1, <2>2 DEF IsSequence
<1>4. p = Combine("and", parts, Null)
  BY DEF Branch
<1>5. ASSUME NEW j \in 1..i, j < i
      PROVE  /\ parts[j] # Null /\ Evaluation(row, parts[j]) \in Truths
             /\ Evaluation(row, parts[j]) = "true"
                   <=> row[order[j].field] = values[j]
  <2>1. parts[j] = Comparison(order[j].field, "eq", values[j])
    BY <1>5
  <2>2. values[j] \in Int /\ row[order[j].field] \in Int
    BY <1>2 DEF AreNumbers, HasNumbers
  <2>3. parts[j] # Null
    BY <2>1 DEF MarkersAreApart
  <2> HIDE DEF parts
  <2> QED BY <2>1, <2>2, <2>3, EqualitiesHold
<1>6. /\ parts[i] # Null /\ Evaluation(row, parts[i]) \in Truths
      /\ Evaluation(row, parts[i]) = "true"
            <=> Beyond(order[i], values[i], row[order[i].field])
  <2>1. parts[i] = Advances(order[i], values[i])
    BY <1>2
  <2>2. values[i] \in Int /\ row[order[i].field] \in Int
    BY DEF AreNumbers, HasNumbers
  <2>3. parts[i] # Null
    BY <2>1 DEF MarkersAreApart, Advances
  <2> HIDE DEF parts
  <2> DEFINE item == order[i]
             value == values[i]
  <2>4. value \in Int /\ row[item.field] \in Int
    BY <2>2
  <2> HIDE DEF item, value
  <2>5. /\ Evaluation(row, Advances(item, value)) \in Truths
        /\ Evaluation(row, Advances(item, value)) = "true"
             <=> Beyond(item, value, row[item.field])
    BY <2>4, AdvancesHold
  <2> QED BY <2>1, <2>3, <2>5 DEF item, value
<1> HIDE DEF parts, p
<1>7. ArePredicates(row, parts)
  BY <1>2, <1>3, <1>5, <1>6 DEF ArePredicates
<1>8. /\ p # Null /\ Evaluation(row, p) \in Truths
      /\ Evaluation(row, p) = "true" <=> AllHold(row, parts)
  BY <1>3, <1>4, <1>7, ConjunctionsHold
<1>9. \A j \in 1..(i - 1) : j \in 1..i /\ j < i
  BY <1>2
<1>10. \A j \in 1..i : j < i => j \in 1..(i - 1)
  BY <1>2
<1>11. i \in 1..i
  BY <1>2
<1>12. AllHold(row, parts) <=>
          /\ \A j \in 1..(i - 1) : row[order[j].field] = values[j]
          /\ Beyond(order[i], values[i], row[order[i].field])
  <2>1. AllHold(row, parts) <=>
          /\ \A j \in 1..(i - 1) : Evaluation(row, parts[j]) = "true"
          /\ Evaluation(row, parts[i]) = "true"
    BY <1>2, <1>3, <1>9, <1>10, <1>11 DEF AllHold
  <2>2. \A j \in 1..(i - 1) : Evaluation(row, parts[j]) = "true"
                                 <=> row[order[j].field] = values[j]
    BY <1>5, <1>9
  <2> QED BY <1>6, <2>1, <2>2
<1> QED BY <1>8, <1>12 DEF p

(* The position of a row in an order: its numbers, in sequence.            *)
LEMMA PositionsAre ==
    ASSUME NEW order, IsDirected(order), NEW values, AreNumbers(values, order)
    PROVE  LET p == Position(values, order)
           IN  /\ p \in Seq(Int) /\ Len(p) = Len(order)
               /\ DOMAIN p = DOMAIN order
               /\ \A i \in DOMAIN order :
                     p[i] = IF order[i].direction = "asc" THEN values[i]
                                                          ELSE -values[i]
<1> DEFINE n == Len(order)
           place(i) == IF order[i].direction = "asc" THEN values[i]
                                                     ELSE -values[i]
           p == Position(values, order)
<1>1. n \in Nat /\ DOMAIN order = 1..n
  BY SequencesAre DEF IsDirected
<1>2. \A i \in 1..n : place(i) \in Int
  BY <1>1 DEF AreNumbers
<1>3. p = [i \in 1..n |-> place(i)]
  BY <1>1 DEF Position
<1>4. \A i \in DOMAIN order : p[i] = place(i)
  BY <1>1, <1>3
<1> HIDE DEF p, n, place
<1>5. p \in Seq(Int) /\ Len(p) = n /\ DOMAIN p = 1..n
  BY <1>1, <1>2, <1>3
<1> QED BY <1>1, <1>4, <1>5 DEF p, n, place

(* Where rows lie in an order: the first number in which they differ       *)
(* decides.                                                                *)
LEMMA PositionsCompare ==
    ASSUME NEW order, IsDirected(order),
           NEW a, AreNumbers(a, order), NEW b, AreNumbers(b, order)
    PROVE  /\ LiesBefore(Position(a, order), Position(b, order)) <=>
                 \E i \in DOMAIN order :
                    /\ \A j \in 1..(i - 1) : a[j] = b[j]
                    /\ Beyond(order[i], a[i], b[i])
           /\ Position(a, order) = Position(b, order)
                 => \A i \in DOMAIN order : a[i] = b[i]
<1> DEFINE p == Position(a, order)
           q == Position(b, order)
<1>1. Len(order) \in Nat /\ DOMAIN order = 1..Len(order)
  BY SequencesAre DEF IsDirected
<1>2. /\ Len(p) = Len(order) /\ DOMAIN p = DOMAIN order
      /\ Len(q) = Len(order)
  BY PositionsAre
<1>3. ASSUME NEW i \in DOMAIN order
      PROVE  /\ p[i] \in Int /\ q[i] \in Int
             /\ p[i] = q[i] <=> a[i] = b[i]
             /\ p[i] < q[i] <=> Beyond(order[i], a[i], b[i])
  <2>1. /\ p[i] = IF order[i].direction = "asc" THEN a[i] ELSE -a[i]
        /\ q[i] = IF order[i].direction = "asc" THEN b[i] ELSE -b[i]
    BY PositionsAre
  <2>2. a[i] \in Int /\ b[i] \in Int
    BY DEF AreNumbers
  <2> HIDE DEF p, q
  <2> QED BY <2>1, <2>2 DEF Beyond
<1> HIDE DEF p, q
<1>4. \A i \in DOMAIN order : \A j \in 1..(i - 1) : j \in DOMAIN order
  BY <1>1
<1>5. LiesBefore(p, q) <=>
         \E i \in DOMAIN order : /\ p[i] < q[i]
                                 /\ \A j \in 1..(i - 1) : p[j] = q[j]
  BY <1>1, <1>2 DEF LiesBefore
<1>6. LiesBefore(p, q) <=>
         \E i \in DOMAIN order : /\ \A j \in 1..(i - 1) : a[j] = b[j]
                                 /\ Beyond(order[i], a[i], b[i])
  BY <1>3, <1>4, <1>5
<1>7. p = q => \A i \in DOMAIN order : a[i] = b[i]
  BY <1>3
<1> QED BY <1>6, <1>7 DEF p, q

LEMMA OrderValuesAre ==
    ASSUME NEW order, IsDirected(order), NEW row, HasNumbers(row, order)
    PROVE  LET values == OrderValues(row, order)
           IN  /\ AreNumbers(values, order)
               /\ \A i \in DOMAIN order : values[i] = row[order[i].field]
<1> DEFINE values == OrderValues(row, order)
           n == Len(order)
<1>1. n \in Nat /\ DOMAIN order = 1..n
  BY SequencesAre DEF IsDirected
<1>2. values = [i \in 1..n |-> row[order[i].field]]
  BY <1>1 DEF OrderValues
<1>3. \A i \in DOMAIN order : values[i] = row[order[i].field]
  BY <1>1, <1>2
<1> HIDE DEF n, values
<1>4. Len(values) = n
  BY <1>1, <1>2
<1> QED BY <1>3, <1>4 DEF AreNumbers, HasNumbers, values, n

(* The predicate of a cursor selects the rows that lie after it.           *)
LEMMA CursorsSelect ==
    ASSUME IsEvaluation, MarkersAreApart, NEW order, IsDirected(order),
           NEW values, AreNumbers(values, order), NEW row,
           HasNumbers(row, order)
    PROVE  LET p == CursorPredicate(order, values)
           IN  /\ p # Null /\ Evaluation(row, p) \in Truths
               /\ Evaluation(row, p) = "true"
                     <=> LiesBefore(Position(values, order),
                                    Position(OrderValues(row, order), order))
<1> DEFINE parts == [i \in DOMAIN order |-> Branch(order, values, i)]
           p == CursorPredicate(order, values)
           own == OrderValues(row, order)
<1>1. Len(order) \in Nat /\ DOMAIN order = 1..Len(order) /\ order # <<>>
  BY SequencesAre DEF IsDirected
<1>2. p = Combine("or", parts, Null)
  BY DEF CursorPredicate
<1>3. ASSUME NEW i \in DOMAIN order
      PROVE  /\ parts[i] # Null /\ Evaluation(row, parts[i]) \in Truths
             /\ Evaluation(row, parts[i]) = "true" <=>
                   /\ \A j \in 1..(i - 1) : row[order[j].field] = values[j]
                   /\ Beyond(order[i], values[i], row[order[i].field])
  <2>1. parts[i] = Branch(order, values, i)
    OBVIOUS
  <2> HIDE DEF parts
  <2> QED BY <2>1, BranchesHold
<1>4. DOMAIN parts = DOMAIN order /\ IsSequence(parts) /\ parts # <<>>
  <2> DEFINE n == Len(order)
  <2>1. n \in Nat /\ DOMAIN order = 1..n /\ n # 0
    <3>1. n # 0
      BY <1>1 DEF IsDirected, IsSequence
    <3> QED BY <1>1, <3>1
  <2>2. parts = [i \in 1..n |-> Branch(order, values, i)]
    BY <2>1
  <2> HIDE DEF n, parts
  <2>3. DOMAIN parts = 1..n /\ Len(parts) = n
    BY <2>1, <2>2
  <2>4. parts # <<>>
    BY <2>1, <2>3
  <2> QED BY <2>1, <2>2, <2>3, <2>4 DEF IsSequence
<1> HIDE DEF parts, p
<1>5. ArePredicates(row, parts)
  BY <1>3, <1>4 DEF ArePredicates
<1>6. /\ p # Null /\ Evaluation(row, p) \in Truths
      /\ Evaluation(row, p) = "true"
            <=> \E i \in DOMAIN parts : Evaluation(row, parts[i]) = "true"
  BY <1>2, <1>4, <1>5, DisjunctionsHold
<1>7. /\ AreNumbers(own, order)
      /\ \A i \in DOMAIN order : own[i] = row[order[i].field]
  BY OrderValuesAre
<1> HIDE DEF own
<1>8. LiesBefore(Position(values, order), Position(own, order)) <=>
         \E i \in DOMAIN order : /\ \A j \in 1..(i - 1) : values[j] = own[j]
                                 /\ Beyond(order[i], values[i], own[i])
  BY <1>7, PositionsCompare
<1>9. \A i \in DOMAIN order : \A j \in 1..(i - 1) : j \in DOMAIN order
  BY <1>1
<1>10. LiesBefore(Position(values, order), Position(own, order)) <=>
          \E i \in DOMAIN order :
             /\ \A j \in 1..(i - 1) : row[order[j].field] = values[j]
             /\ Beyond(order[i], values[i], row[order[i].field])
  BY <1>7, <1>8, <1>9
<1>11. (\E i \in DOMAIN parts : Evaluation(row, parts[i]) = "true") <=>
          \E i \in DOMAIN order :
             /\ \A j \in 1..(i - 1) : row[order[j].field] = values[j]
             /\ Beyond(order[i], values[i], row[order[i].field])
  BY <1>3, <1>4
<1> QED BY <1>6, <1>10, <1>11 DEF p, own

(* The order of rows is that of their positions.                           *)
LEMMA RowsLieInOrder ==
    ASSUME NEW order, IsDirected(order), NEW x, HasNumbers(x, order),
           NEW y, HasNumbers(y, order)
    PROVE  ComesBefore(x, y, order)
              <=> LiesBefore(Position(OrderValues(x, order), order),
                             Position(OrderValues(y, order), order))
<1> DEFINE a == OrderValues(x, order)
           b == OrderValues(y, order)
<1>1. Len(order) \in Nat /\ DOMAIN order = 1..Len(order)
  BY SequencesAre DEF IsDirected
<1>2. /\ AreNumbers(a, order) /\ AreNumbers(b, order)
      /\ \A i \in DOMAIN order : a[i] = x[order[i].field]
      /\ \A i \in DOMAIN order : b[i] = y[order[i].field]
  BY OrderValuesAre
<1> HIDE DEF a, b
<1>3. LiesBefore(Position(a, order), Position(b, order)) <=>
         \E i \in DOMAIN order : /\ \A j \in 1..(i - 1) : a[j] = b[j]
                                 /\ Beyond(order[i], a[i], b[i])
  BY <1>2, PositionsCompare
<1>4. \A i \in DOMAIN order : \A j \in 1..(i - 1) : j \in DOMAIN order
  BY <1>1
<1>5. ComesBefore(x, y, order) <=>
         \E i \in DOMAIN order : /\ \A j \in 1..(i - 1) : SameAt(x, y, order[j])
                                 /\ Earlier(x, y, order[i])
  <2>1. HasValues(x, order) /\ HasValues(y, order)
    BY DEF HasNumbers, HasValues, Value
  <2>2. /\ IsSequence(order)
        /\ \A i \in DOMAIN order : order[i].direction \in {"asc", "desc"}
    BY DEF IsDirected
  <2> QED BY <2>1, <2>2, FirstDifferenceDecides
<1>6. ASSUME NEW i \in DOMAIN order
      PROVE  /\ SameAt(x, y, order[i]) <=> a[i] = b[i]
             /\ Earlier(x, y, order[i]) <=> Beyond(order[i], a[i], b[i])
  <2>1. /\ a[i] = x[order[i].field] /\ b[i] = y[order[i].field]
        /\ a[i] \in Int /\ b[i] \in Int
    BY <1>2 DEF AreNumbers
  <2>2. a[i] # Null /\ b[i] # Null
    BY <2>1, RowsAssumption
  <2>3. CompareNullable(a[i], b[i])
           = IF a[i] = b[i] THEN 0 ELSE IF a[i] < b[i] THEN -1 ELSE 1
    BY <2>2 DEF CompareNullable
  <2>4. Earlier(x, y, order[i])
           <=> CompareNullable(a[i], b[i])
                  = (IF order[i].direction = "asc" THEN -1 ELSE 1)
    BY <2>1 DEF Earlier
  <2>5. Earlier(x, y, order[i]) <=> Beyond(order[i], a[i], b[i])
    BY <2>1, <2>3, <2>4 DEF Beyond
  <2> QED BY <2>1, <2>5 DEF SameAt
<1> QED BY <1>3, <1>4, <1>5, <1>6 DEF a, b

(* The fields that a cursor stands for are numbers in every row.           *)
LEMMA CursorRowsHaveNumbers ==
    ASSUME IsCoherent, RowsOK, NEW r \in Bound, NEW raw, NEW parent, NEW q,
           IsListQuery(r, raw, parent, q), q.page.mode = "cursor"
    PROVE  /\ IsDirected(q.order)
           /\ \A row \in Stored(app) : HasNumbers(row, q.order)
<1> DEFINE d == Definition(r)
<1>1. /\ IsStorage(d, Stored(app)) /\ IsOrderOf(d, q.order) /\ CursorMode(d)
      /\ FieldSet(q.order) \subseteq CursorSafe(d)
  BY RowsAreStorage DEF IsListQuery, IsPage
<1>2. FieldSet(q.order) \subseteq Members(d.fields)
  BY <1>1 DEF IsOrderOf
<1>3. \A i \in DOMAIN q.order : /\ q.order[i].field \in Members(d.fields)
                                /\ q.order[i].field \in CursorSafe(d)
  BY <1>1, <1>2 DEF FieldSet
<1> HIDE DEF d
<1>4. \A row \in Stored(app) : HasNumbers(row, q.order)
  BY <1>1, <1>3 DEF IsStorage, HasNumbers
<1> QED BY <1>1, <1>4 DEF IsOrderOf, IsDirected

(* A cursor mode knows no full-text search.                                *)
LEMMA CursorListsHaveParameters ==
    ASSUME IsCoherent, RowsOK, NEW r \in Bound, NEW raw, NEW parent, NEW q,
           IsListQuery(r, raw, parent, q), q.page.mode = "cursor"
    PROVE  HasParameters(Definition(r), q)
<1> DEFINE d == Definition(r)
<1>1. /\ Accepted(d) /\ IsAllowed(d, raw, "cursor")
      /\ q = ListQueryOf(raw, q.page, q.order)
  BY RowsAreStorage DEF IsListQuery
<1>2. /\ q.search = OptionalText(raw, "search", None)
      /\ q.deleted = OptionalText(raw, "deleted", "exclude")
  BY <1>1 DEF ListQueryOf
<1>3. ~IsFullText(raw, d)
  BY <1>1 DEF IsFullText, HasFullText, IsAllowed
<1> HIDE DEF d
<1> QED BY <1>1, <1>2, <1>3, ParametersAreSound DEF d

(* The continued list selects, of the rows that the list selects, those    *)
(* after the cursor.                                                       *)
LEMMA ContinuedListsSelect ==
    ASSUME IsEvaluation, MarkersAreApart, IsCoherent, RowsOK, NEW r \in Bound,
           NEW parent, NEW raw, IsRawQuery(raw), ~Occurs(raw, "after"),
           NEW q, IsListQuery(r, raw, parent, q), q.page.mode = "cursor",
           NEW token, token \notin {NoToken, Empty},
           NEW next, Resumes(next, raw, token),
           NEW s, IsListQuery(r, next, parent, s), s.page.mode = "cursor",
           s.order = q.order, AreNumbers(token.values, q.order),
           NEW row \in Stored(app)
    PROVE  Matches(row, ListPredicate(r, s, parent)) <=>
              /\ Matches(row, ListPredicate(r, q, parent))
              /\ LiesBefore(Position(token.values, q.order),
                            Position(OrderValues(row, q.order), q.order))
<1> DEFINE d == Definition(r)
           order == q.order
           filters == FilterPredicates(raw)
           cursor == CursorPredicate(order, token.values)
<1>1. /\ Accepted(d) /\ HasSequences(d) /\ IsStorage(d, Stored(app))
  BY RowsAreStorage
<1>2. /\ q = ListQueryOf(raw, q.page, order) /\ q.page.after = Token(raw)
      /\ s = ListQueryOf(next, s.page, order) /\ s.page.after = Token(next)
      /\ IsAllowed(d, raw, "cursor")
  BY DEF IsListQuery, IsPage
<1>3. IsSequence(raw) /\ <<token>> # NotText
  BY DEF IsRawQuery, MarkersAreApart
<1>4. Token(raw) = NoToken /\ Token(next) = token
  <2>1. Token(raw) = NoToken
    BY DEF Token
  <2> QED BY <1>3, <2>1, ContinuedToken
<1>5. ~Continues(q.page) /\ Continues(s.page)
  BY <1>2, <1>4 DEF Continues
<1>6. FilterPredicates(next) = filters /\ FiltersAreAllowed(d, raw)
  BY <1>2, <1>3, ContinuedFilters DEF IsAllowed
<1>7. IsSequence(filters) /\ filters \in Seq(Members(filters))
  <2>1. IsSequence(filters)
    BY <1>1, <1>6, FiltersAre
  <2> HIDE DEF filters
  <2> QED BY <2>1, SequencesAre
<1> HIDE DEF filters, cursor
<1>8. q.filters = filters /\ s.filters = filters \o <<cursor>>
  <2>1. q.filters = filters \o <<>>
    BY <1>2, <1>5 DEF ListQueryOf, filters
  <2>2. s.filters = filters \o <<cursor>>
    BY <1>2, <1>4, <1>5, <1>6 DEF ListQueryOf, cursor
  <2> QED BY <1>7, <2>1, <2>2
<1>9. s.search = q.search /\ s.deleted = q.deleted
  <2>1. /\ q.search = OptionalText(raw, "search", None)
        /\ q.deleted = OptionalText(raw, "deleted", "exclude")
    BY <1>2 DEF ListQueryOf
  <2>2. /\ s.search = OptionalText(next, "search", None)
        /\ s.deleted = OptionalText(next, "deleted", "exclude")
    BY <1>2 DEF ListQueryOf
  <2>3. \A name \in {"search", "deleted"} :
           /\ Occurs(next, name) <=> Occurs(raw, name)
           /\ Occurs(raw, name) => Scalar(next, name) = Scalar(raw, name)
    BY <1>3, ContinuedParameters
  <2> QED BY <2>1, <2>2, <2>3 DEF OptionalText
<1>10. IsDirected(order) /\ HasNumbers(row, order)
  BY CursorRowsHaveNumbers
<1>11. /\ ArePredicates(row, <<cursor>>)
       /\ AllHold(row, <<cursor>>) <=>
             LiesBefore(Position(token.values, order),
                        Position(OrderValues(row, order), order))
  <2>1. /\ cursor # Null /\ Evaluation(row, cursor) \in Truths
        /\ Evaluation(row, cursor) = "true" <=>
              LiesBefore(Position(token.values, order),
                         Position(OrderValues(row, order), order))
    BY <1>10, CursorsSelect DEF cursor
  <2> QED BY <2>1, NoneOrOne
<1>12. ArePredicates(row, filters)
  <2>1. \A field \in Members(d.fields) : row[field] \in Value
    BY <1>1 DEF IsStorage, Value
  <2> HIDE DEF d
  <2> QED BY <1>1, <1>6, <2>1, FiltersSelect DEF filters
<1>13. /\ ArePredicates(row, filters \o <<cursor>>)
       /\ AllHold(row, filters \o <<cursor>>)
             <=> AllHold(row, filters) /\ AllHold(row, <<cursor>>)
  BY <1>11, <1>12, PredicatesJoin
<1>14. HasParameters(d, q) /\ HasParameters(d, s)
  BY CursorListsHaveParameters
<1> DEFINE others == /\ q.search # None => \E field \in SearchFields(d) :
                           Satisfies(row[field], "icontains", q.search)
                     /\ d.softDelete # None /\ q.deleted # "include"
                           => (row[d.softDelete] # Null) = (q.deleted = "only")
                     /\ \A field \in DOMAIN Fixed(d, parent) :
                           row[field] = Fixed(d, parent)[field]
                     /\ Binding(r).scope # None
                           => Matches(row, Binding(r).scope)
<1>15. Matches(row, ListPredicate(r, q, parent))
          <=> AllHold(row, q.filters) /\ others
  BY <1>8, <1>12, <1>14, ListsSelect
<1>16. Matches(row, ListPredicate(r, s, parent))
          <=> AllHold(row, s.filters) /\ others
  <2>1. ArePredicates(row, s.filters)
    BY <1>8, <1>13
  <2> QED BY <1>9, <1>14, <2>1, ListsSelect
<1> HIDE DEF others, order
<1> QED BY <1>8, <1>11, <1>13, <1>15, <1>16 DEF order

(* The first elements of a list are a run of its set: all that come before *)
(* one of them are among them, and the last of them comes last.            *)
LEMMA PrefixesAreRuns ==
    ASSUME NEW S, IsFiniteSet(S), NEW before, IsTotalOrder(S, before),
           NEW all, Lists(all, S, before), NEW n \in 0..Cardinality(S),
           NEW data, IsSequence(data), Len(data) = n,
           \A i \in 1..n : data[i] = all[i]
    PROVE  /\ Members(data) \subseteq S
           /\ \A x \in Members(data), y \in S :
                 <<y, x>> \in before => y \in Members(data)
           /\ n # 0 => /\ Last(data) \in Members(data)
                       /\ \A x \in Members(data) :
                             x = Last(data) \/ <<x, Last(data)>> \in before
           /\ Members(data) = S <=> n = Cardinality(S)
<1> DEFINE N == Cardinality(S)
<1>1. N \in Nat
  BY FS_CardinalityType
<1>2. /\ all \in [1..N -> S] /\ \A x \in S : \E i \in 1..N : all[i] = x
      /\ \A i, j \in 1..N : i < j => <<all[i], all[j]>> \in before
  BY DEF Lists
<1> HIDE DEF N
<1>3. n \in 0..N /\ n \in Nat /\ \A i \in 1..n : i \in 1..N
  BY <1>1 DEF N
<1>4. DOMAIN data = 1..n
  BY SequencesAre
<1>5. Members(data) = {all[i] : i \in 1..n}
  BY <1>4 DEF Members
<1>6. \A x, y \in S : <<x, y>> \in before => <<y, x>> \notin before
  BY DEF IsTotalOrder
<1>7. \A x \in S : <<x, x>> \notin before
  BY DEF IsTotalOrder
<1>8. Members(data) \subseteq S
  BY <1>2, <1>3, <1>5
<1>9. ASSUME NEW x \in Members(data), NEW y \in S, <<y, x>> \in before
      PROVE  y \in Members(data)
  <2>1. PICK i \in 1..n : x = all[i]
    BY <1>5
  <2>2. PICK j \in 1..N : y = all[j]
    BY <1>2
  <2>3. i \in 1..N
    BY <1>3
  <2>4. ~(i < j)
    <3>1. SUFFICES ASSUME i < j PROVE FALSE
      OBVIOUS
    <3>2. <<x, y>> \in before
      BY <1>2, <2>1, <2>2, <2>3, <3>1
    <3> QED BY <1>6, <1>8, <1>9, <3>2
  <2>5. j \in 1..n
    BY <1>3, <2>4
  <2> QED BY <1>5, <2>2, <2>5
<1>10. ASSUME n # 0
       PROVE  /\ Last(data) \in Members(data)
              /\ \A x \in Members(data) :
                    x = Last(data) \/ <<x, Last(data)>> \in before
  <2>1. n \in 1..n /\ n \in 1..N
    BY <1>3, <1>10
  <2>2. Last(data) = all[n]
    BY <2>1 DEF Last
  <2>3. ASSUME NEW x \in Members(data)
        PROVE  x = all[n] \/ <<x, all[n]>> \in before
    <3>1. PICK i \in 1..n : x = all[i]
      BY <1>5
    <3>2. i \in 1..N /\ (i = n \/ i < n)
      BY <1>3
    <3> QED BY <1>2, <2>1, <3>1, <3>2
  <2> QED BY <1>5, <2>1, <2>2, <2>3
<1>11. n = N => Members(data) = S
  BY <1>2, <1>5, <1>8
<1>12. ASSUME n # N PROVE Members(data) # S
  <2>1. n + 1 \in 1..N /\ \A i \in 1..n : i < n + 1
    BY <1>1, <1>3, <1>12
  <2>2. all[n + 1] \in S
    BY <1>2, <2>1
  <2>3. \A i \in 1..n : <<all[i], all[n + 1]>> \in before
    BY <1>2, <1>3, <2>1
  <2>4. all[n + 1] \notin Members(data)
    BY <1>5, <1>7, <2>2, <2>3
  <2> QED BY <2>2, <2>4
<1> QED BY <1>8, <1>9, <1>10, <1>11, <1>12 DEF N

(* A token carries the values of the row that it was made of.              *)
LEMMA TokensCarryValues ==
    ASSUME NEW binding, NEW row, NextCursor(binding, row) # NoToken
    PROVE  NextCursor(binding, row).values = OrderValues(row, binding.order)
<1> DEFINE values == OrderValues(row, binding.order)
           cursor == [resource |-> binding.resource, order |-> binding.order,
                      values |-> values]
<1>1. NextCursor(binding, row) = Encode(binding, values)
  BY DEF NextCursor
<1>2. cursor.values = values
  OBVIOUS
<1> HIDE DEF values, cursor
<1>3. Encode(binding, values) \in {cursor, NoToken}
  BY DEF Encode, Sealed, cursor
<1>4. NextCursor(binding, row) = cursor
  BY <1>1, <1>3
<1> QED BY <1>2, <1>4 DEF values

(* A cursor page is a run of the selected rows from the first on; it has a *)
(* next cursor if it is not all of them, and that is its last row's.       *)
LEMMA CursorPagesAreRuns ==
    ASSUME IsEvaluation, MarkersAreApart, IsCoherent, RowsOK, NEW r \in Bound,
           NEW raw, NEW parent, NEW s, IsListQuery(r, raw, parent, s),
           s.page.mode = "cursor", NEW page, page = ListFor(r, s, parent)
    PROVE  LET keys == Selected(ListPredicate(r, s, parent))
               shown == Members(page.data)
               last == Last(page.data)
           IN  /\ page.kind = "page" /\ shown \subseteq keys
               /\ \A k \in shown, l \in keys :
                     ComesBefore(rows[l], rows[k], s.order) => l \in shown
               /\ page.data = <<>> => keys = {}
               /\ page.data # <<>> =>
                     /\ last \in shown
                     /\ \A k \in shown : \/ k = last
                           \/ ComesBefore(rows[k], rows[last], s.order)
               /\ page.nextCursor = NoToken <=> shown = keys
               /\ page.nextCursor # NoToken =>
                     /\ page.data # <<>>
                     /\ page.nextCursor.values = OrderValues(rows[last], s.order)
<1> DEFINE d == Definition(r)
           order == s.order
           limit == s.page.limit
           top == limit + 1
           predicate == ListPredicate(r, s, parent)
           keys == Selected(predicate)
           N == Cardinality(keys)
           all == InOrder(keys, order)
           found == FindMany(predicate, order, 0, top)
           binding == BindingOf(r, s, parent)
           before == Preceding(keys, order)
           size == IF N < top THEN N ELSE limit
<1>1. /\ s.kind = "query" /\ IsPage(d, raw, s.page) /\ IsOrderOf(d, order)
      /\ CursorMode(d)
  BY DEF IsListQuery, IsPage
<1>2. limit \in Nat /\ limit # 0 /\ top \in Nat
  BY <1>1, MaxSafeAssumption DEF IsPage
<1>3. HasCodec
  BY <1>1, LimitsAreInOrder
<1>4. page = CursorAnswer(s, binding, found)
  <2>1. page = Answered(d, s, parent, predicate)
    BY <1>1 DEF ListFor
  <2> QED BY <2>1 DEF Answered, BindingOf
<1>5. keys \subseteq Held
  BY DEF Selected, Held
<1>6. /\ IsFiniteSet(keys) /\ IsTotalOrder(keys, before)
      /\ Lists(all, keys, before)
  BY <1>1, <1>5, HeldRowsAreSorted
<1>7. /\ N \in Nat /\ IsSequence(found)
      /\ Len(found) = IF N - 0 < 0 THEN 0
                      ELSE IF N - 0 < top THEN N - 0 ELSE top
      /\ \A i \in DOMAIN found : found[i] = all[0 + i] /\ found[i] \in keys
  <2> HIDE DEF top, found, d
  <2>1. found = FindMany(predicate, order, 0, top)
    BY DEF found
  <2> QED BY <1>1, <1>2, <2>1, FoundRowsAreSelected DEF d
<1> HIDE DEF found, predicate, binding, all, before, d
<1>8. \A k, l \in keys : <<k, l>> \in before
                            <=> ComesBefore(rows[k], rows[l], order)
  BY DEF before, Preceding
<1> HIDE DEF keys, N
<1>9. /\ DOMAIN found = 1..Len(found) /\ Len(found) \in Nat
      /\ Len(found) = IF N < top THEN N ELSE top
      /\ \A i \in DOMAIN found : found[i] = all[i]
  <2>1. /\ DOMAIN found = 1..Len(found) /\ Len(found) \in Nat
        /\ Len(found) = IF N < top THEN N ELSE top
    BY <1>2, <1>7, SequencesAre
  <2>2. \A i \in DOMAIN found : 0 + i = i
    BY <2>1
  <2> QED BY <1>7, <2>1, <2>2
<1>10. /\ page.kind = "page" /\ IsSequence(page.data) /\ Len(page.data) = size
       /\ \A i \in 1..size : page.data[i] = all[i]
       /\ N < top => page.nextCursor = NoToken
       /\ ~(N < top) => /\ page.nextCursor = NextCursor(binding, rows[all[limit]])
                        /\ page.nextCursor # NoToken
  <2>1. CASE N < top
    <3>1. ~(Len(found) > limit)
      BY <1>2, <1>7, <1>9, <2>1
    <3>2. page = CursorPageOf(s, found, FALSE, NoToken)
      BY <1>4, <3>1 DEF CursorAnswer
    <3>3. /\ page.kind = "page" /\ page.data = found
          /\ page.nextCursor = NoToken
      BY <3>2 DEF CursorPageOf
    <3> QED BY <1>7, <1>9, <2>1, <3>3
  <2>2. CASE ~(N < top)
    <3> DEFINE data == SubSeq(found, 1, limit)
               next == NextCursor(binding, rows[found[limit]])
    <3>1. Len(found) = top /\ Len(found) > limit /\ limit \in DOMAIN found
      BY <1>2, <1>7, <1>9, <2>2
    <3>2. found[limit] = all[limit] /\ found[limit] \in keys
      BY <1>7, <1>9, <3>1
    <3>3. next # NoToken
      BY <3>2, CursorsAreMade DEF keys, predicate, binding
    <3>4. data = [i \in 1..limit |-> found[i]]
      <4>1. found \in Seq(Members(found))
        BY <1>7, SequencesAre
      <4> QED BY <1>2, <3>1, <4>1
    <3> HIDE DEF data, next
    <3>5. page = CursorPageOf(s, data, TRUE, next)
      BY <1>3, <1>4, <3>1 DEF CursorAnswer, data, next
    <3>6. page.kind = "page" /\ page.data = data /\ page.nextCursor = next
      BY <3>3, <3>5 DEF CursorPageOf
    <3>7. Len(data) = limit /\ DOMAIN data = 1..limit
      BY <1>2, <3>4
    <3>8. IsSequence(data)
      <4>1. \A i \in 1..limit : data[i] = found[i]
        BY <3>4
      <4>2. data = [i \in 1..limit |-> data[i]]
        BY <3>4, <4>1
      <4> QED BY <1>2, <3>7, <4>2 DEF IsSequence
    <3>9. \A i \in 1..limit : data[i] = all[i]
      <4>1. \A i \in 1..limit : i \in DOMAIN found
        BY <1>2, <1>9, <3>1
      <4> QED BY <1>9, <3>4, <4>1
    <3> QED BY <2>2, <3>2, <3>3, <3>6, <3>7, <3>8, <3>9 DEF next
  <2> QED BY <2>1, <2>2
<1>11. size \in 0..N /\ (size = N <=> N < top) /\ (size = 0 => N = 0)
  BY <1>2, <1>7
<1> HIDE DEF size
<1> DEFINE data == page.data
           shown == Members(data)
<1>12. /\ IsSequence(data) /\ Len(data) = size
       /\ \A i \in 1..size : data[i] = all[i]
  BY <1>10
<1> HIDE DEF data
<1>13. /\ shown \subseteq keys
       /\ \A k \in shown, l \in keys : <<l, k>> \in before => l \in shown
       /\ size # 0 => /\ Last(data) \in shown
                      /\ \A k \in shown :
                            k = Last(data) \/ <<k, Last(data)>> \in before
       /\ shown = keys <=> size = Cardinality(keys)
  BY <1>6, <1>11, <1>12, PrefixesAreRuns DEF N
<1>14. data = <<>> <=> size = 0
  BY <1>11, <1>12 DEF IsSequence
<1>15. size = 0 => keys = {}
  BY <1>6, <1>11, FS_EmptySet DEF N
<1>16. ASSUME page.nextCursor # NoToken
       PROVE  /\ data # <<>>
              /\ page.nextCursor.values = OrderValues(rows[Last(data)], order)
  <2>1. ~(N < top) /\ size = limit
    BY <1>10, <1>16 DEF size
  <2>2. data # <<>> /\ limit \in 1..size
    BY <1>2, <1>14, <2>1
  <2>3. Last(data) = all[limit]
    BY <1>12, <2>1, <2>2 DEF Last
  <2>4. page.nextCursor = NextCursor(binding, rows[Last(data)])
    BY <1>10, <2>1, <2>3
  <2>5. binding.order = order
    BY DEF binding, BindingOf
  <2> QED BY <1>16, <2>2, <2>4, <2>5, TokensCarryValues
<1>17. page.nextCursor = NoToken <=> shown = keys
  BY <1>10, <1>11, <1>13 DEF N
<1>18. \A k \in shown, l \in keys :
          ComesBefore(rows[l], rows[k], order) => l \in shown
  BY <1>8, <1>13
<1>19. size # 0 => /\ Last(data) \in shown
                   /\ \A k \in shown :
                         \/ k = Last(data)
                         \/ ComesBefore(rows[k], rows[Last(data)], order)
  BY <1>8, <1>13
<1> QED
  BY <1>10, <1>13, <1>14, <1>15, <1>16, <1>17, <1>18, <1>19
     DEF data, keys, predicate

(***************************************************************************)
(* Walks                                                                   *)
(***************************************************************************)
\* Where a row lies in a walk that selects rows and takes them in an order.
Place(row, order, selects) ==
    IF row = Gone \/ ~Matches(row, selects)
    THEN Absent ELSE Position(OrderValues(row, order), order)

\* A walk repeats one query, from the last row of the page before.
Repeats(r, raw, parent, order, selects) ==
    LET q == Query(r, raw, parent)
    IN  order = q.order /\ selects = ListPredicate(r, q, parent)
IsResumed(status, token, last, order) ==
    /\ last = <<>> \/ AreNumbers(last, order)
    /\ status = "going" => IF token = NoToken THEN last = <<>>
                           ELSE last = token.values /\ last # <<>>
WalkFollows ==
    walk = NoWalk \/
    /\ Repeats(walk.resource, walk.raw, walk.parent, walk.order, walk.selects)
    /\ IsResumed(walk.status, walk.token, walk.last, walk.order)

\* A query that a walk may repeat.
IsWalked(r, raw, parent, q) ==
    /\ IsCoherent /\ RowsOK /\ r \in Bound
    /\ IsRawQuery(raw) /\ ~Occurs(raw, "after")
    /\ q = Query(r, raw, parent) /\ q # Refused
    /\ IsListQuery(r, raw, parent, q) /\ q.page.mode = "cursor"

LEMMA CursorQueriesAreWalked ==
    ASSUME IsCoherent, RowsOK, NEW r \in Bound, NEW raw \in Walks, NEW parent,
           NEW q, q = Query(r, raw, parent), q # Refused,
           q.page.mode = "cursor"
    PROVE  IsWalked(r, raw, parent, q)
<1>1. IsRawQuery(raw) /\ ~Occurs(raw, "after")
  BY RequestsAssumption
<1>2. IsListQuery(r, raw, parent, q)
  BY <1>1, QueriesAreSound
<1> QED BY <1>1, <1>2 DEF IsWalked

(* What the invariant says of a walk.                                      *)
LEMMA WalksRepeatQueries ==
    ASSUME AppInv, WalkFollows, walk # NoWalk,
           NEW r, r = walk.resource, NEW raw, raw = walk.raw,
           NEW parent, parent = walk.parent, NEW q, q = Query(r, raw, parent)
    PROVE  /\ IsWalked(r, raw, parent, q) /\ phase = "ready"
           /\ IsGoing(r, raw, parent, walk.token)
           /\ walk.status \in {"going", "ended"}
           /\ walk.order = q.order /\ walk.selects = ListPredicate(r, q, parent)
           /\ IsResumed(walk.status, walk.token, walk.last, q.order)
<1>1. /\ phase = "ready" /\ walk.status \in {"going", "ended"}
      /\ IsGoing(r, raw, parent, walk.token)
  BY DEF AppInv, WalkOK
<1>2. IsCoherent /\ RowsOK
  BY <1>1 DEF AppInv, IInv, VerdictHasNoOrder
<1>3. r \in Bound /\ raw \in Walks /\ q # Refused /\ q.page.mode = "cursor"
  BY <1>1 DEF IsGoing
<1>4. IsWalked(r, raw, parent, q)
  BY <1>2, <1>3, CursorQueriesAreWalked
<1>5. walk.order = q.order /\ walk.selects = ListPredicate(r, q, parent)
  BY DEF WalkFollows, Repeats
<1>6. IsResumed(walk.status, walk.token, walk.last, q.order)
  BY <1>5 DEF WalkFollows
<1> QED BY <1>1, <1>4, <1>5, <1>6

(* The place of a row is a position if the walk selects it, and no other   *)
(* row has the same.                                                       *)
LEMMA PlacesAreApart ==
    ASSUME NEW r, NEW raw, NEW parent, NEW q, IsWalked(r, raw, parent, q),
           NEW selects, NEW x \in Stored(app) \cup {Gone},
           NEW y \in Stored(app) \cup {Gone}
    PROVE  /\ Place(x, q.order, selects) \in {Absent} \cup Seq(Int)
           /\ Place(x, q.order, selects) # Start
           /\ Place(x, q.order, selects) = Absent
                 <=> x = Gone \/ ~Matches(x, selects)
           /\ (x # Gone /\ y # Gone => x.id # y.id)
              /\ Place(x, q.order, selects) = Place(y, q.order, selects)
                 => Place(x, q.order, selects) = Absent
<1> DEFINE order == q.order
           p == Place(x, order, selects)
           s == Place(y, order, selects)
<1>1. /\ IsDirected(order)
      /\ \A row \in Stored(app) : HasNumbers(row, order)
  BY CursorRowsHaveNumbers DEF IsWalked
<1>2. /\ IsStorage(Definition(r), Stored(app))
      /\ FieldsOf(Definition(r).idFields) \subseteq FieldSet(order)
  BY RowsAreStorage DEF IsWalked, IsListQuery, IsOrderOf
<1> HIDE DEF order
<1>3. ASSUME NEW row \in Stored(app)
      PROVE  /\ AreNumbers(OrderValues(row, order), order)
             /\ \A i \in DOMAIN order :
                   OrderValues(row, order)[i] = row[order[i].field]
             /\ Position(OrderValues(row, order), order) \in Seq(Int)
             /\ Position(OrderValues(row, order), order) \notin {Absent, Start}
  <2>1. /\ AreNumbers(OrderValues(row, order), order)
        /\ \A i \in DOMAIN order :
              OrderValues(row, order)[i] = row[order[i].field]
    BY <1>1, OrderValuesAre
  <2>2. Position(OrderValues(row, order), order) \in Seq(Int)
    BY <1>1, <2>1, PositionsAre
  <2> QED BY <2>1, <2>2, PlacesAssumption
<1>4. p = Absent <=> x = Gone \/ ~Matches(x, selects)
  BY <1>3 DEF Place
<1>5. p \in {Absent} \cup Seq(Int) /\ p # Start
  BY <1>3, PlacesAssumption DEF Place
<1>6. ASSUME x # Gone /\ y # Gone => x.id # y.id, p = s PROVE p = Absent
  <2> SUFFICES ASSUME p # Absent PROVE FALSE
    OBVIOUS
  <2>1. /\ x \in Stored(app) /\ p = Position(OrderValues(x, order), order)
        /\ x # Gone
    BY DEF Place
  <2>2. /\ y \in Stored(app) /\ s = Position(OrderValues(y, order), order)
        /\ y # Gone
    BY <1>6 DEF Place
  <2>3. PICK field \in FieldsOf(Definition(r).idFields) : x[field] # y[field]
    BY <1>2, <1>6, <2>1, <2>2 DEF IsStorage
  <2>4. PICK i \in DOMAIN order : order[i].field = field
    BY <1>2 DEF FieldSet
  <2>5. \A j \in DOMAIN order : OrderValues(x, order)[j] = OrderValues(y, order)[j]
    <3> DEFINE a == OrderValues(x, order)
               b == OrderValues(y, order)
    <3>1. AreNumbers(a, order) /\ AreNumbers(b, order)
      BY <1>3, <2>1, <2>2
    <3>2. Position(a, order) = Position(b, order)
      BY <1>6, <2>1, <2>2
    <3> HIDE DEF a, b
    <3>3. \A j \in DOMAIN order : a[j] = b[j]
      BY <1>1, <3>1, <3>2, PositionsCompare
    <3> QED BY <3>3 DEF a, b
  <2>6. OrderValues(x, order)[i] # OrderValues(y, order)[i]
    BY <1>3, <2>1, <2>2, <2>3, <2>4
  <2> QED BY <2>5, <2>6
<1> HIDE DEF p, s
<1> QED BY <1>4, <1>5, <1>6 DEF p, s, order

\* The row lies after the place where a walk was resumed.
IsAhead(row, token, order) ==
    token # NoToken => LiesBefore(Position(token.values, order),
                                  Position(OrderValues(row, order), order))

\* The query that asks for the next page of a walk.
AsksNext(r, raw, parent, token, next, s) ==
    /\ s = Query(r, next, parent)
    /\ IF token = NoToken THEN next = raw ELSE Resumes(next, raw, token)

(* The next page of a walk lists, of the rows that the walk selects, those *)
(* ahead of it.                                                            *)
LEMMA WalksAskForWhatIsAhead ==
    ASSUME IsEvaluation, MarkersAreApart,
           NEW r, NEW raw, NEW parent, NEW q, IsWalked(r, raw, parent, q),
           NEW token, NEW last, IsGoing(r, raw, parent, token),
           IsResumed("going", token, last, q.order),
           NEW next, NEW s, AsksNext(r, raw, parent, token, next, s)
    PROVE  /\ IsListQuery(r, next, parent, s) /\ s.page.mode = "cursor"
           /\ s.order = q.order
           /\ \A row \in Stored(app) :
                 Matches(row, ListPredicate(r, s, parent)) <=>
                    /\ Matches(row, ListPredicate(r, q, parent))
                    /\ IsAhead(row, token, q.order)
<1>1. /\ IsCoherent /\ RowsOK /\ r \in Bound
      /\ IsRawQuery(raw) /\ ~Occurs(raw, "after")
      /\ q = Query(r, raw, parent) /\ q # Refused
      /\ IsListQuery(r, raw, parent, q) /\ q.page.mode = "cursor"
  BY DEF IsWalked
<1> s = Query(r, next, parent)
  BY DEF AsksNext
<1>2. CASE token = NoToken
  <2>1. next = raw /\ s = q
    BY <1>1, <1>2 DEF AsksNext
  <2> QED BY <1>1, <1>2, <2>1 DEF IsAhead
<1>3. CASE token # NoToken
  <2>1. Resumes(next, raw, token) /\ IsTokenOf(token, BindingOf(r, q, parent))
    BY <1>1, <1>3 DEF IsGoing, AsksNext
  <2>2. /\ s # Refused /\ s.kind = "query" /\ s.page.mode = "cursor"
        /\ s.order = q.order
    BY <1>1, <2>1, ContinuationsAreAccepted
  <2>3. IsRawQuery(next)
    BY <1>1, <2>1, ContinuedIsRaw
  <2>4. IsListQuery(r, next, parent, s)
    BY <1>1, <2>2, <2>3, QueriesAreSound
  <2>5. token \notin {NoToken, Empty}
    BY <1>3, <2>1, TokensAreBound
  <2>6. AreNumbers(token.values, q.order)
    BY <1>3 DEF IsResumed
  <2>7. ASSUME NEW row \in Stored(app)
        PROVE  Matches(row, ListPredicate(r, s, parent)) <=>
                  /\ Matches(row, ListPredicate(r, q, parent))
                  /\ LiesBefore(Position(token.values, q.order),
                                Position(OrderValues(row, q.order), q.order))
    BY <1>1, <2>1, <2>2, <2>4, <2>5, <2>6, ContinuedListsSelect
  <2> QED BY <1>3, <2>2, <2>4, <2>7 DEF IsAhead
<1> QED BY <1>2, <1>3

\* The answer of the next page's query.
IsNextPage(r, raw, parent, q, token, s, page) ==
    /\ IsListQuery(r, Continued, parent, s) /\ s.page.mode = "cursor"
    /\ s.order = q.order /\ page = ListFor(r, s, parent)
    /\ \A row \in Stored(app) :
          Matches(row, ListPredicate(r, s, parent)) <=>
             /\ Matches(row, ListPredicate(r, q, parent))
             /\ IsAhead(row, token, q.order)

LEMMA NextPagesAreShown ==
    ASSUME IsEvaluation, MarkersAreApart, AppInv, WalkFollows, NextPage,
           NEW r, r = walk.resource, NEW raw, raw = walk.raw,
           NEW parent, parent = walk.parent, NEW q, q = Query(r, raw, parent),
           NEW token, token = walk.token
    PROVE  \E s, page : /\ IsNextPage(r, raw, parent, q, token, s, page)
                        /\ page.kind = "page" /\ walk' = Shown(page)
<1>1. walk.status = "going" /\ walk # NoWalk
  BY DEF NextPage, NoWalk
<1>2. /\ IsWalked(r, raw, parent, q) /\ IsGoing(r, raw, parent, token)
      /\ IsResumed("going", token, walk.last, q.order)
  BY <1>1, WalksRepeatQueries
<1>3. PICK next, last : next = Continued /\ last = walk.last
  OBVIOUS
<1>4. PICK s : s = Query(r, next, parent)
  OBVIOUS
<1>5. AsksNext(r, raw, parent, token, next, s)
  BY <1>3, <1>4 DEF AsksNext, Continued, Resumes
<1>6. /\ IsListQuery(r, next, parent, s) /\ s.page.mode = "cursor"
      /\ s.order = q.order
      /\ \A row \in Stored(app) :
            Matches(row, ListPredicate(r, s, parent)) <=>
               /\ Matches(row, ListPredicate(r, q, parent))
               /\ IsAhead(row, token, q.order)
  <2>1. /\ IsWalked(r, raw, parent, q) /\ IsGoing(r, raw, parent, token)
        /\ IsResumed("going", token, last, q.order)
    BY <1>2, <1>3
  <2>2. /\ IsListQuery(r, next, parent, s) /\ s.page.mode = "cursor"
        /\ s.order = q.order
    BY <1>5, <2>1, WalksAskForWhatIsAhead
  <2>3. ASSUME NEW row \in Stored(app)
        PROVE  Matches(row, ListPredicate(r, s, parent)) <=>
                  /\ Matches(row, ListPredicate(r, q, parent))
                  /\ IsAhead(row, token, q.order)
    BY <1>5, <2>1, WalksAskForWhatIsAhead
  <2> QED BY <2>2, <2>3
<1>7. PICK page : /\ page = List(r, next, parent)
                  /\ walk' = IF page.kind = "page" THEN Shown(page)
                             ELSE [walk EXCEPT !.status = page.kind]
  BY <1>3 DEF NextPage
<1>8. page = ListFor(r, s, parent)
  BY <1>4, <1>7 DEF List
<1>9. page.kind = "page"
  <2>1. IsCoherent /\ RowsOK /\ r \in Bound
    BY <1>2 DEF IsWalked
  <2> QED BY <1>6, <1>8, <2>1, CursorPagesAreRuns
<1>10. IsNextPage(r, raw, parent, q, token, s, page)
  BY <1>3, <1>6, <1>8 DEF IsNextPage
<1> QED BY <1>7, <1>9, <1>10

\* What a page leaves behind: where the walk stands.
LEMMA ShownPages ==
    ASSUME NEW page, walk # NoWalk, walk' = Shown(page)
    PROVE  /\ walk'.status = IF page.nextCursor = NoToken THEN "ended"
                                                         ELSE walk.status
           /\ walk'.token = page.nextCursor
           /\ walk'.last = IF page.data = <<>> THEN walk.last
                           ELSE OrderValues(rows[Last(page.data)], walk.order)
           /\ walk'.shown = walk.shown \cup Members(page.data)
           /\ walk'.again = walk.again \cup (walk.shown \cap Members(page.data))
           /\ walk'.steady = walk.steady /\ walk'.order = walk.order
           /\ walk'.selects = walk.selects /\ walk'.resource = walk.resource
           /\ walk'.raw = walk.raw /\ walk'.parent = walk.parent
  BY DEF Shown

LEMMA RepeatsIsFixed ==
    ASSUME app' = app
    PROVE  \A r, raw, parent, order, selects :
              Repeats(r, raw, parent, order, selects)'
                 = Repeats(r, raw, parent, order, selects)
  BY QueriesAreFixed DEF Repeats

LEMMA WalkFollowsNext ==
    ASSUME IsEvaluation, MarkersAreApart, AppInv, WalkFollows, [Next]_appVars
    PROVE  WalkFollows'
<1>1. app' = app
  BY AppIsKept, AppStepsBoot DEF appVars, bootVars
<1>2. ASSUME walk # NoWalk, walk'.order = walk.order,
             walk'.selects = walk.selects, walk'.resource = walk.resource,
             walk'.raw = walk.raw, walk'.parent = walk.parent,
             IsResumed(walk'.status, walk'.token, walk'.last, walk.order)
      PROVE  WalkFollows'
  <2>1. PICK r, raw, parent, order, selects :
           /\ r = walk.resource /\ raw = walk.raw /\ parent = walk.parent
           /\ order = walk.order /\ selects = walk.selects
    OBVIOUS
  <2>2. Repeats(r, raw, parent, order, selects)
    BY <1>2, <2>1 DEF WalkFollows
  <2>3. Repeats(r, raw, parent, order, selects)'
    BY <1>1, <2>2, RepeatsIsFixed
  <2> QED BY <1>2, <2>1, <2>3 DEF WalkFollows, IsResumed
<1>3. CASE walk' = walk
  <2>1. CASE walk = NoWalk
    BY <1>3, <2>1 DEF WalkFollows
  <2>2. CASE walk # NoWalk
    <3>1. IsResumed(walk.status, walk.token, walk.last, walk.order)
      BY <2>2 DEF WalkFollows
    <3> QED BY <1>2, <1>3, <2>2, <3>1
  <2> QED BY <2>1, <2>2
<1>4. ASSUME NEW r \in Bound, NEW parent, NEW raw \in Walks,
             StartWalk(r, raw, parent)
      PROVE  WalkFollows'
  <2>1. PICK q : /\ q = Query(r, raw, parent) /\ IsCursorQuery(q)
                 /\ walk' = WalkOf(r, raw, parent, q)
    BY <1>4 DEF StartWalk
  <2>2. PICK order, selects :
           order = q.order /\ selects = ListPredicate(r, q, parent)
    OBVIOUS
  <2>3. /\ walk'.resource = r /\ walk'.raw = raw /\ walk'.parent = parent
        /\ walk'.order = order /\ walk'.selects = selects
        /\ walk'.token = NoToken /\ walk'.last = <<>>
    BY <2>1, <2>2 DEF WalkOf
  <2>4. Repeats(r, raw, parent, order, selects)
    BY <2>1, <2>2 DEF Repeats
  <2>5. Repeats(r, raw, parent, order, selects)'
    BY <1>1, <2>4, RepeatsIsFixed
  <2> QED BY <2>3, <2>5 DEF WalkFollows, IsResumed
<1>5. CASE NextPage
  <2>1. walk.status = "going" /\ walk # NoWalk
    BY <1>5 DEF NextPage, NoWalk
  <2>2. PICK r, raw, parent, q, token :
           /\ r = walk.resource /\ raw = walk.raw /\ parent = walk.parent
           /\ q = Query(r, raw, parent) /\ token = walk.token
    OBVIOUS
  <2>3. PICK s, page : /\ IsNextPage(r, raw, parent, q, token, s, page)
                       /\ page.kind = "page" /\ walk' = Shown(page)
    BY <1>5, <2>2, NextPagesAreShown
  <2>4. /\ IsWalked(r, raw, parent, q) /\ walk.order = q.order
        /\ IsResumed(walk.status, walk.token, walk.last, walk.order)
    BY <2>1, <2>2, WalksRepeatQueries
  <2>5. /\ walk'.status = IF page.nextCursor = NoToken THEN "ended" ELSE "going"
        /\ walk'.token = page.nextCursor
        /\ walk'.last = IF page.data = <<>> THEN walk.last
                        ELSE OrderValues(rows[Last(page.data)], walk.order)
    BY <2>1, <2>3, ShownPages
  <2>6. /\ page.nextCursor # NoToken =>
              /\ page.data # <<>>
              /\ page.nextCursor.values
                    = OrderValues(rows[Last(page.data)], q.order)
        /\ page.data # <<>> =>
              Last(page.data) \in Selected(ListPredicate(r, s, parent))
    <3>1. /\ IsCoherent /\ RowsOK /\ r \in Bound
      BY <2>4 DEF IsWalked
    <3> QED BY <2>3, <3>1, CursorPagesAreRuns DEF IsNextPage
  <2>7. page.data # <<>> =>
           LET values == OrderValues(rows[Last(page.data)], q.order)
           IN  AreNumbers(values, q.order) /\ values # <<>>
    <3>1. SUFFICES ASSUME page.data # <<>>
                   PROVE  LET values == OrderValues(rows[Last(page.data)], q.order)
                          IN  AreNumbers(values, q.order) /\ values # <<>>
      OBVIOUS
    <3> DEFINE row == rows[Last(page.data)]
    <3>2. row \in Stored(app)
      BY <2>6, <3>1 DEF AppInv, RowsOK, Selected
    <3>3. IsDirected(q.order) /\ HasNumbers(row, q.order)
      BY <2>4, <3>2, CursorRowsHaveNumbers DEF IsWalked
    <3> HIDE DEF row
    <3>4. AreNumbers(OrderValues(row, q.order), q.order)
      BY <3>3, OrderValuesAre
    <3>5. Len(q.order) # 0
      BY <3>3 DEF IsDirected, IsSequence
    <3>6. OrderValues(row, q.order) # <<>>
      BY <3>4, <3>5 DEF AreNumbers
    <3> QED BY <3>4, <3>6 DEF row
  <2>8. IsResumed(walk'.status, walk'.token, walk'.last, walk.order)
    <3>1. walk'.last = <<>> \/ AreNumbers(walk'.last, walk.order)
      BY <2>4, <2>5, <2>7 DEF IsResumed
    <3>2. walk'.status = "going" =>
             walk'.token # NoToken /\ walk'.last = walk'.token.values
             /\ walk'.last # <<>>
      BY <2>4, <2>5, <2>6, <2>7
    <3> QED BY <3>1, <3>2 DEF IsResumed
  <2>9. /\ walk'.order = walk.order /\ walk'.selects = walk.selects
        /\ walk'.resource = walk.resource /\ walk'.raw = walk.raw
        /\ walk'.parent = walk.parent
    BY <2>1, <2>3, ShownPages
  <2> QED BY <1>2, <2>1, <2>8, <2>9
<1>6. ASSUME NEW k \in Keys, NEW row \in Records \cup {Gone}, Write(k, row)
      PROVE  WalkFollows'
  <2>1. walk.status = "going" /\ walk # NoWalk
    BY <1>6 DEF Write, NoWalk
  <2>2. IsResumed(walk.status, walk.token, walk.last, walk.order)
    BY <2>1 DEF WalkFollows
  <2>3. /\ walk'.order = walk.order /\ walk'.selects = walk.selects
        /\ walk'.resource = walk.resource /\ walk'.raw = walk.raw
        /\ walk'.parent = walk.parent /\ walk'.status = walk.status
        /\ walk'.token = walk.token /\ walk'.last = walk.last
    BY <1>6 DEF Write
  <2> QED BY <1>2, <2>1, <2>2, <2>3
<1>7. ASSUME NEW r \in Bound, NEW parent, NEW raw \in Requests,
             Ask(r, raw, parent)
      PROVE  WalkFollows'
  BY <1>3, <1>7 DEF Ask
<1> QED BY <1>3, <1>4, <1>5, <1>6, <1>7 DEF Next, appVars

(***************************************************************************)
(* The walk implements KeysetWalk                                          *)
(***************************************************************************)
\* The state that the refinement maps a walk to.
At == [k \in Keys |-> WalkPosition(k)]
WalkCursor == IF walk.status = "none" \/ walk.last = <<>> THEN Start
              ELSE Position(walk.last, walk.order)

LEMMA WalkPositionsArePlaces ==
    ASSUME walk.status # "none", NEW order, NEW selects,
           order = walk.order, selects = walk.selects
    PROVE  /\ \A k \in Keys : At[k] = Place(rows[k], order, selects)
           /\ WalkCursor = IF walk.last = <<>> THEN Start
                           ELSE Position(walk.last, order)
  BY DEF At, WalkPosition, Place, WalkCursor

LEMMA HeldRowsAreStored ==
    ASSUME RowsOK
    PROVE  /\ \A k \in Keys : rows[k] \in Stored(app) \cup {Gone}
           /\ \A k, l \in Keys : k # l /\ rows[k] # Gone /\ rows[l] # Gone
                                    => rows[k].id # rows[l].id
  BY DEF RowsOK

LEMMA WalksBegin == AppInit => Promise!Init
<1> SUFFICES ASSUME AppInit PROVE Promise!Init
  OBVIOUS
<1>1. /\ walk.status = "none" /\ walk.shown = {} /\ walk.again = {}
      /\ walk.steady = Keys
  BY DEF AppInit, NoWalk
<1>2. \A k \in Keys : WalkPosition(k) = Absent
  BY <1>1 DEF WalkPosition
<1> QED BY <1>1, <1>2 DEF Promise!Init

LEMMA IdleStepsStutter ==
    ASSUME UNCHANGED <<rows, walk>> PROVE UNCHANGED Promise!vars
<1>1. \A k \in Keys : WalkPosition(k)' = WalkPosition(k)
  BY DEF WalkPosition
<1> QED BY <1>1 DEF Promise!vars

LEMMA StartedWalksBegin ==
    ASSUME IsEvaluation, MarkersAreApart, AppInv,
           NEW r \in Bound, NEW raw \in Walks, NEW parent,
           StartWalk(r, raw, parent)
    PROVE  Promise!Begin
<1>1. /\ phase = "ready" /\ walk = NoWalk /\ rows' = rows
  BY DEF StartWalk, IsIdle
<1>2. PICK q : /\ q = Query(r, raw, parent) /\ IsCursorQuery(q)
               /\ walk' = WalkOf(r, raw, parent, q)
  BY DEF StartWalk
<1>3. PICK order, selects :
         order = q.order /\ selects = ListPredicate(r, q, parent)
  OBVIOUS
<1>4. /\ walk'.status = "going" /\ walk'.order = order
      /\ walk'.selects = selects /\ walk'.last = <<>>
      /\ walk'.shown = {} /\ walk'.again = {} /\ walk'.steady = Keys
  BY <1>2, <1>3 DEF WalkOf
<1>5. IsCoherent /\ RowsOK
  BY <1>1 DEF AppInv, IInv, VerdictHasNoOrder
<1>6. IsWalked(r, raw, parent, q)
  <2>1. q # Refused /\ q.page.mode = "cursor"
    BY <1>2 DEF IsCursorQuery, Refused
  <2> QED BY <1>2, <1>5, <2>1, CursorQueriesAreWalked
<1>7. \A k \in Keys : WalkPosition(k)' = Place(rows[k], order, selects)
  BY <1>1, <1>4 DEF WalkPosition, Place
<1>8. /\ \A k \in Keys : rows[k] \in Stored(app) \cup {Gone}
      /\ \A k, l \in Keys : k # l /\ rows[k] # Gone /\ rows[l] # Gone
                               => rows[k].id # rows[l].id
  BY <1>5, HeldRowsAreStored
<1>9. \A k \in Keys : Place(rows[k], order, selects) \in {Absent} \cup Seq(Int)
  BY <1>3, <1>6, <1>8, PlacesAreApart
<1>10. ASSUME NEW k \in Keys, NEW l \in Keys, k # l,
              Place(rows[k], order, selects) = Place(rows[l], order, selects)
       PROVE  Place(rows[k], order, selects) = Absent
  <2>1. PICK x, y : x = rows[k] /\ y = rows[l]
    OBVIOUS
  <2>2. /\ x \in Stored(app) \cup {Gone} /\ y \in Stored(app) \cup {Gone}
        /\ x # Gone /\ y # Gone => x.id # y.id
    BY <1>8, <1>10, <2>1
  <2>3. Place(x, q.order, selects) = Place(y, q.order, selects)
    BY <1>3, <1>10, <2>1
  <2>4. Place(x, q.order, selects) = Absent
    BY <1>6, <2>2, <2>3, PlacesAreApart
  <2> QED BY <1>3, <2>1, <2>4
<1>11. /\ walk.status = "none" /\ walk.shown = {} /\ walk.again = {}
       /\ walk.steady = Keys
  BY <1>1 DEF NoWalk
<1>12. At' \in [Keys -> {Absent} \cup Seq(Int)]
  BY <1>7, <1>9 DEF At
<1>13. Promise!NoneShareAPlace'
  BY <1>7, <1>10 DEF Promise!NoneShareAPlace
<1> QED BY <1>4, <1>11, <1>12, <1>13 DEF Promise!Begin, At

(* A page of a walk is fetched as KeysetWalk says: it is the run of the    *)
(* rows that the walk selects after the last one it showed.                *)
LEMMA NextPagesFetch ==
    ASSUME IsEvaluation, MarkersAreApart, AppInv, WalkFollows, NextPage
    PROVE  \E shown \in SUBSET Keys : Promise!Fetch(shown)
<1>1. walk.status = "going" /\ walk # NoWalk /\ rows' = rows
  BY DEF NextPage, NoWalk
<1>2. PICK r, raw, parent, q, token, order, selects :
         /\ r = walk.resource /\ raw = walk.raw /\ parent = walk.parent
         /\ q = Query(r, raw, parent) /\ token = walk.token
         /\ order = q.order /\ selects = ListPredicate(r, q, parent)
  OBVIOUS
<1>3. PICK s, page : /\ IsNextPage(r, raw, parent, q, token, s, page)
                     /\ page.kind = "page" /\ walk' = Shown(page)
  BY <1>2, NextPagesAreShown
<1>4. /\ IsWalked(r, raw, parent, q)
      /\ walk.order = order /\ walk.selects = selects
      /\ IsResumed("going", token, walk.last, order)
  BY <1>1, <1>2, WalksRepeatQueries
<1>5. IsCoherent /\ RowsOK /\ r \in Bound
  BY <1>4 DEF IsWalked
<1> DEFINE keys == Selected(ListPredicate(r, s, parent))
           shown == Members(page.data)
           last == Last(page.data)
<1>6. /\ shown \subseteq keys
      /\ \A k \in shown, l \in keys :
            ComesBefore(rows[l], rows[k], order) => l \in shown
      /\ page.data = <<>> => keys = {}
      /\ page.data # <<>> =>
            /\ last \in shown
            /\ \A k \in shown :
                  k = last \/ ComesBefore(rows[k], rows[last], order)
      /\ page.nextCursor = NoToken <=> shown = keys
  BY <1>2, <1>3, <1>5, CursorPagesAreRuns DEF IsNextPage
<1>7. /\ \A k \in Keys : At[k] = Place(rows[k], order, selects)
      /\ WalkCursor = IF walk.last = <<>> THEN Start
                      ELSE Position(walk.last, order)
  BY <1>1, <1>4, WalkPositionsArePlaces
<1>8. IsDirected(order) /\ \A row \in Stored(app) : HasNumbers(row, order)
  BY <1>2, <1>4, CursorRowsHaveNumbers DEF IsWalked
<1>9. /\ WalkCursor = IF token = NoToken THEN Start
                      ELSE Position(token.values, order)
      /\ token # NoToken => WalkCursor # Start
  <2>1. CASE token = NoToken
    BY <1>4, <1>7, <2>1 DEF IsResumed
  <2>2. CASE token # NoToken
    <3>1. walk.last = token.values /\ walk.last # <<>> /\ AreNumbers(walk.last, order)
      BY <1>4, <2>2 DEF IsResumed
    <3> DEFINE values == walk.last
    <3>2. AreNumbers(values, order)
      BY <3>1
    <3> HIDE DEF values
    <3>3. Position(values, order) \in Seq(Int)
      BY <1>8, <3>2, PositionsAre
    <3>4. Position(values, order) # Start
      BY <3>3, PlacesAssumption
    <3> QED BY <1>7, <2>2, <3>1, <3>4 DEF values
  <2> QED BY <2>1, <2>2
<1>10. ASSUME NEW k \in Keys
       PROVE  /\ At[k] # Absent
                    <=> rows[k] # Gone /\ Matches(rows[k], selects)
              /\ At[k] # Absent =>
                    At[k] = Position(OrderValues(rows[k], order), order)
  <2>1. PICK x : x = rows[k]
    OBVIOUS
  <2>2. x \in Stored(app) \cup {Gone}
    BY <1>5, <2>1, HeldRowsAreStored
  <2>3. Place(x, q.order, selects) = Absent
           <=> x = Gone \/ ~Matches(x, selects)
    BY <1>4, <2>2, PlacesAreApart
  <2> QED BY <1>2, <1>7, <2>1, <2>3 DEF Place
<1>11. ASSUME NEW k \in Keys
       PROVE  k \in keys <=>
                 /\ At[k] # Absent
                 /\ WalkCursor = Start \/ LiesBefore(WalkCursor, At[k])
  <2>1. k \in keys <=> /\ rows[k] # Gone
                       /\ Matches(rows[k], ListPredicate(r, s, parent))
    BY DEF Selected
  <2>2. rows[k] # Gone => rows[k] \in Stored(app)
    BY <1>5 DEF RowsOK
  <2>3. rows[k] # Gone =>
           (Matches(rows[k], ListPredicate(r, s, parent)) <=>
               Matches(rows[k], selects) /\ IsAhead(rows[k], token, order))
    BY <1>2, <1>3, <2>2 DEF IsNextPage
  <2>4. IsAhead(rows[k], token, order) <=>
           \/ token = NoToken
           \/ LiesBefore(WalkCursor, Position(OrderValues(rows[k], order), order))
    BY <1>9 DEF IsAhead
  <2> HIDE DEF keys
  <2> QED BY <1>9, <1>10, <2>1, <2>3, <2>4
<1>12. Promise!Present = {k \in Keys : At[k] # Absent}
  BY DEF Promise!Present, At
<1>13. Promise!After = keys
  <2>1. Promise!After = {k \in Promise!Present :
                           WalkCursor = Start \/ LiesBefore(WalkCursor, At[k])}
    BY DEF Promise!After, Promise!Present, At, WalkCursor
  <2>2. keys \subseteq Keys
    BY DEF Selected
  <2> HIDE DEF keys
  <2> QED BY <1>11, <1>12, <2>1, <2>2
<1>14. keys \subseteq Keys /\ \A k \in keys : rows[k] # Gone
  BY DEF Selected
<1> HIDE DEF keys, shown, last
<1>15. ASSUME NEW k \in keys, NEW l \in keys
       PROVE  ComesBefore(rows[k], rows[l], order) <=> LiesBefore(At[k], At[l])
  <2>1. PICK x, y : x = rows[k] /\ y = rows[l]
    OBVIOUS
  <2>2. x \in Stored(app) /\ y \in Stored(app)
    BY <1>5, <1>14, <2>1 DEF RowsOK
  <2>3. HasNumbers(x, order) /\ HasNumbers(y, order)
    BY <1>8, <2>2
  <2>4. ComesBefore(x, y, order)
           <=> LiesBefore(Position(OrderValues(x, order), order),
                          Position(OrderValues(y, order), order))
    BY <1>8, <2>3, RowsLieInOrder
  <2>5. /\ At[k] = Position(OrderValues(x, order), order)
        /\ At[l] = Position(OrderValues(y, order), order)
    BY <1>10, <1>11, <1>14, <2>1
  <2> QED BY <2>1, <2>4, <2>5
<1>16. Promise!IsRun(shown)
  <2>1. \A k \in shown, l \in keys : LiesBefore(At[l], At[k]) => l \in shown
    BY <1>6, <1>15
  <2>2. \A k \in Keys : At[k] = [j \in Keys |-> WalkPosition(j)][k]
    BY DEF At
  <2> QED BY <1>6, <1>13, <1>14, <2>1, <2>2 DEF Promise!IsRun
<1>17. /\ walk'.status = IF page.nextCursor = NoToken THEN "ended" ELSE "going"
       /\ walk'.last = IF page.data = <<>> THEN walk.last
                       ELSE OrderValues(rows[last], order)
       /\ walk'.shown = walk.shown \cup shown
       /\ walk'.again = walk.again \cup (walk.shown \cap shown)
       /\ walk'.steady = walk.steady /\ walk'.order = order
       /\ walk'.selects = selects
  BY <1>1, <1>3, <1>4, ShownPages DEF shown, last
<1>18. At' = At
  <2>1. \A k \in Keys : WalkPosition(k)' = Place(rows[k], order, selects)
    BY <1>1, <1>17 DEF WalkPosition, Place
  <2>2. \A k \in Keys : WalkPosition(k) = Place(rows[k], order, selects)
    BY <1>1, <1>4 DEF WalkPosition, Place
  <2> QED BY <2>1, <2>2 DEF At
<1>19. WalkCursor' = IF walk'.last = <<>> THEN Start
                     ELSE Position(walk'.last, order)
  BY <1>17 DEF WalkCursor
<1>20. page.data = <<>> => shown = {} /\ WalkCursor' = WalkCursor
  BY <1>7, <1>17, <1>19 DEF shown, Members
<1>21. ASSUME page.data # <<>>
       PROVE  last \in shown /\ Promise!Ends(shown, last) /\ WalkCursor' = At[last]
  <2>1. last \in shown /\ last \in keys /\ last \in Keys
    BY <1>6, <1>14, <1>21
  <2>2. \A k \in shown : k = last \/ LiesBefore(At[k], At[last])
    BY <1>6, <1>15, <1>21, <2>1
  <2>3. Promise!Ends(shown, last)
    <3>1. \A k \in Keys : At[k] = [j \in Keys |-> WalkPosition(j)][k]
      BY DEF At
    <3> QED BY <1>6, <1>14, <2>1, <2>2, <3>1 DEF Promise!Ends
  <2>4. At[last] = Position(OrderValues(rows[last], order), order)
    BY <1>10, <1>11, <2>1
  <2>5. OrderValues(rows[last], order) # <<>>
    <3>1. PICK x : x = rows[last]
      OBVIOUS
    <3>2. HasNumbers(x, order)
      BY <1>5, <1>8, <1>14, <2>1, <3>1 DEF RowsOK
    <3>3. AreNumbers(OrderValues(x, order), order)
      BY <1>8, <3>2, OrderValuesAre
    <3>4. Len(order) # 0
      BY <1>8 DEF IsDirected, IsSequence
    <3> QED BY <3>1, <3>3, <3>4 DEF AreNumbers
  <2> QED BY <1>17, <1>19, <1>21, <2>1, <2>3, <2>4, <2>5
<1>22. shown \in SUBSET Keys
  BY <1>6, <1>14
<1>23. Promise!Fetch(shown)
  <2>1. shown = {} => keys = {}
    BY <1>6, <1>21
  <2>2. IF shown = {} THEN WalkCursor' = WalkCursor
        ELSE \E k \in shown : Promise!Ends(shown, k) /\ WalkCursor' = At[k]
    BY <1>20, <1>21
  <2>3. \A k \in Keys : At[k] = [j \in Keys |-> WalkPosition(j)][k]
    BY DEF At
  <2>4. IF shown = {} THEN WalkCursor' = WalkCursor
        ELSE \E k \in shown : /\ Promise!Ends(shown, k)
                              /\ WalkCursor' = [j \in Keys |-> WalkPosition(j)][k]
    BY <1>22, <2>2, <2>3
  <2>5. walk'.status = IF shown = keys THEN "ended" ELSE "going"
    BY <1>6, <1>17
  <2> QED BY <1>1, <1>13, <1>16, <1>17, <1>18, <2>1, <2>4, <2>5
          DEF Promise!Fetch, At, WalkCursor
<1> QED BY <1>22, <1>23

(* A write moves one row and nothing else.                                 *)
LEMMA WritesWrite ==
    ASSUME IsEvaluation, MarkersAreApart, AppInv, AppInv', WalkFollows,
           NEW k \in Keys, NEW row \in Records \cup {Gone}, Write(k, row)
    PROVE  Promise!Write(k)
<1>1. /\ walk.status = "going" /\ walk # NoWalk
      /\ rows' = [rows EXCEPT ![k] = row]
      /\ walk'.status = walk.status /\ walk'.order = walk.order
      /\ walk'.selects = walk.selects /\ walk'.last = walk.last
      /\ walk'.shown = walk.shown /\ walk'.again = walk.again
      /\ walk'.steady = walk.steady \ {k}
  BY DEF Write, NoWalk
<1>2. PICK r, raw, parent, q, order, selects :
         /\ r = walk.resource /\ raw = walk.raw /\ parent = walk.parent
         /\ q = Query(r, raw, parent)
         /\ order = q.order /\ selects = ListPredicate(r, q, parent)
  OBVIOUS
<1>3. /\ IsWalked(r, raw, parent, q)
      /\ walk.order = order /\ walk.selects = selects
  BY <1>1, <1>2, WalksRepeatQueries
<1>4. RowsOK /\ RowsOK'
  BY DEF AppInv
<1>5. Stored(app)' = Stored(app)
  BY DEF Write, Stored, bootVars
<1>6. PICK table : table = rows'
  OBVIOUS
<1>7. /\ \A l \in Keys : table[l] \in Stored(app) \cup {Gone}
      /\ \A l, m \in Keys : l # m /\ table[l] # Gone /\ table[m] # Gone
                               => table[l].id # table[m].id
      /\ \A l \in Keys \ {k} : table[l] = rows[l]
  BY <1>1, <1>4, <1>5, <1>6 DEF RowsOK
<1>8. \A l \in Keys : WalkPosition(l)' = Place(table[l], order, selects)
  BY <1>1, <1>3, <1>6 DEF WalkPosition, Place
<1>9. \A l \in Keys : WalkPosition(l) = Place(rows[l], order, selects)
  BY <1>1, <1>3 DEF WalkPosition, Place
<1>10. At' \in [Keys -> {Absent} \cup Seq(Int)]
  <2>1. ASSUME NEW l \in Keys
        PROVE  Place(table[l], order, selects) \in {Absent} \cup Seq(Int)
    <3>1. PICK x : x = table[l] /\ x \in Stored(app) \cup {Gone}
      BY <1>7
    <3>2. Place(x, q.order, selects) \in {Absent} \cup Seq(Int)
      BY <1>3, <3>1, PlacesAreApart
    <3> QED BY <1>2, <3>1, <3>2
  <2> QED BY <1>8, <2>1 DEF At
<1>11. \A l \in Keys \ {k} : WalkPosition(l)' = WalkPosition(l)
  BY <1>7, <1>8, <1>9
<1>12. ASSUME NEW l \in Keys, NEW m \in Keys, l # m,
              Place(table[l], order, selects) = Place(table[m], order, selects)
       PROVE  Place(table[l], order, selects) = Absent
  <2>1. PICK x, y : x = table[l] /\ y = table[m]
    OBVIOUS
  <2>2. /\ x \in Stored(app) \cup {Gone} /\ y \in Stored(app) \cup {Gone}
        /\ x # Gone /\ y # Gone => x.id # y.id
    BY <1>7, <1>12, <2>1
  <2>3. Place(x, q.order, selects) = Place(y, q.order, selects)
    BY <1>2, <1>12, <2>1
  <2>4. Place(x, q.order, selects) = Absent
    BY <1>3, <2>2, <2>3, PlacesAreApart
  <2> QED BY <1>2, <2>1, <2>4
<1>13. Promise!NoneShareAPlace'
  BY <1>8, <1>12 DEF Promise!NoneShareAPlace
<1> QED BY <1>1, <1>10, <1>11, <1>13 DEF Promise!Write, At

(* A client that follows nextCursor walks as KeysetWalk promises, for any  *)
(* resources, requests and rows, and any writes between two pages.         *)
THEOREM WalksFollowThePromise ==
    ASSUME IsEvaluation, MarkersAreApart
    PROVE  Spec => WalksKeepThePromise
<1> DEFINE Inv == AppInv /\ WalkFollows
<1>1. AppInit => Inv
  BY AppInvInit DEF AppInit, WalkFollows
<1>2. Inv /\ [Next]_appVars => Inv'
  <2> SUFFICES ASSUME Inv, [Next]_appVars PROVE Inv'
    OBVIOUS
  <2> QED BY AppInvNext, WalkFollowsNext
<1>3. Inv /\ [Next]_appVars => [Promise!Next]_(Promise!vars)
  <2> SUFFICES ASSUME Inv, [Next]_appVars
               PROVE  [Promise!Next]_(Promise!vars)
    OBVIOUS
  <2>1. CASE UNCHANGED <<rows, walk>>
    BY <2>1, IdleStepsStutter
  <2>2. ASSUME NEW r \in Bound, NEW parent, NEW raw \in Walks,
               StartWalk(r, raw, parent)
        PROVE  Promise!Next
    BY <2>2, StartedWalksBegin DEF Promise!Next
  <2>3. CASE NextPage
    BY <2>3, NextPagesFetch DEF Promise!Next
  <2>4. ASSUME NEW k \in Keys, NEW row \in Records \cup {Gone}, Write(k, row)
        PROVE  Promise!Next
    <3>1. AppInv'
      BY AppInvNext
    <3> QED BY <2>4, <3>1, WritesWrite DEF Promise!Next
  <2> QED BY <2>1, <2>2, <2>3, <2>4 DEF Next, appVars, Ask
<1> HIDE DEF Inv
<1> QED BY <1>1, <1>2, <1>3, WalksBegin, PTL DEF Spec, WalksKeepThePromise, Promise!Spec

LEMMA LeastOf ==
    ASSUME NEW S, S # {}, S \subseteq Nat
    PROVE  \E i \in S : \A j \in S : i <= j
<1> DEFINE less == OpToRel(<, Nat)
<1>1. IsWellFoundedOn(less, Nat)
  BY NatLessThanWellFounded, Zenon
<1>2. PICK i \in S : \A j \in S : <<j, i>> \notin less
  <2> HIDE DEF less
  <2> QED BY <1>1, WFMin
<1>3. ASSUME NEW j \in S, j < i PROVE FALSE
  <2>1. j \in Nat /\ i \in Nat
    OBVIOUS
  <2>2. <<j, i>> \in less
    BY <1>3, <2>1, Zenon DEF OpToRel
  <2> QED BY <1>2, <2>2
<1>4. \A j \in S : j \in Nat /\ i \in Nat
  OBVIOUS
<1> QED BY <1>3, <1>4

(* Positions are totally ordered.                                          *)
LEMMA PositionsAreOrdered == Promise!IsStrictOrder(Seq(Int))
<1>1. /\ \A p, q \in Seq(Int) : LiesBefore(p, q) \in BOOLEAN
      /\ \A p \in Seq(Int) : ~LiesBefore(p, p)
  BY DEF LiesBefore
<1>2. ASSUME NEW p \in Seq(Int), NEW q \in Seq(Int), NEW s \in Seq(Int),
             LiesBefore(p, q), LiesBefore(q, s)
      PROVE  LiesBefore(p, s)
  <2>1. CASE Len(p) < Len(q) \/ Len(q) < Len(s)
    BY <1>2, <2>1 DEF LiesBefore
  <2>2. CASE Len(p) = Len(q) /\ Len(q) = Len(s)
    <3>1. PICK i \in DOMAIN p : p[i] < q[i] /\ \A j \in 1..(i - 1) : p[j] = q[j]
      BY <1>2, <2>2 DEF LiesBefore
    <3>2. PICK k \in DOMAIN q : q[k] < s[k] /\ \A j \in 1..(k - 1) : q[j] = s[j]
      BY <1>2, <2>2 DEF LiesBefore
    <3>3. /\ i \in 1..Len(p) /\ k \in 1..Len(p) /\ DOMAIN p = 1..Len(p)
          /\ Len(p) \in Nat
          /\ \A j \in 1..Len(p) : p[j] \in Int /\ q[j] \in Int /\ s[j] \in Int
      BY <2>2
    <3>4. ASSUME NEW l \in DOMAIN p, p[l] < s[l],
                 \A j \in 1..(l - 1) : p[j] = q[j] /\ q[j] = s[j]
          PROVE  LiesBefore(p, s)
      BY <2>2, <3>4 DEF LiesBefore
    <3>5. CASE i < k
      <4>1. i \in 1..(k - 1)
        BY <3>3, <3>5
      <4>2. p[i] < q[i] /\ q[i] = s[i]
        BY <3>1, <3>2, <4>1
      <4>3. p[i] < s[i]
        BY <3>3, <4>2
      <4>4. \A j \in 1..(i - 1) : j \in 1..(k - 1)
        BY <3>3, <3>5
      <4>5. \A j \in 1..(i - 1) : p[j] = q[j] /\ q[j] = s[j]
        BY <3>1, <3>2, <4>4
      <4> QED BY <3>1, <3>4, <4>3, <4>5
    <3>6. CASE k < i
      <4>1. k \in 1..(i - 1) /\ k \in DOMAIN p
        BY <3>3, <3>6
      <4>2. p[k] < s[k] /\ \A j \in 1..(k - 1) : p[j] = q[j] /\ q[j] = s[j]
        BY <3>1, <3>2, <3>3, <3>6, <4>1
      <4> QED BY <3>4, <4>1, <4>2
    <3>7. CASE i = k
      <4>1. p[i] < s[i] /\ \A j \in 1..(i - 1) : p[j] = q[j] /\ q[j] = s[j]
        BY <3>1, <3>2, <3>3, <3>7
      <4> QED BY <3>1, <3>4, <4>1
    <3> QED BY <3>3, <3>5, <3>6, <3>7
  <2> QED BY <1>2, <2>1, <2>2 DEF LiesBefore
<1>3. ASSUME NEW p \in Seq(Int), NEW q \in Seq(Int), p # q
      PROVE  LiesBefore(p, q) \/ LiesBefore(q, p)
  <2>1. /\ Len(p) \in Nat /\ DOMAIN p = 1..Len(p)
        /\ Len(q) \in Nat /\ DOMAIN q = 1..Len(q)
        /\ \A i \in 1..Len(p) : p[i] \in Int
        /\ \A i \in 1..Len(q) : q[i] \in Int
    OBVIOUS
  <2>2. CASE Len(p) # Len(q)
    <3> DEFINE m == Len(p)
               n == Len(q)
    <3>1. m \in Nat /\ n \in Nat /\ m # n
      BY <2>1, <2>2
    <3>2. m < n \/ n < m
      <4> HIDE DEF m, n
      <4> QED BY <3>1
    <3> QED BY <3>2 DEF LiesBefore
  <2>3. CASE Len(p) = Len(q)
    <3> DEFINE differ == {i \in 1..Len(p) : p[i] # q[i]}
    <3>1. differ # {} /\ differ \subseteq Nat
      BY <1>3, <2>1, <2>3
    <3>2. PICK i \in differ : \A j \in differ : i <= j
      <4> HIDE DEF differ
      <4> QED BY <3>1, LeastOf
    <3>3. \A j \in 1..(i - 1) : p[j] = q[j]
      <4>1. \A j \in 1..(i - 1) : j \in 1..Len(p) /\ ~(i <= j)
        BY <2>1
      <4> QED BY <3>2, <4>1
    <3>4. p[i] < q[i] \/ q[i] < p[i]
      BY <2>1, <2>3
    <3>5. i \in DOMAIN p /\ i \in DOMAIN q
      BY <2>1, <2>3
    <3> HIDE DEF differ
    <3> QED BY <2>3, <3>3, <3>4, <3>5 DEF LiesBefore
  <2> QED BY <2>2, <2>3
<1> QED BY <1>1, <1>2, <1>3, PlacesAssumption DEF Promise!IsStrictOrder

PromiseProofs == INSTANCE KeysetWalkProofs WITH
    Rows <- Keys, Positions <- Seq(Int),
    Before <- LiesBefore, Absent <- Absent, Start <- Start,
    at <- [k \in Keys |-> WalkPosition(k)],
    walk <- walk.status,
    cursor <- IF walk.status = "none" \/ walk.last = <<>> THEN Start
              ELSE Position(walk.last, walk.order),
    shown <- walk.shown, again <- walk.again, steady <- walk.steady

(* A row that nobody writes during a walk is shown by it exactly once:     *)
(* every page's nextCursor stands for a predicate that selects what the    *)
(* pages before have not shown, and nothing else of what they could have.  *)
THEOREM WalksShowUntouchedRowsOnce ==
    ASSUME IsEvaluation, MarkersAreApart
    PROVE  Spec => []Promise!EveryUntouchedRowOnce
<1>1. PromiseProofs!IsStrictOrder(Seq(Int))
  BY PositionsAreOrdered DEF Promise!IsStrictOrder, PromiseProofs!IsStrictOrder
<1>2. Promise!Init => PromiseProofs!Init
  BY DEF Promise!Init, PromiseProofs!Init
<1>3. [Promise!Next]_(Promise!vars) => [PromiseProofs!Next]_(PromiseProofs!vars)
  BY DEF Promise!Next, PromiseProofs!Next, Promise!vars, PromiseProofs!vars,
         Promise!Begin, PromiseProofs!Begin, Promise!Fetch, PromiseProofs!Fetch,
         Promise!Write, PromiseProofs!Write, Promise!IsRun, PromiseProofs!IsRun,
         Promise!Ends, PromiseProofs!Ends, Promise!After, PromiseProofs!After,
         Promise!Present, PromiseProofs!Present,
         Promise!NoneShareAPlace, PromiseProofs!NoneShareAPlace
<1>4. PromiseProofs!Init => PromiseProofs!Inv
  BY PromiseProofs!InitInv
<1>5. PromiseProofs!Inv /\ [PromiseProofs!Next]_(PromiseProofs!vars) => PromiseProofs!Inv'
  BY <1>1, PromiseProofs!NextInv
<1>6. PromiseProofs!Inv => Promise!EveryUntouchedRowOnce
  BY DEF PromiseProofs!Inv, PromiseProofs!EveryUntouchedRowOnce,
         Promise!EveryUntouchedRowOnce, Promise!Present, PromiseProofs!Present
<1>7. Spec => Promise!Spec
  BY WalksFollowThePromise DEF WalksKeepThePromise
<1>8. Promise!Spec => Promise!Init /\ [][Promise!Next]_(Promise!vars)
  BY DEF Promise!Spec
<1> QED BY <1>2, <1>3, <1>4, <1>5, <1>6, <1>7, <1>8, PTL

(* Whether the application starts is decided by its resources, also when   *)
(* requests are answered and rows are written afterwards.                  *)
THEOREM StartStaysDecided == Spec => []VerdictHasNoOrder
<1>1. AppInit => IInv
  BY InitInv DEF AppInit
<1>2. IInv /\ [Next]_appVars => IInv'
  BY NextInv, AppStepsBoot DEF appVars, bootVars
<1> QED BY <1>1, <1>2, PTL DEF Spec, IInv
=============================================================================
