-------------------------- MODULE PaginationProofs --------------------------
(***************************************************************************)
(* Proofs about Pagination, for any number of rows, limits and changes: a  *)
(* walk returns no row twice and misses none.                              *)
(***************************************************************************)
EXTENDS Pagination, FiniteSetTheorems, TLAPS

----------------------------------------------------------------------------
(* The order of a listing *)

\* Ids and timestamps are numbers.
LEMMA Stamped ==
    ASSUME TypeOK
    PROVE  \A i \in Ids : i \in Nat /\ at[i] \in Int
<1>1. at \in [Ids -> Times \cup {Null}]
    BY DEF TypeOK
<1>2. Ids \subseteq Nat /\ Times \cup {Null} \subseteq Int
    BY PaginationAssumption DEF Null
<1> QED BY <1>1, <1>2

\* ... and so are those of a cursor.
LEMMA CursorIsNumbers ==
    ASSUME TypeOK
    PROVE  cursor.at \in Int /\ cursor.id \in Int
<1>1. cursor \in [at : Times \cup {Null}, id : Ids \cup {Null}]
    BY DEF TypeOK
<1>2. Ids \cup {Null} \subseteq Int /\ Times \cup {Null} \subseteq Int
    BY PaginationAssumption DEF Null
<1> QED BY <1>1, <1>2

\* A listing's order is a strict total order.
LEMMA TotalOrder ==
    ASSUME TypeOK
    PROVE  /\ \A i \in Ids : ~Precedes(i, i)
           /\ \A i, j \in Ids : i = j \/ Precedes(i, j) \/ Precedes(j, i)
           /\ \A i, j, k \in Ids : Precedes(i, j) /\ Precedes(j, k) => Precedes(i, k)
<1> QED BY Stamped DEF Precedes, Null

\* Of every set of rows that is not empty, one is the last.
LEMMA LastExists ==
    ASSUME TypeOK, NEW rows \in SUBSET Ids, rows # {}
    PROVE  \E i \in rows : \A j \in rows : i = j \/ Precedes(j, i)
<1> DEFINE After(i) == {j \in rows : Precedes(i, j)}
           S == {After(i) : i \in rows}
<1>1. IsFiniteSet(rows)
    BY PaginationAssumption, FS_Subset
<1>2. IsWellFoundedOn(StrictSubsetOrdering(rows), SUBSET rows)
    BY <1>1, FS_StrictSubsetOrderingWellFounded, FS_FiniteSubsetsOfFinite
<1>3. S \subseteq SUBSET rows /\ S # {}
    OBVIOUS
<1>4. \E s \in S : \A u \in S : <<u, s>> \notin StrictSubsetOrdering(rows)
    <2> HIDE DEF S
    <2> QED BY <1>2, <1>3, WFMin
<1>5. PICK i \in rows : \A j \in rows : <<After(j), After(i)>> \notin StrictSubsetOrdering(rows)
    BY <1>4
<1>6. ASSUME NEW j \in After(i) PROVE FALSE
    <2>1. After(j) \subseteq After(i) /\ j \notin After(j) /\ j \in rows
        BY <1>6, TotalOrder
    <2>2. <<After(j), After(i)>> \in StrictSubsetOrdering(rows)
        BY <1>6, <2>1 DEF StrictSubsetOrdering
    <2> QED BY <1>5, <2>1, <2>2
<1> QED BY <1>6, TotalOrder

\* ... and one is the first.
LEMMA FirstExists ==
    ASSUME TypeOK, NEW rows \in SUBSET Ids, rows # {}
    PROVE  \E i \in rows : {j \in rows : Precedes(j, i)} = {}
<1> DEFINE Before(i) == {j \in rows : Precedes(j, i)}
           S == {Before(i) : i \in rows}
<1>1. IsFiniteSet(rows)
    BY PaginationAssumption, FS_Subset
<1>2. IsWellFoundedOn(StrictSubsetOrdering(rows), SUBSET rows)
    BY <1>1, FS_StrictSubsetOrderingWellFounded, FS_FiniteSubsetsOfFinite
<1>3. S \subseteq SUBSET rows /\ S # {}
    OBVIOUS
<1>4. \E s \in S : \A u \in S : <<u, s>> \notin StrictSubsetOrdering(rows)
    <2> HIDE DEF S
    <2> QED BY <1>2, <1>3, WFMin
<1>5. PICK i \in rows : \A j \in rows : <<Before(j), Before(i)>> \notin StrictSubsetOrdering(rows)
    BY <1>4
<1>6. ASSUME NEW j \in Before(i) PROVE FALSE
    <2>1. Before(j) \subseteq Before(i) /\ j \notin Before(j) /\ j \in rows
        BY <1>6, TotalOrder
    <2>2. <<Before(j), Before(i)>> \in StrictSubsetOrdering(rows)
        BY <1>6, <2>1 DEF StrictSubsetOrdering
    <2> QED BY <1>5, <2>1, <2>2
<1> QED BY <1>6

----------------------------------------------------------------------------
(* A page *)

\* A request never gets by without a limit.
LEMMA LimitIsPositive ==
    ASSUME NEW asked \in AskedLimits
    PROVE  Limit(asked) \in Nat \ {0}
    BY PaginationAssumption DEF Limit

\* A page holds the rows up to its last one, and all of them if they fit.
LEMMA PageIsPrefix ==
    ASSUME TypeOK, NEW rows \in SUBSET Ids, NEW n \in Nat \ {0}
    PROVE  LET page == FirstRows(rows, n) IN
           /\ page \subseteq rows
           /\ \A i \in page, j \in rows : Precedes(j, i) => j \in page
           /\ rows # {} => page # {}
           /\ Cardinality(rows) <= n => page = rows
<1> DEFINE Before(i) == {j \in rows : Precedes(j, i)}
           page == FirstRows(rows, n)
<1>1. IsFiniteSet(rows) /\ Cardinality(rows) \in Nat
    BY PaginationAssumption, FS_Subset, FS_CardinalityType
<1>2. \A i : Before(i) \in SUBSET rows
    OBVIOUS
<1>3. \A i : IsFiniteSet(Before(i)) /\ Cardinality(Before(i)) \in Nat
    BY <1>1, <1>2, FS_Subset, FS_CardinalityType
<1>4. page = {i \in rows : Cardinality(Before(i)) < n}
    BY DEF FirstRows
<1>5. ASSUME NEW i \in page, NEW j \in rows, Precedes(j, i)
      PROVE  j \in page
    <2>1. Before(j) \in SUBSET Before(i)
        BY <1>4, <1>5, TotalOrder
    <2>2. Cardinality(Before(j)) <= Cardinality(Before(i))
        BY <1>3, <2>1, FS_Subset
    <2>3. Cardinality(Before(i)) < n
        BY <1>4
    <2> HIDE DEF Before, page
    <2> QED BY <1>3, <1>4, <2>2, <2>3
<1>6. ASSUME rows # {} PROVE page # {}
    <2>1. PICK i \in rows : Before(i) = {}
        BY <1>6, FirstExists
    <2>2. Cardinality(Before(i)) = 0
        BY <2>1, FS_EmptySet
    <2> HIDE DEF Before, page
    <2> QED BY <1>4, <2>2
<1>7. ASSUME Cardinality(rows) <= n PROVE page = rows
    <2>1. ASSUME NEW i \in rows PROVE Cardinality(Before(i)) < n
        <3>1. Before(i) # rows
            BY <2>1, TotalOrder
        <3>2. Cardinality(Before(i)) <= Cardinality(rows) /\ Cardinality(Before(i)) # Cardinality(rows)
            BY <1>1, <1>2, <3>1, FS_Subset
        <3> HIDE DEF Before
        <3> QED BY <1>1, <1>3, <1>7, <3>2
    <2> QED BY <1>4, <2>1
<1> QED BY <1>4, <1>5, <1>6, <1>7

\* The last row of a set is the last.
LEMMA LastIsLast ==
    ASSUME TypeOK, NEW rows \in SUBSET Ids, rows # {}
    PROVE  /\ LastRow(rows) \in rows
           /\ \A j \in rows : j = LastRow(rows) \/ Precedes(j, LastRow(rows))
    BY LastExists DEF LastRow

\* The rows that are not on a page come after its last row.
LEMMA PageSplits ==
    ASSUME TypeOK, NEW rows \in SUBSET Ids, rows # {}, NEW n \in Nat \ {0}
    PROVE  LET last == LastRow(FirstRows(rows, n)) IN
           /\ last \in rows
           /\ \A i \in rows : i \in FirstRows(rows, n) <=> ~Precedes(last, i)
<1> DEFINE page == FirstRows(rows, n)
           last == LastRow(page)
<1>1. /\ page \in SUBSET Ids /\ page \subseteq rows /\ page # {}
      /\ \A i \in page, j \in rows : Precedes(j, i) => j \in page
    BY PageIsPrefix
<1>2. last \in page /\ \A j \in page : j = last \/ Precedes(j, last)
    <2> HIDE DEF page
    <2> QED BY <1>1, LastIsLast
<1> HIDE DEF page, last
<1>3. ASSUME NEW i \in rows PROVE i \in page <=> ~Precedes(last, i)
    <2>1. i \in Ids /\ last \in Ids /\ last \in rows
        BY <1>1, <1>2
    <2>2. CASE i \in page
        BY <1>2, <2>1, <2>2, TotalOrder
    <2>3. CASE i \notin page
        BY <1>1, <1>2, <2>1, <2>3, TotalOrder
    <2> QED BY <2>2, <2>3
<1> QED BY <1>1, <1>2, <1>3 DEF page, last

----------------------------------------------------------------------------
(* A cursor *)

\* The id and the timestamp of a row as its listing's cursor.
CursorAt(i) == [at |-> IF listing \in ById THEN Null ELSE at[i], id |-> i]

\* The rows past the cursor made of a row are those the listing puts after it,
\* unless the row has no timestamp.
LEMMA CursorResumes ==
    ASSUME TypeOK, NEW i \in Ids, NEW j \in Ids,
           listing \in ById \/ at[i] # Null
    PROVE  PastCursor(j, CursorAt(i)) <=> Precedes(i, j)
<1>1. i \in Nat /\ j \in Nat /\ i # Null
    BY PaginationAssumption DEF Null
<1>2. CursorAt(i).id = i /\ CursorAt(i).at = IF listing \in ById THEN Null ELSE at[i]
    BY DEF CursorAt
<1>3. CASE listing \in ById
    BY <1>1, <1>2, <1>3 DEF PastCursor, Precedes
<1>4. CASE listing \notin ById
    <2>1. at[i] \in Int /\ at[j] \in Int
        BY Stamped
    <2> QED BY <1>1, <1>2, <1>4, <2>1 DEF PastCursor, Precedes
<1> QED BY <1>3, <1>4

\* The rows after one that is past a cursor are past it, too.
LEMMA PastIsUpwards ==
    ASSUME TypeOK, NEW i \in Ids, NEW j \in Ids,
           PastCursor(i, cursor), Precedes(i, j)
    PROVE  PastCursor(j, cursor)
<1>1. /\ i \in Nat /\ j \in Nat /\ at[i] \in Int /\ at[j] \in Int
      /\ cursor.at \in Int /\ cursor.id \in Int
    BY Stamped, CursorIsNumbers
<1> QED BY <1>1 DEF PastCursor, Precedes

----------------------------------------------------------------------------
(* Types *)

\* The rows a request finds, and what it makes of them.
Found == {i \in listed : PastCursor(i, Parameters)}

\* The cursor of a response is of its type, even where its row has no timestamp.
LEMMA NextCursorTyped ==
    ASSUME TypeOK, NEW n \in Nat \ {0}, Cardinality(Found) > n
    PROVE  /\ Found # {}
           /\ LastRow(FirstRows(Found, n)) \in Found
           /\ NextCursor(Found, n) = CursorAt(LastRow(FirstRows(Found, n)))
           /\ NextCursor(Found, n) \in [at : Times \cup {Null}, id : Ids \cup {Null}]
<1>1. Found \in SUBSET Ids
    BY DEF Found, TypeOK
<1>2. Found # {}
    BY FS_EmptySet
<1>3. LastRow(FirstRows(Found, n)) \in Found
    BY <1>1, <1>2, PageSplits
<1>4. NextCursor(Found, n) = CursorAt(LastRow(FirstRows(Found, n)))
    BY DEF NextCursor, CursorAt
<1>5. ASSUME NEW i \in Ids PROVE CursorAt(i) \in [at : Times \cup {Null}, id : Ids \cup {Null}]
    <2>1. at \in [Ids -> Times \cup {Null}]
        BY DEF TypeOK
    <2> QED BY <2>1 DEF CursorAt
<1> QED BY <1>1, <1>2, <1>3, <1>4, <1>5

\* What a request with limit n does.
Fetched(n) ==
    /\ open
    /\ times_seen' = [i \in Ids |->
                        IF i \in FirstRows(Found, n) /\ times_seen[i] < 2
                        THEN times_seen[i] + 1 ELSE times_seen[i]]
    /\ open' = (Cardinality(Found) > n)
    /\ cursor' = IF Cardinality(Found) > n THEN NextCursor(Found, n) ELSE NoCursor
    /\ blind' = (blind \/ (/\ Cardinality(Found) > n
                           /\ listing \in ByTime
                           /\ cursor'.at = Null))
    /\ UNCHANGED <<listing, listed, at, steady>>

\* Every request has a limit.
LEMMA PageFetched ==
    ASSUME FetchPage
    PROVE  \E n \in Nat \ {0} : Fetched(n)
<1>1. PICK asked \in AskedLimits : Fetched(Limit(asked))
    BY DEF FetchPage, Fetched, Found
<1> QED BY <1>1, LimitIsPositive

\* A request preserves the types.
LEMMA FetchPageTyped ==
    ASSUME TypeOK, FetchPage
    PROVE  TypeOK'
<1>1. PICK n \in Nat \ {0} : Fetched(n)
    BY PageFetched
<1>2. cursor' \in [at : Times \cup {Null}, id : Ids \cup {Null}]
    BY <1>1, NextCursorTyped DEF Fetched, NoCursor
<1>3. times_seen' \in [Ids -> 0..2]
    <2>1. times_seen \in [Ids -> 0..2]
        BY DEF TypeOK
    <2> QED BY <1>1, <2>1 DEF Fetched
<1>4. open' \in BOOLEAN /\ blind' \in BOOLEAN
    BY <1>1 DEF Fetched, TypeOK
<1>5. /\ listing' = listing /\ listed' = listed /\ at' = at /\ steady' = steady
    BY <1>1 DEF Fetched
<1> QED BY <1>2, <1>3, <1>4, <1>5 DEF TypeOK

\* A row's timestamp, if it has one.
LEMMA StampsTyped == Stamps \subseteq Times \cup {Null}
    BY DEF Stamps

\* A row that comes preserves the types.
LEMMA EnterTyped ==
    ASSUME TypeOK, NEW i \in Ids, Enter(i)
    PROVE  TypeOK'
<1>1. PICK t \in Stamps : at' = [at EXCEPT ![i] = t]
    BY DEF Enter
<1>2. at \in [Ids -> Times \cup {Null}] /\ t \in Times \cup {Null}
    BY StampsTyped DEF TypeOK
<1>3. at' \in [Ids -> Times \cup {Null}] /\ \A j \in Ids \ {i} : at'[j] = at[j]
    BY <1>1, <1>2
<1>4. listed' = listed \cup {i} /\ UNCHANGED <<listing, cursor, open, times_seen, steady, blind>>
    BY DEF Enter
<1> QED BY <1>3, <1>4 DEF TypeOK

\* A row that goes preserves the types.
LEMMA LeaveTyped ==
    ASSUME TypeOK, NEW i \in Ids, Leave(i)
    PROVE  TypeOK'
<1>1. at \in [Ids -> Times \cup {Null}] /\ at' = [at EXCEPT ![i] = Null]
    BY DEF TypeOK, Leave
<1>2. at' \in [Ids -> Times \cup {Null}] /\ \A j \in Ids : at'[j] = IF j = i THEN Null ELSE at[j]
    BY <1>1
<1>3. /\ listed' = listed \ {i} /\ steady' = steady \ {i}
      /\ UNCHANGED <<listing, cursor, open, times_seen, blind>>
    BY DEF Leave
<1> QED BY <1>2, <1>3 DEF TypeOK

\* A walk begins in its types.
LEMMA InitTyped == Init => TypeOK
<1> SUFFICES ASSUME Init PROVE TypeOK
    OBVIOUS
<1>1. at \in [Ids -> Times \cup {Null}] /\ \A i \in Ids \ listed : at[i] = Null
    BY StampsTyped DEF Init
<1>2. times_seen \in [Ids -> 0..2]
    BY DEF Init
<1>3. listing \in Listings /\ listed \subseteq Ids /\ steady \subseteq listed
    BY DEF Init
<1>4. cursor \in [at : Times \cup {Null}, id : Ids \cup {Null}]
    <2>1. NoCursor \in [at : Times \cup {Null}, id : Ids \cup {Null}]
        BY DEF NoCursor
    <2>2. [at : Times \cup {Null}, id : Ids] \subseteq [at : Times \cup {Null}, id : Ids \cup {Null}]
        OBVIOUS
    <2> QED BY <2>1, <2>2, Zenon DEF Init, FirstCursors
<1>5. open \in BOOLEAN /\ blind \in BOOLEAN
    BY Zenon DEF Init
<1> QED BY <1>1, <1>2, <1>3, <1>4, <1>5, Zenon DEF TypeOK

\* Every step keeps to the types.
LEMMA NextTyped == TypeOK /\ [Next]_vars => TypeOK'
<1> SUFFICES ASSUME TypeOK, [Next]_vars PROVE TypeOK'
    OBVIOUS
<1>1. CASE FetchPage
    BY <1>1, FetchPageTyped
<1>2. ASSUME NEW i \in Ids, Enter(i) PROVE TypeOK'
    BY <1>2, EnterTyped
<1>3. ASSUME NEW i \in Ids, Leave(i) PROVE TypeOK'
    BY <1>3, LeaveTyped
<1>4. CASE UNCHANGED vars
    BY <1>4 DEF vars, TypeOK
<1> QED BY <1>1, <1>2, <1>3, <1>4 DEF Next

\* A walk keeps to its types: rows are seen up to twice, and the cursor of a
\* response is that of a row.
THEOREM WalkTypes == Spec => []TypeOK
    BY InitTyped, NextTyped, PTL DEF Spec

----------------------------------------------------------------------------
(* What a walk returns *)

\* A row that stays has been returned once if it is behind the cursor or the
\* walk has ended, and otherwise never.
Counted ==
    \A i \in steady : times_seen[i] = IF open /\ PastCursor(i, cursor) THEN 0 ELSE 1

\* A walk of a listing that uses its cursor.
WInv == TypeOK /\ listing # "ListEvents" /\ (~blind => Counted)

\* A request returns the rows it passes, and no other.
LEMMA FetchPageCounts ==
    ASSUME WInv, FetchPage, ~blind'
    PROVE  Counted'
<1>1. TypeOK /\ listing # "ListEvents"
    BY DEF WInv
<1>2. PICK n \in Nat \ {0} : Fetched(n)
    BY PageFetched
<1>3. /\ open /\ open' = (Cardinality(Found) > n) /\ (blind => blind')
      /\ UNCHANGED <<listing, listed, at, steady>>
    BY <1>2 DEF Fetched
<1>4. Found = {i \in listed : PastCursor(i, cursor)}
    BY <1>1 DEF Found, Parameters
<1>5. Counted
    BY <1>3 DEF WInv
<1>6. steady \subseteq listed /\ listed \subseteq Ids /\ Found \in SUBSET Ids
    BY <1>1, <1>4 DEF TypeOK
<1>7. Cardinality(Found) \in Nat
    BY <1>6, PaginationAssumption, FS_Subset, FS_CardinalityType
<1> DEFINE page == FirstRows(Found, n)
<1>8. \A i \in steady : times_seen'[i] = IF i \in page \/ i \notin Found THEN 1 ELSE 0
    <2> SUFFICES ASSUME NEW i \in steady
                 PROVE  times_seen'[i] = IF i \in page \/ i \notin Found THEN 1 ELSE 0
        OBVIOUS
    <2>1. page \subseteq Found
        BY DEF FirstRows
    <2>2. times_seen[i] = IF i \in Found THEN 0 ELSE 1
        BY <1>3, <1>4, <1>5, <1>6 DEF Counted
    <2>3. times_seen'[i] = IF i \in page /\ times_seen[i] < 2
                           THEN times_seen[i] + 1 ELSE times_seen[i]
        BY <1>2, <1>6 DEF Fetched
    <2> HIDE DEF page
    <2> QED BY <2>1, <2>2, <2>3
<1>9. CASE Cardinality(Found) <= n
    <2>1. page = Found
        BY <1>1, <1>6, <1>9, PageIsPrefix
    <2>2. ~open'
        <3>1. ~(Cardinality(Found) > n)
            BY <1>7, <1>9
        <3>2. open' = (Cardinality(Found) > n)
            BY <1>3
        <3> QED BY <3>1, <3>2, Zenon
    <2> HIDE DEF page
    <2> QED BY <1>3, <1>8, <2>1, <2>2 DEF Counted
<1>10. CASE Cardinality(Found) > n
    <2> DEFINE last == LastRow(page)
    <2>1. Found # {} /\ last \in Found /\ cursor' = CursorAt(last) /\ open' = TRUE
        BY <1>1, <1>2, <1>10, NextCursorTyped DEF Fetched
    <2>2. \A i \in Found : i \in page <=> ~Precedes(last, i)
        BY <1>1, <1>6, <2>1, PageSplits
    <2> HIDE DEF page, last
    <2>3. listing \in ById \/ at[last] # Null
        <3>1. listing \in ById \cup ByTime
            BY <1>1, PaginationAssumption DEF TypeOK
        <3>2. listing \in ById \/ cursor'.at # Null
            BY <1>2, <1>10, <3>1 DEF Fetched
        <3> QED BY <2>1, <3>2 DEF CursorAt
    <2>4. ASSUME NEW i \in steady PROVE PastCursor(i, cursor') <=> Precedes(last, i)
        BY <1>1, <1>6, <2>1, <2>3, CursorResumes
    <2>5. ASSUME NEW i \in steady
          PROVE  PastCursor(i, cursor') <=> ~(i \in page \/ i \notin Found)
        <3>1. CASE i \in Found
            BY <2>2, <2>4, <3>1
        <3>2. CASE i \notin Found
            <4>1. ~PastCursor(i, cursor) /\ PastCursor(last, cursor) /\ last \in Ids /\ i \in Ids
                BY <1>4, <1>6, <2>1, <3>2
            <4>2. ~Precedes(last, i)
                BY <1>1, <4>1, PastIsUpwards
            <4> QED BY <2>4, <3>2, <4>2
        <3> QED BY <3>1, <3>2
    <2>6. ASSUME NEW i \in Ids PROVE PastCursor(i, cursor)' <=> PastCursor(i, cursor')
        BY <1>3 DEF PastCursor
    <2> QED BY <1>3, <1>6, <1>8, <2>1, <2>5, <2>6 DEF Counted
<1> QED BY <1>7, <1>9, <1>10

\* The rows that stay keep their places when another comes or goes.
LEMMA PlacesKept ==
    ASSUME NEW i \in Ids, TypeOK, Counted,
           \A j \in Ids \ {i} : at'[j] = at[j],
           i \notin steady', steady' \subseteq steady,
           UNCHANGED <<listing, cursor, open, times_seen>>
    PROVE  Counted'
<1>1. ASSUME NEW j \in steady' PROVE PastCursor(j, cursor)' <=> PastCursor(j, cursor)
    <2>1. j \in Ids \ {i}
        BY DEF TypeOK
    <2> QED BY <2>1 DEF PastCursor
<1> QED BY <1>1 DEF Counted

\* Every step preserves the count.
LEMMA NextCounts == WInv /\ [Next]_vars => WInv'
<1> SUFFICES ASSUME WInv, [Next]_vars PROVE WInv'
    OBVIOUS
<1>1. TypeOK /\ TypeOK' /\ listing # "ListEvents"
    BY NextTyped DEF WInv
<1>2. listing' = listing /\ (blind => blind')
    <2>1. ASSUME FetchPage PROVE listing' = listing /\ (blind => blind')
        BY <2>1, PageFetched DEF Fetched
    <2>2. ASSUME NEW i \in Ids, Enter(i) \/ Leave(i)
          PROVE  listing' = listing /\ (blind => blind')
        BY <2>2 DEF Enter, Leave
    <2>3. ASSUME UNCHANGED vars PROVE listing' = listing /\ (blind => blind')
        BY <2>3 DEF vars
    <2> QED BY <2>1, <2>2, <2>3 DEF Next
<1>3. ASSUME ~blind' PROVE Counted'
    <2>1. Counted
        BY <1>2, <1>3 DEF WInv
    <2>2. CASE FetchPage
        BY <1>3, <2>2, FetchPageCounts
    <2>3. ASSUME NEW i \in Ids, Enter(i) PROVE Counted'
        <3>1. at \in [Ids -> Times \cup {Null}] /\ i \notin steady
            BY <1>1, <2>3 DEF TypeOK, Enter
        <3>2. \A j \in Ids \ {i} : at'[j] = at[j]
            BY <2>3, <3>1 DEF Enter
        <3>3. steady' = steady /\ UNCHANGED <<listing, cursor, open, times_seen>>
            BY <2>3 DEF Enter
        <3> QED BY <1>1, <2>1, <3>1, <3>2, <3>3, PlacesKept
    <2>4. ASSUME NEW i \in Ids, Leave(i) PROVE Counted'
        <3>1. at \in [Ids -> Times \cup {Null}]
            BY <1>1 DEF TypeOK
        <3>2. \A j \in Ids \ {i} : at'[j] = at[j]
            BY <2>4, <3>1 DEF Leave
        <3>3. steady' = steady \ {i} /\ UNCHANGED <<listing, cursor, open, times_seen>>
            BY <2>4 DEF Leave
        <3> QED BY <1>1, <2>1, <3>2, <3>3, PlacesKept
    <2>5. CASE UNCHANGED vars
        BY <2>1, <2>5 DEF Counted, PastCursor, vars
    <2> QED BY <2>2, <2>3, <2>4, <2>5 DEF Next
<1> QED BY <1>1, <1>2, <1>3 DEF WInv

\* A walk has returned nothing when it begins.
LEMMA InitCounts ==
    ASSUME "ListEvents" \notin Listings
    PROVE  Init => WInv
<1> SUFFICES ASSUME Init PROVE WInv
    OBVIOUS
<1>1. TypeOK /\ listing # "ListEvents"
    BY InitTyped DEF Init
<1>2. \A i \in steady : PastCursor(i, cursor) /\ times_seen[i] = 0 /\ open
    <2>1. steady \subseteq Ids
        BY <1>1 DEF TypeOK
    <2>2. ASSUME NEW i \in Ids PROVE PastCursor(i, NoCursor)
        BY DEF PastCursor, NoCursor
    <2>3. cursor = NoCursor
        BY <1>1, Zenon DEF Init, FirstCursors
    <2> QED BY <2>1, <2>2, <2>3 DEF Init
<1> QED BY <1>1, <1>2 DEF WInv, Counted

\* In the three listings that use their cursor, no row that stays is returned
\* twice in one walk, until a page ends on a row that has no timestamp.
THEOREM NoRowTwice ==
    ASSUME "ListEvents" \notin Listings
    PROVE  Spec => []NoneTwice
<1>1. WInv => NoneTwice
    BY DEF WInv, Counted, NoneTwice
<1>2. Init => WInv
    BY InitCounts
<1> QED BY <1>1, <1>2, NextCounts, PTL DEF Spec

\* ... and a walk that has ended has returned every row that stayed.
THEOREM NoRowMissed ==
    ASSUME "ListEvents" \notin Listings
    PROVE  Spec => []NoneMissed
<1>1. WInv => NoneMissed
    BY DEF WInv, Counted, NoneMissed
<1>2. Init => WInv
    BY InitCounts
<1> QED BY <1>1, <1>2, NextCounts, PTL DEF Spec
=============================================================================
