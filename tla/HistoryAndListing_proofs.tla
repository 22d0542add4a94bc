---------------------- MODULE HistoryAndListing_proofs ----------------------
(***************************************************************************)
(* What the Back links and the list of notes promise, for any pages, notes and *)
(* sizes: both put things in an order and find their places in it again.   *)
(***************************************************************************)
EXTENDS NavigationHistory, NoteListing, SequenceTheorems, FiniteSetTheorems, FunctionTheorems,
        TLAPS

-------------------------------------------------------------------------------
(* Elements in order, and the entries at a set of positions.                 *)

LEMMA PlaceTyping ==
  ASSUME NEW s \in SUBSET Nat, IsFiniteSet(s), NEW n \in Nat
  PROVE  /\ PlaceIn(n, s) \in 0 .. Cardinality(s)
         /\ n \in s => PlaceIn(n, s) >= 1
<1>. DEFINE upTo == {k \in s : k <= n}
<1>1. IsFiniteSet(upTo) /\ Cardinality(upTo) <= Cardinality(s)
  BY FS_Subset
<1>2. Cardinality(upTo) \in Nat /\ Cardinality(s) \in Nat
  BY <1>1, FS_CardinalityType
<1>3. ASSUME n \in s PROVE Cardinality(upTo) # 0
  <2>1. n \in upTo
    BY <1>3
  <2>. HIDE DEF upTo
  <2>. QED  BY <1>1, <2>1, FS_EmptySet
<1>. HIDE DEF upTo
<1>4. PlaceIn(n, s) = Cardinality(upTo)
  BY DEF PlaceIn, upTo
<1>. QED  BY <1>1, <1>2, <1>3, <1>4

LEMMA PlaceGrows ==
  ASSUME NEW s \in SUBSET Nat, IsFiniteSet(s), NEW n \in Nat, NEW m \in s, n < m
  PROVE  PlaceIn(n, s) < PlaceIn(m, s)
<1>. DEFINE low == {k \in s : k <= n}
            high == {k \in s : k <= m}
<1>1. IsFiniteSet(high) /\ IsFiniteSet(low)
  BY FS_Subset
<1>2. low \in SUBSET high
  <2>. SUFFICES ASSUME NEW k \in s, k <= n PROVE k <= m
    OBVIOUS
  <2>. QED  OBVIOUS
<1>3. low # high
  <2>1. m \in high /\ m \notin low
    OBVIOUS
  <2>. QED  BY <2>1
<1>. HIDE DEF low, high
<1>4. Cardinality(low) <= Cardinality(high) /\ Cardinality(low) # Cardinality(high)
  BY <1>1, <1>2, <1>3, FS_Subset
<1>5. Cardinality(low) \in Nat /\ Cardinality(high) \in Nat
  BY <1>1, FS_CardinalityType
<1>6. PlaceIn(n, s) = Cardinality(low) /\ PlaceIn(m, s) = Cardinality(high)
  BY DEF PlaceIn, low, high
<1>. QED  BY <1>4, <1>5, <1>6

\* The places of a set's elements are 1 and up, each taken once: counting an
\* injection into as many numbers as there are elements.
LEMMA EveryPlaceTaken ==
  ASSUME NEW s \in SUBSET Nat, IsFiniteSet(s), NEW i \in 1 .. Cardinality(s)
  PROVE  \E n \in s : PlaceIn(n, s) = i
<1>. DEFINE size   == Cardinality(s)
            place  == [n \in s |-> PlaceIn(n, s)]
            places == {PlaceIn(n, s) : n \in s}
<1>0. size \in Nat
  BY FS_CardinalityType
<1>1. \A n \in s : PlaceIn(n, s) \in 1 .. size
  BY <1>0, PlaceTyping
<1>2. ASSUME NEW n \in s, NEW m \in s, PlaceIn(n, s) = PlaceIn(m, s) PROVE n = m
  <2>1. PlaceIn(n, s) \in Nat
    BY <1>1
  <2>2. ~(n < m) /\ ~(m < n)
    BY <1>2, <2>1, PlaceGrows
  <2>. QED  BY <2>2
<1>3. IsFiniteSet(1 .. size) /\ Cardinality(1 .. size) = size
  BY <1>0, FS_Interval
<1>4. places \in SUBSET (1 .. size)
  BY <1>1
<1>5. place \in Bijection(s, places)
  <2>1. place \in [s -> places]
    OBVIOUS
  <2>2. \A a, b \in s : place[a] = place[b] => a = b
    BY <1>2
  <2>3. \A p \in places : \E n \in s : place[n] = p
    OBVIOUS
  <2>. HIDE DEF place, places
  <2>. QED  BY <2>1, <2>2, <2>3, Fun_IsBij
<1>6. Cardinality(places) = size
  <2>. HIDE DEF place, places
  <2>. QED  BY <1>5, FS_Bijection DEF ExistsBijection
<1>7. places = 1 .. size
  <2>. HIDE DEF places
  <2>. QED  BY <1>3, <1>4, <1>6, FS_Subset
<1>. QED  BY <1>7

LEMMA InOrderIsTheOrder ==
  ASSUME NEW s \in SUBSET Nat, IsFiniteSet(s)
  PROVE  /\ Cardinality(s) \in Nat
         /\ InOrder(s) \in Seq(s) /\ Len(InOrder(s)) = Cardinality(s)
         /\ \A n \in s : PlaceIn(n, s) \in 1 .. Cardinality(s) /\ InOrder(s)[PlaceIn(n, s)] = n
         /\ \A i \in 1 .. Cardinality(s) : InOrder(s)[i] \in s /\ PlaceIn(InOrder(s)[i], s) = i
         /\ \A i, j \in 1 .. Cardinality(s) : i < j => InOrder(s)[i] < InOrder(s)[j]
<1>. DEFINE size == Cardinality(s)
<1>0. size \in Nat
  BY FS_CardinalityType
<1>. HIDE DEF size
<1>1. InOrder(s) = [i \in 1 .. size |-> CHOOSE n \in s : PlaceIn(n, s) = i]
  BY DEF InOrder, size
<1>2. \A i \in 1 .. size : InOrder(s)[i] \in s /\ PlaceIn(InOrder(s)[i], s) = i
  BY <1>1, EveryPlaceTaken DEF size
<1>3. InOrder(s) \in [1 .. size -> s]
  BY <1>1, <1>2
<1>4. InOrder(s) \in Seq(s) /\ Len(InOrder(s)) = size
  BY <1>0, <1>3
<1>5. ASSUME NEW i \in 1 .. size, NEW j \in 1 .. size, i < j
      PROVE  InOrder(s)[i] < InOrder(s)[j]
  <2>1. InOrder(s)[i] \in s /\ InOrder(s)[j] \in s
    BY <1>2
  <2>2. InOrder(s)[i] # InOrder(s)[j]
    BY <1>2, <1>5
  <2>3. ASSUME InOrder(s)[j] < InOrder(s)[i] PROVE FALSE
    <3>1. PlaceIn(InOrder(s)[j], s) < PlaceIn(InOrder(s)[i], s)
      BY <2>1, <2>3, PlaceGrows
    <3>. QED  BY <1>2, <1>5, <3>1
  <2>4. InOrder(s)[i] \in Nat /\ InOrder(s)[j] \in Nat
    BY <2>1
  <2>. QED  BY <2>2, <2>3, <2>4
<1>6. ASSUME NEW n \in s PROVE PlaceIn(n, s) \in 1 .. size /\ InOrder(s)[PlaceIn(n, s)] = n
  <2>1. PlaceIn(n, s) \in 1 .. size
    BY <1>0, PlaceTyping DEF size
  <2>. DEFINE m == InOrder(s)[PlaceIn(n, s)]
  <2>2. m \in s /\ PlaceIn(m, s) = PlaceIn(n, s)
    BY <1>2, <2>1
  <2>. HIDE DEF m
  <2>3. PlaceIn(n, s) \in Nat
    BY <2>1
  <2>4. ~(n < m) /\ ~(m < n)
    BY <2>2, <2>3, PlaceGrows
  <2>5. n = m
    BY <2>2, <2>4
  <2>. QED  BY <2>1, <2>5 DEF m
<1>. QED  BY <1>0, <1>2, <1>4, <1>5, <1>6 DEF size

\* What is left of a sequence stands in it in the same order.
LEMMA EntriesKeepOrder ==
  ASSUME NEW S, NEW seq \in Seq(S), NEW places \in SUBSET DOMAIN seq
  PROVE  /\ EntriesAt(seq, places) \in Seq(S)
         /\ Cardinality(places) \in 0 .. Len(seq)
         /\ Len(EntriesAt(seq, places)) = Cardinality(places)
         /\ \A p \in places : \E i \in DOMAIN EntriesAt(seq, places) : EntriesAt(seq, places)[i] = seq[p]
         /\ \A i \in DOMAIN EntriesAt(seq, places) :
               /\ InOrder(places)[i] \in places
               /\ EntriesAt(seq, places)[i] = seq[InOrder(places)[i]]
         /\ \A i, j \in DOMAIN EntriesAt(seq, places) : i < j => InOrder(places)[i] < InOrder(places)[j]
<1>1. Len(seq) \in Nat /\ DOMAIN seq = 1 .. Len(seq)
  BY LenProperties
<1>2. IsFiniteSet(DOMAIN seq) /\ Cardinality(DOMAIN seq) = Len(seq)
  <2>1. 1 \in Int /\ Len(seq) \in Int
    BY <1>1
  <2>. DEFINE n == Len(seq)
  <2>2. IsFiniteSet(1 .. n) /\ Cardinality(1 .. n) = IF 1 > n THEN 0 ELSE n - 1 + 1
    <3>. HIDE DEF n
    <3>. QED  BY <2>1, FS_Interval DEF n
  <2>3. n \in Nat
    BY <1>1
  <2>4. (IF 1 > n THEN 0 ELSE n - 1 + 1) = n
    <3>. HIDE DEF n
    <3>. QED  BY <2>3
  <2>. QED  BY <1>1, <2>2, <2>4
<1>3. IsFiniteSet(places) /\ Cardinality(places) <= Len(seq)
  BY <1>2, FS_Subset
<1>4. places \in SUBSET Nat
  BY <1>1
<1>. DEFINE size == Cardinality(places)
<1>5. /\ size \in Nat
      /\ \A n \in places : PlaceIn(n, places) \in 1 .. size /\ InOrder(places)[PlaceIn(n, places)] = n
      /\ \A i \in 1 .. size : InOrder(places)[i] \in places
      /\ \A i, j \in 1 .. size : i < j => InOrder(places)[i] < InOrder(places)[j]
  BY <1>3, <1>4, InOrderIsTheOrder
<1>6. EntriesAt(seq, places) = [i \in 1 .. size |-> seq[InOrder(places)[i]]]
  BY DEF EntriesAt
<1>7. \A p \in DOMAIN seq : seq[p] \in S
  BY ElementOfSeq
<1>. HIDE DEF size
<1>8. EntriesAt(seq, places) \in [1 .. size -> S]
  BY <1>5, <1>6, <1>7
<1>9. EntriesAt(seq, places) \in Seq(S) /\ Len(EntriesAt(seq, places)) = size
      /\ DOMAIN EntriesAt(seq, places) = 1 .. size
  BY <1>5, <1>8
<1>10. ASSUME NEW p \in places
       PROVE  \E i \in DOMAIN EntriesAt(seq, places) : EntriesAt(seq, places)[i] = seq[p]
  BY <1>5, <1>6, <1>9
<1>. QED  BY <1>1, <1>3, <1>5, <1>6, <1>9, <1>10 DEF size

-------------------------------------------------------------------------------
(* Navigation history.                                                       *)

\* A page's Back link leads to an entry before the page's own.
BackIsBefore ==
    following = Idling /\ Internal(viewed.back) /\ viewed.back.page # viewed.url.page =>
        \A j \in DOMAIN history : history[j].page = viewed.url.page =>
            \E i \in DOMAIN history : i < j /\ history[i] = viewed.back

\* Pages that are blocked have left the history, and the submitted forms are blocked.
Blocking ==
    /\ submitted \subseteq blocked
    /\ \A i \in DOMAIN history : history[i].page \notin blocked

\* Where the browser is: the other site's home has no Back link of its own, and
\* no page is clicked from through a redirect.
Whereabouts ==
    /\ viewed.url = Home => viewed.back = Home
    /\ following.hops = 0 => following.from = NoUrl
    /\ following # Idling => following.url \in Url

HistoryInv ==
    /\ HistoryTypeOK /\ OnePlacePerPage /\ SubmittedFormNotBehind /\ NoBackLoop
    /\ Blocking /\ BackIsBefore /\ Whereabouts

LEMMA UrlFacts ==
  /\ Home \in AnyUrl /\ ~Internal(Home) /\ Home.page \notin Pages \cup PublicPages
  /\ NoUrl \notin AnyUrl
  /\ \A u \in Url : Internal(u) /\ u \in AnyUrl /\ u # Home
  /\ \A u \in AnyUrl : Internal(u) => u \in Url
  /\ [page |-> Landing, query |-> ""] \in Url
<1>1. Packaging \notin Pages \cup PublicPages
  BY HistoryAssumption
<1>2. Home \in AnyUrl /\ ~Internal(Home) /\ Home.page \notin Pages \cup PublicPages
  BY <1>1 DEF Home, AnyUrl, Internal
<1>3. NoUrl.page = "" /\ Home.page = Packaging /\ \A u \in Url : u.page \in Pages \cup PublicPages
  BY DEF NoUrl, Home, Url
<1>4. NoUrl \notin AnyUrl
  BY <1>3, HistoryAssumption DEF AnyUrl
<1>5. \A u \in Url : Internal(u) /\ u \in AnyUrl /\ u # Home
  BY <1>1, <1>3 DEF AnyUrl, Internal
<1>6. \A u \in AnyUrl : Internal(u) => u \in Url
  BY <1>2 DEF AnyUrl
<1>7. [page |-> Landing, query |-> ""] \in Url
  BY HistoryAssumption DEF Url
<1>. QED  BY <1>2, <1>4, <1>5, <1>6, <1>7

LEMMA MaxFacts == MaxHistory \in Nat /\ MaxHistory > 1 /\ 0 <= MaxHistory
<1>1. MaxHistory \in Nat /\ MaxHistory > 1
  BY HistoryAssumption
<1>. QED  BY <1>1

LEMMA EntryTyping ==
  ASSUME HistoryTypeOK
  PROVE  /\ Len(history) \in Nat /\ DOMAIN history = 1 .. Len(history)
         /\ \A i \in DOMAIN history : history[i] \in AnyUrl
BY ElementOfSeq, LenProperties DEF HistoryTypeOK

\* A page has one position or none.
LEMMA OnePosition ==
  ASSUME HistoryTypeOK, OnePlacePerPage, NEW u \in Url, NEW i \in DOMAIN history,
         history[i].page = u.page
  PROVE  InHistory(u) /\ Position(u) = i
<1>1. Internal(history[i])
  BY UrlFacts DEF Internal
<1>2. ASSUME NEW j \in Positions(u) PROVE j = i
  <2>1. j \in DOMAIN history /\ history[j].page = u.page
    BY DEF Positions
  <2>. QED  BY <1>1, <2>1 DEF OnePlacePerPage
<1>3. Positions(u) # {}
  BY <1>1 DEF Positions
<1>4. Positions(u) = {i}
  BY <1>2, <1>3
<1>. QED  BY <1>4, EntryTyping DEF InHistory, Position, Latest

LEMMA PositionTyping ==
  ASSUME HistoryTypeOK, OnePlacePerPage, NEW u \in Url, InHistory(u)
  PROVE  Position(u) \in DOMAIN history /\ history[Position(u)].page = u.page
<1>1. PICK i \in DOMAIN history : history[i].page = u.page
  BY DEF InHistory, Positions
<1>. QED  BY <1>1, OnePosition

\* The Back link is the entry before, or the last one, or the referer.
LEMMA BackLinkIs ==
  ASSUME HistoryTypeOK, OnePlacePerPage, Blocking, NEW u \in Url, NEW referer
  PROVE  BackLink(u, referer) =
           IF InHistory(u)
           THEN IF Position(u) > 1 THEN history[Position(u) - 1] ELSE Home
           ELSE IF Len(history) > 0 THEN history[Len(history)]
           ELSE IF RefererLink(u, referer) # NoUrl THEN RefererLink(u, referer) ELSE Home
<1>0. Len(history) \in Nat /\ DOMAIN history = 1 .. Len(history)
  BY EntryTyping
<1>1. Candidates(u) = {i \in DOMAIN history : /\ history[i].page \notin blocked
                                             /\ IF InHistory(u) THEN i < Position(u)
                                                ELSE history[i].page # u.page}
  BY DEF Candidates, InHistory, Position
<1>2. \A i \in DOMAIN history : history[i].page \notin blocked
  BY DEF Blocking
<1>3. CASE InHistory(u)
  <2>1. Position(u) \in 1 .. Len(history)
    BY <1>0, <1>3, PositionTyping
  <2>2. Candidates(u) = 1 .. (Position(u) - 1)
    BY <1>0, <1>3, <1>1, <1>2, <2>1
  <2>3. CASE Position(u) > 1
    <3>1. Candidates(u) # {}
      BY <2>1, <2>2, <2>3
    <3>2. (CHOOSE i \in Candidates(u) : \A j \in Candidates(u) : j <= i) = Position(u) - 1
      BY <2>1, <2>2, <2>3
    <3>3. BackLink(u, referer) = history[CHOOSE i \in Candidates(u) : \A j \in Candidates(u) : j <= i]
      BY <3>1 DEF BackLink, Latest
    <3>. QED  BY <1>3, <2>3, <3>2, <3>3
  <2>4. CASE ~(Position(u) > 1)
    BY <1>3, <2>1, <2>2, <2>4 DEF BackLink
  <2>. QED  BY <2>3, <2>4
<1>4. CASE ~InHistory(u)
  <2>1. \A i \in DOMAIN history : history[i].page # u.page
    BY <1>4, OnePosition
  <2>2. Candidates(u) = 1 .. Len(history)
    BY <1>0, <1>4, <1>1, <1>2, <2>1
  <2>3. CASE Len(history) > 0
    <3>1. Candidates(u) # {}
      BY <1>0, <2>2, <2>3
    <3>2. (CHOOSE i \in Candidates(u) : \A j \in Candidates(u) : j <= i) = Len(history)
      BY <1>0, <2>2, <2>3
    <3>3. BackLink(u, referer) = history[CHOOSE i \in Candidates(u) : \A j \in Candidates(u) : j <= i]
      BY <3>1 DEF BackLink, Latest
    <3>. QED  BY <1>4, <2>3, <3>2, <3>3
  <2>4. CASE ~(Len(history) > 0)
    BY <1>0, <1>4, <2>2, <2>4 DEF BackLink
  <2>. QED  BY <2>3, <2>4
<1>. QED  BY <1>3, <1>4

\* A page is put behind what is kept before it.
LEMMA PutBehind ==
  ASSUME NEW cut \in Seq(AnyUrl), Len(cut) <= MaxHistory, NEW u \in AnyUrl
  PROVE  LET s == Newest(Append(cut, u))
         IN /\ s \in Seq(AnyUrl) /\ Len(s) \in 1 .. MaxHistory /\ s[Len(s)] = u
            /\ Len(cut) > 0 => Len(s) > 1 /\ s[Len(s) - 1] = cut[Len(cut)]
            /\ \E d \in Nat : \A i \in 1 .. Len(s) - 1 : i + d \in DOMAIN cut /\ s[i] = cut[i + d]
<1>. DEFINE a == Append(cut, u)
            d == IF Len(a) > MaxHistory THEN Len(a) - MaxHistory ELSE 0
            s == Newest(a)
<1>0. MaxHistory \in Nat /\ MaxHistory > 1 /\ Len(cut) \in Nat
  BY HistoryAssumption, LenProperties
<1>1. /\ a \in Seq(AnyUrl) /\ Len(a) = Len(cut) + 1
      /\ \A i \in 1 .. Len(cut) : a[i] = cut[i]
      /\ a[Len(cut) + 1] = u
  BY AppendProperties
<1>. HIDE DEF a
<1>2. d \in {0, 1} /\ Len(a) - d <= MaxHistory /\ (d = 1 => Len(cut) = MaxHistory)
  BY <1>0, <1>1
<1>3. s = SubSeq(a, d + 1, Len(a))
  BY <1>0, <1>1 DEF Newest
<1>. HIDE DEF d
<1>. HIDE DEF s
<1>4. /\ s \in Seq(AnyUrl) /\ Len(s) = Len(cut) + 1 - d
      /\ \A i \in 1 .. Len(cut) + 1 - d : s[i] = a[d + i]
  <2>1. d + 1 \in 1 .. Len(a) + 1 /\ Len(a) \in d .. Len(a)
    BY <1>0, <1>1, <1>2
  <2>. QED  BY <1>0, <1>1, <1>2, <1>3, <2>1, SubSeqProperties
<1>5. Len(s) \in 1 .. MaxHistory /\ s[Len(s)] = u
  BY <1>0, <1>1, <1>2, <1>4
<1>6. Len(cut) > 0 => Len(s) > 1 /\ s[Len(s) - 1] = cut[Len(cut)]
  <2>. SUFFICES ASSUME Len(cut) > 0 PROVE Len(s) > 1 /\ s[Len(s) - 1] = cut[Len(cut)]
    OBVIOUS
  <2>1. Len(s) > 1
    BY <1>0, <1>2, <1>4
  <2>2. s[Len(s) - 1] = a[d + (Len(s) - 1)]
    BY <1>0, <1>2, <1>4, <2>1
  <2>3. d + (Len(s) - 1) = Len(cut)
    BY <1>0, <1>2, <1>4
  <2>. QED  BY <1>0, <1>1, <2>1, <2>2, <2>3
<1>7. \A i \in 1 .. Len(s) - 1 : i + d \in DOMAIN cut /\ s[i] = cut[i + d]
  <2>. SUFFICES ASSUME NEW i \in 1 .. Len(s) - 1 PROVE i + d \in DOMAIN cut /\ s[i] = cut[i + d]
    OBVIOUS
  <2>1. i + d \in 1 .. Len(cut) /\ i \in 1 .. Len(cut) + 1 - d /\ i + d = d + i
    BY <1>0, <1>2, <1>4
  <2>2. DOMAIN cut = 1 .. Len(cut)
    BY LenProperties
  <2>. QED  BY <1>1, <1>4, <2>1, <2>2
<1>8. d \in Nat
  BY <1>2
<1>. QED  BY <1>4, <1>5, <1>6, <1>7, <1>8 DEF s, a

\* What a visit keeps of the history is without the page, and ends where its Back
\* link leads.
LEMMA KeptBefore ==
  ASSUME HistoryTypeOK, OnePlacePerPage, Blocking, NEW u \in Url,
         NEW referer \in AnyUrl \cup {NoUrl}
  PROVE  \E cut \in Seq(AnyUrl) :
           /\ Len(cut) <= MaxHistory
           /\ Stored(u, RefererLink(u, referer)) = Newest(Append(cut, u))
           /\ \A i, j \in DOMAIN cut : Internal(cut[i]) /\ cut[i].page = cut[j].page => i = j
           /\ \A i \in DOMAIN cut : cut[i].page # u.page /\ cut[i].page \notin blocked
           /\ \/ BackLink(u, referer) = Home
              \/ BackLink(u, referer).page = u.page
              \/ Len(cut) > 0 /\ BackLink(u, referer) = cut[Len(cut)]
<1>. DEFINE r == RefererLink(u, referer)
<1>0. /\ Len(history) \in Nat /\ DOMAIN history = 1 .. Len(history) /\ history \in Seq(AnyUrl)
      /\ Len(history) <= MaxHistory /\ MaxHistory \in Nat /\ MaxHistory > 1
  BY EntryTyping, HistoryAssumption DEF HistoryTypeOK
<1>1. CASE history = <<>>
  <2>1. ~InHistory(u) /\ Len(history) = 0 /\ DOMAIN history = {}
    BY <1>1 DEF InHistory, Positions
  <2>2. BackLink(u, referer) = IF r # NoUrl THEN r ELSE Home
    BY <2>1, BackLinkIs
  <2>3. CASE r = NoUrl
    <3>1. Stored(u, r) = Newest(Append(history, u))
      BY <1>1, <2>1, <2>3 DEF Stored
    <3>2. BackLink(u, referer) = Home
      BY <2>2, <2>3
    <3>. QED  BY <1>0, <2>1, <3>1, <3>2
  <2>4. CASE r # NoUrl
    <3>1. r \in AnyUrl /\ r # u /\ r.page \notin blocked
      BY <2>4 DEF RefererLink
    <3>2. CASE r.page = u.page
      <4>1. Stored(u, r) = Newest(Append(history, u))
        BY <1>1, <2>1, <2>4, <3>1, <3>2 DEF Stored
      <4>2. BackLink(u, referer).page = u.page
        BY <2>2, <2>4, <3>2
      <4>. HIDE DEF r
      <4>. QED  BY <1>0, <2>1, <4>1, <4>2 DEF r
    <3>3. CASE r.page # u.page
      <4>1. Stored(u, r) = Newest(Append(<<r>>, u))
        BY <1>1, <2>1, <2>4, <3>1, <3>3 DEF Stored
      <4>2. <<r>> \in Seq(AnyUrl) /\ Len(<<r>>) = 1 /\ <<r>>[1] = r /\ DOMAIN <<r>> = {1}
        BY <3>1
      <4>. DEFINE cut == <<r>>
      <4>3. cut \in Seq(AnyUrl) /\ Len(cut) = 1 /\ cut[1] = r /\ DOMAIN cut = {1}
        BY <4>2
      <4>4. Stored(u, r) = Newest(Append(cut, u))
        BY <4>1
      <4>. HIDE DEF cut
      <4>5. Len(cut) <= MaxHistory /\ Len(cut) > 0
        BY <1>0, <4>3
      <4>6. BackLink(u, referer) = cut[Len(cut)]
        BY <2>2, <2>4, <4>3
      <4>. QED  BY <3>1, <3>3, <4>3, <4>4, <4>5, <4>6
    <3>. QED  BY <3>2, <3>3
  <2>. QED  BY <2>3, <2>4
<1>2. CASE history # <<>> /\ InHistory(u)
  <2>. DEFINE p   == Position(u)
              cut == SubSeq(history, 1, p - 1)
  <2>1. p \in 1 .. Len(history) /\ history[p].page = u.page
    BY <1>0, <1>2, PositionTyping
  <2>2. \A i \in 1 .. p - 1 : history[i] \in AnyUrl
    BY <1>0, <2>1, EntryTyping
  <2>. HIDE DEF p
  <2>3. cut \in Seq(AnyUrl) /\ Len(cut) = p - 1 /\ \A i \in 1 .. p - 1 : cut[i] = history[i]
    <3>1. p - 1 \in Int /\ 1 \in Int
      BY <2>1
    <3>2. /\ cut \in Seq(AnyUrl) /\ Len(cut) = IF 1 <= p - 1 THEN (p - 1) - 1 + 1 ELSE 0
          /\ \A i \in 1 .. (p - 1) - 1 + 1 : cut[i] = history[1 + i - 1]
      BY <2>2, <3>1, SubSeqProperties
    <3>. HIDE DEF cut
    <3>3. Len(cut) = p - 1
      BY <2>1, <3>2
    <3>4. ASSUME NEW i \in 1 .. p - 1 PROVE cut[i] = history[i]
      BY <2>1, <3>2
    <3>. QED  BY <3>2, <3>3, <3>4
  <2>4. Stored(u, r) = Newest(Append(cut, u))
    BY <1>2 DEF Stored, p
  <2>. HIDE DEF cut
  <2>5. \A i \in DOMAIN cut : i \in DOMAIN history /\ cut[i] = history[i] /\ i < p
    BY <1>0, <2>1, <2>3
  <2>6. BackLink(u, referer) = IF p > 1 THEN history[p - 1] ELSE Home
    BY <1>2, BackLinkIs DEF p
  <2>7. BackLink(u, referer) = Home \/ (Len(cut) > 0 /\ BackLink(u, referer) = cut[Len(cut)])
    BY <2>1, <2>3, <2>6
  <2>8. \A i, j \in DOMAIN cut : Internal(cut[i]) /\ cut[i].page = cut[j].page => i = j
    BY <2>5 DEF OnePlacePerPage
  <2>9. \A i \in DOMAIN cut : cut[i].page # u.page /\ cut[i].page \notin blocked
    <3>. SUFFICES ASSUME NEW i \in DOMAIN cut, cut[i].page = u.page PROVE FALSE
      BY <2>5 DEF Blocking
    <3>1. p = i
      BY <2>5, OnePosition DEF p
    <3>. QED  BY <1>0, <2>5, <3>1
  <2>10. Len(cut) <= MaxHistory
    BY <1>0, <2>1, <2>3
  <2>. QED  BY <2>3, <2>4, <2>7, <2>8, <2>9, <2>10
<1>3. CASE history # <<>> /\ ~InHistory(u)
  <2>1. \A i \in DOMAIN history : history[i].page # u.page /\ history[i].page \notin blocked
    BY <1>3, OnePosition DEF Blocking
  <2>2. Stored(u, r) = Newest(Append(history, u))
    BY <1>3 DEF Stored
  <2>3. Len(history) > 0
    BY <1>0, <1>3, EmptySeq
  <2>4. BackLink(u, referer) = history[Len(history)]
    BY <1>3, <2>3, BackLinkIs
  <2>. QED  BY <1>0, <2>1, <2>2, <2>3, <2>4 DEF OnePlacePerPage
<1>. QED  BY <1>1, <1>2, <1>3

\* What a recorded visit makes of the history.
LEMMA VisitedHistory ==
  ASSUME HistoryTypeOK, OnePlacePerPage, Blocking, NEW u \in Url,
         NEW referer \in AnyUrl \cup {NoUrl}
  PROVE  LET s == Stored(u, RefererLink(u, referer))
             b == BackLink(u, referer)
         IN /\ s \in Seq(AnyUrl) /\ Len(s) <= MaxHistory
            /\ \A i, j \in DOMAIN s : Internal(s[i]) /\ s[i].page = s[j].page => i = j
            /\ \A i \in DOMAIN s : s[i].page \notin blocked \ {u.page}
            /\ Internal(b) /\ b.page # u.page =>
                  \A j \in DOMAIN s : s[j].page = u.page => \E i \in DOMAIN s : i < j /\ s[i] = b
<1>. DEFINE s == Stored(u, RefererLink(u, referer))
            b == BackLink(u, referer)
<1>1. PICK cut \in Seq(AnyUrl) :
           /\ Len(cut) <= MaxHistory
           /\ s = Newest(Append(cut, u))
           /\ \A i, j \in DOMAIN cut : Internal(cut[i]) /\ cut[i].page = cut[j].page => i = j
           /\ \A i \in DOMAIN cut : cut[i].page # u.page /\ cut[i].page \notin blocked
           /\ \/ b = Home
              \/ b.page = u.page
              \/ Len(cut) > 0 /\ b = cut[Len(cut)]
  BY KeptBefore
<1>2. u \in AnyUrl
  BY UrlFacts
<1>. HIDE DEF s, b
<1>3. /\ s \in Seq(AnyUrl) /\ Len(s) \in 1 .. MaxHistory /\ s[Len(s)] = u
      /\ Len(cut) > 0 => Len(s) > 1 /\ s[Len(s) - 1] = cut[Len(cut)]
      /\ \E d \in Nat : \A i \in 1 .. Len(s) - 1 : i + d \in DOMAIN cut /\ s[i] = cut[i + d]
  <2>. DEFINE t == Newest(Append(cut, u))
  <2>1. /\ t \in Seq(AnyUrl) /\ Len(t) \in 1 .. MaxHistory /\ t[Len(t)] = u
        /\ Len(cut) > 0 => Len(t) > 1 /\ t[Len(t) - 1] = cut[Len(cut)]
        /\ \E d \in Nat : \A i \in 1 .. Len(t) - 1 : i + d \in DOMAIN cut /\ t[i] = cut[i + d]
    BY <1>1, <1>2, PutBehind
  <2>2. s = t
    BY <1>1
  <2>. HIDE DEF t
  <2>. QED  BY <2>1, <2>2
<1>4. PICK d \in Nat : \A i \in 1 .. Len(s) - 1 : i + d \in DOMAIN cut /\ s[i] = cut[i + d]
  BY <1>3
<1>5. Len(s) \in Nat /\ DOMAIN s = 1 .. Len(s) /\ MaxHistory \in Nat
  BY <1>3, LenProperties, HistoryAssumption
<1>6. \A i \in DOMAIN s : i = Len(s) \/ i \in 1 .. Len(s) - 1
  BY <1>5
<1>7. \A i \in 1 .. Len(s) - 1 : s[i].page # u.page /\ s[i].page \notin blocked
  BY <1>1, <1>4
<1>8. ASSUME NEW i \in DOMAIN s, NEW j \in DOMAIN s, Internal(s[i]), s[i].page = s[j].page
      PROVE  i = j
  <2>1. CASE i = Len(s) \/ j = Len(s)
    BY <1>3, <1>6, <1>7, <1>8, <2>1
  <2>2. CASE i \in 1 .. Len(s) - 1 /\ j \in 1 .. Len(s) - 1
    <3>1. i + d = j + d
      BY <1>1, <1>4, <1>8, <2>2
    <3>. QED  BY <1>5, <3>1
  <2>. QED  BY <1>6, <2>1, <2>2
<1>9. \A i \in DOMAIN s : s[i].page \notin blocked \ {u.page}
  BY <1>3, <1>6, <1>7
<1>10. ASSUME Internal(b), b.page # u.page, NEW j \in DOMAIN s, s[j].page = u.page
       PROVE  \E i \in DOMAIN s : i < j /\ s[i] = b
  <2>1. j = Len(s)
    BY <1>6, <1>7, <1>10
  <2>2. Len(s) > 1 /\ s[Len(s) - 1] = b
    BY <1>1, <1>3, <1>10, UrlFacts
  <2>3. Len(s) - 1 \in DOMAIN s /\ Len(s) - 1 < Len(s)
    BY <1>5, <2>2
  <2>. QED  BY <2>1, <2>2, <2>3
<1>. QED  BY <1>3, <1>5, <1>8, <1>9, <1>10 DEF s, b

-------------------------------------------------------------------------------

LEMMA HistoryInitInv == HistoryInit => HistoryInv
<1>. SUFFICES ASSUME HistoryInit PROVE HistoryInv
  OBVIOUS
<1>0. history = <<>>
  BY DEF HistoryInit
<1>a. history \in Seq(AnyUrl) /\ Len(history) = 0 /\ DOMAIN history = {}
  BY <1>0
<1>1. history \in Seq(AnyUrl) /\ Len(history) <= MaxHistory /\ DOMAIN history = {}
  BY <1>a, MaxFacts
<1>2. viewed \in Views
  BY UrlFacts DEF HistoryInit, AtHome, Views
<1>3. following \in [url : Url \cup {NoUrl}, referer : AnyUrl \cup {NoUrl},
                    from : AnyUrl \cup {NoUrl}, hops : 0 .. 1]
  BY DEF HistoryInit, Idling
<1>4. HistoryTypeOK
  BY <1>1, <1>2, <1>3 DEF HistoryInit, HistoryTypeOK
<1>5. viewed.back = Home /\ viewed.url = Home /\ viewed.from = NoUrl
  BY DEF HistoryInit, AtHome
<1>6. following = Idling /\ following.from = NoUrl
  BY DEF HistoryInit, Idling
<1>7. OnePlacePerPage /\ NoBackLoop
  BY <1>1, <1>5 DEF OnePlacePerPage, NoBackLoop
<1>8. SubmittedFormNotBehind /\ Blocking /\ BackIsBefore
  BY <1>1, <1>5, UrlFacts DEF HistoryInit, SubmittedFormNotBehind, Blocking, BackIsBefore
<1>9. Whereabouts
  BY <1>5, <1>6 DEF Whereabouts
<1>. QED  BY <1>4, <1>7, <1>8, <1>9 DEF HistoryInv

LEMMA BackLinkTyping ==
  ASSUME HistoryInv, NEW u \in Url, NEW referer \in AnyUrl \cup {NoUrl}
  PROVE  /\ BackLink(u, referer) \in AnyUrl /\ BackLink(u, referer) # u
         /\ BackLink(u, referer).page \notin submitted
<1>0. /\ HistoryTypeOK /\ OnePlacePerPage /\ Blocking
      /\ Len(history) \in Nat /\ DOMAIN history = 1 .. Len(history)
      /\ \A i \in DOMAIN history : history[i] \in AnyUrl
  BY EntryTyping DEF HistoryInv
<1>. DEFINE b == BackLink(u, referer)
<1>1. \/ \E i \in DOMAIN history : b = history[i] /\ (InHistory(u) => i # Position(u))
      \/ b = RefererLink(u, referer) /\ b # NoUrl
      \/ b = Home
  <2>1. CASE InHistory(u)
    <3>1. Position(u) \in 1 .. Len(history)
      BY <1>0, <2>1, PositionTyping
    <3>2. b = IF Position(u) > 1 THEN history[Position(u) - 1] ELSE Home
      BY <1>0, <2>1, BackLinkIs
    <3>3. Position(u) > 1 => Position(u) - 1 \in DOMAIN history /\ Position(u) - 1 # Position(u)
      BY <1>0, <3>1
    <3>. QED  BY <3>2, <3>3
  <2>2. CASE ~InHistory(u)
    <3>1. b = IF Len(history) > 0 THEN history[Len(history)]
              ELSE IF RefererLink(u, referer) # NoUrl THEN RefererLink(u, referer) ELSE Home
      BY <1>0, <2>2, BackLinkIs
    <3>2. Len(history) > 0 => Len(history) \in DOMAIN history
      BY <1>0
    <3>. QED  BY <2>2, <3>1, <3>2
  <2>. QED  BY <2>1, <2>2
<1>. HIDE DEF b
<1>2. CASE \E i \in DOMAIN history : b = history[i] /\ (InHistory(u) => i # Position(u))
  <2>1. PICK i \in DOMAIN history : b = history[i] /\ (InHistory(u) => i # Position(u))
    BY <1>2
  <2>2. b.page # u.page
    BY <1>0, <2>1, OnePosition
  <2>. QED  BY <1>0, <2>1, <2>2 DEF Blocking, b
<1>3. CASE b = RefererLink(u, referer) /\ b # NoUrl
  BY <1>0, <1>3 DEF RefererLink, Blocking, b
<1>4. CASE b = Home
  <2>1. submitted \subseteq Pages
    BY <1>0, HistoryAssumption DEF HistoryTypeOK
  <2>. QED  BY <1>4, <2>1, UrlFacts DEF b
<1>. QED  BY <1>1, <1>2, <1>3, <1>4

\* A page that is recorded, and one that is not.
LEMMA RecordInv ==
  ASSUME HistoryInv, NEW u \in Url, NEW referer \in AnyUrl \cup {NoUrl},
         RecordNavigation(u, referer)
  PROVE  /\ history' \in Seq(AnyUrl) /\ Len(history') <= MaxHistory
         /\ blocked' \in SUBSET (Pages \cup PublicPages)
         /\ blocked \ {u.page} \subseteq blocked'
         /\ \A i \in DOMAIN history' : history'[i].page \notin blocked'
         /\ OnePlacePerPage'
<1>0. /\ HistoryTypeOK /\ OnePlacePerPage /\ Blocking
  BY DEF HistoryInv
<1>1. CASE u.page \in Pages
  <2>. DEFINE s == Stored(u, RefererLink(u, referer))
  <2>1. /\ s \in Seq(AnyUrl) /\ Len(s) <= MaxHistory
        /\ \A i, j \in DOMAIN s : Internal(s[i]) /\ s[i].page = s[j].page => i = j
        /\ \A i \in DOMAIN s : s[i].page \notin blocked \ {u.page}
    BY <1>0, VisitedHistory
  <2>2. history' = s /\ blocked' = blocked \ {u.page}
    BY <1>1 DEF RecordNavigation
  <2>. HIDE DEF s
  <2>. QED  BY <1>0, <2>1, <2>2 DEF OnePlacePerPage, Internal, HistoryTypeOK
<1>2. CASE u.page \notin Pages
  BY <1>0, <1>2 DEF RecordNavigation, OnePlacePerPage, Blocking, HistoryTypeOK, Internal
<1>. QED  BY <1>1, <1>2

\* A page's entry in the history has its Back link before it.
LEMMA EntryBefore ==
  ASSUME HistoryInv, NEW u \in Url, NEW referer, NEW j \in DOMAIN history,
         history[j].page = u.page, Internal(BackLink(u, referer))
  PROVE  \E i \in DOMAIN history : i < j /\ history[i] = BackLink(u, referer)
<1>0. /\ HistoryTypeOK /\ OnePlacePerPage /\ Blocking
      /\ Len(history) \in Nat /\ DOMAIN history = 1 .. Len(history)
  BY EntryTyping DEF HistoryInv
<1>1. InHistory(u) /\ Position(u) = j
  BY <1>0, OnePosition
<1>2. BackLink(u, referer) = IF j > 1 THEN history[j - 1] ELSE Home
  BY <1>0, <1>1, BackLinkIs
<1>3. j > 1
  BY <1>2, UrlFacts
<1>4. j - 1 \in DOMAIN history /\ j - 1 < j
  BY <1>0, <1>3
<1>. QED  BY <1>2, <1>3, <1>4

\* The page a request shows, or the error page it gets.
LEMMA ShownInv ==
  ASSUME HistoryInv, NEW u \in Url, NEW referer \in AnyUrl \cup {NoUrl},
         NEW from \in AnyUrl \cup {NoUrl}, NEW listed \in BOOLEAN,
         from # NoUrl /\ listed /\ from.page # u.page => BackLink(u, referer).page # from.page,
         viewed' = [url |-> u, back |-> BackLink(u, referer), from |-> from, listed |-> listed],
         following' = Idling, submitted' = submitted \ {u.page}, moved' = moved,
         RecordNavigation(u, referer) \/ UNCHANGED <<history, blocked>>
  PROVE  HistoryInv'
<1>. DEFINE b == BackLink(u, referer)
<1>0. HistoryTypeOK /\ OnePlacePerPage /\ Blocking /\ HistoryInv
  BY DEF HistoryInv
<1>1. b \in AnyUrl /\ b # u /\ b.page \notin submitted
  BY <1>0, BackLinkTyping
<1>2. u \in AnyUrl /\ u # Home
  BY UrlFacts
<1>3. viewed'.url = u /\ viewed'.back = b /\ viewed'.from = from /\ viewed'.listed = listed
  OBVIOUS
<1>4. /\ history' \in Seq(AnyUrl) /\ Len(history') <= MaxHistory
      /\ blocked' \in SUBSET (Pages \cup PublicPages)
      /\ blocked \ {u.page} \subseteq blocked'
      /\ \A i \in DOMAIN history' : history'[i].page \notin blocked'
      /\ OnePlacePerPage'
  <2>1. CASE RecordNavigation(u, referer)
    BY <1>0, <2>1, RecordInv
  <2>2. CASE UNCHANGED <<history, blocked>>
    BY <1>0, <2>2 DEF HistoryTypeOK, OnePlacePerPage, Blocking, Internal
  <2>. QED  BY <2>1, <2>2
<1>5. viewed' \in Views
  BY <1>1, <1>2 DEF Views
<1>6. following' \in [url : Url \cup {NoUrl}, referer : AnyUrl \cup {NoUrl},
                     from : AnyUrl \cup {NoUrl}, hops : 0 .. 1]
  BY DEF Idling
<1>7. HistoryTypeOK'
  BY <1>0, <1>4, <1>5, <1>6 DEF HistoryTypeOK
<1>8. SubmittedFormNotBehind' /\ Blocking'
  BY <1>0, <1>1, <1>3, <1>4 DEF SubmittedFormNotBehind, Blocking
<1>9. NoBackLoop'
  BY <1>1, <1>3 DEF NoBackLoop
<1>10. Whereabouts'
  BY <1>2, <1>3 DEF Whereabouts, Idling
<1>11. BackIsBefore'
  <2>1. SUFFICES ASSUME Internal(b), b.page # u.page, NEW j \in DOMAIN history',
                        history'[j].page = u.page
                 PROVE  \E i \in DOMAIN history' : i < j /\ history'[i] = b
    BY <1>3 DEF BackIsBefore, Internal
  <2>2. CASE history' = history
    <3>1. j \in DOMAIN history /\ history[j].page = u.page
      BY <2>1, <2>2
    <3>. QED  BY <1>0, <2>1, <2>2, <3>1, EntryBefore
  <2>3. CASE history' = Stored(u, RefererLink(u, referer))
    <3>. DEFINE s == Stored(u, RefererLink(u, referer))
    <3>1. \A k \in DOMAIN s : s[k].page = u.page => \E i \in DOMAIN s : i < k /\ s[i] = b
      BY <1>0, <2>1, VisitedHistory
    <3>2. history' = s
      BY <2>3
    <3>. HIDE DEF s, b
    <3>. QED  BY <2>1, <3>1, <3>2
  <2>. QED  BY <2>2, <2>3 DEF RecordNavigation
<1>. QED  BY <1>4, <1>7, <1>8, <1>9, <1>10, <1>11 DEF HistoryInv

LEMMA RedirectTyping ==
  ASSUME NEW referer \in AnyUrl \cup {NoUrl}, NEW from \in AnyUrl \cup {NoUrl},
         NEW hops \in 0 .. 1
  PROVE  [url |-> [page |-> Landing, query |-> ""], referer |-> referer,
          from |-> from, hops |-> hops]
            \in [url : Url \cup {NoUrl}, referer : AnyUrl \cup {NoUrl},
                from : AnyUrl \cup {NoUrl}, hops : 0 .. 1]
<1>. DEFINE landing == [page |-> Landing, query |-> ""]
<1>1. landing \in Url
  BY UrlFacts
<1>. HIDE DEF landing
<1>2. [url |-> landing, referer |-> referer, from |-> from, hops |-> hops]
            \in [url : Url \cup {NoUrl}, referer : AnyUrl \cup {NoUrl},
                from : AnyUrl \cup {NoUrl}, hops : 0 .. 1]
  BY <1>1
<1>. QED  BY <1>2 DEF landing

\* A form that redirects to the landing page.
LEMMA RedirectInv ==
  ASSUME HistoryInv, NEW u \in Url, NEW referer \in AnyUrl \cup {NoUrl},
         following'.hops = 1, following'.url \in Url, following' # Idling,
         following' \in [url : Url \cup {NoUrl}, referer : AnyUrl \cup {NoUrl},
                        from : AnyUrl \cup {NoUrl}, hops : 0 .. 1],
         RecordNavigation(u, referer), submitted' = submitted \ {u.page},
         viewed' = viewed, moved' = moved
  PROVE  HistoryInv'
<1>0. HistoryTypeOK /\ OnePlacePerPage /\ Blocking /\ NoBackLoop /\ Whereabouts
  BY DEF HistoryInv
<1>1. /\ history' \in Seq(AnyUrl) /\ Len(history') <= MaxHistory
      /\ blocked' \in SUBSET (Pages \cup PublicPages)
      /\ blocked \ {u.page} \subseteq blocked'
      /\ \A i \in DOMAIN history' : history'[i].page \notin blocked'
      /\ OnePlacePerPage'
  BY RecordInv
<1>2. following'.hops # 0 /\ following'.url \in Url /\ following' # Idling
  OBVIOUS
<1>3. HistoryTypeOK'
  BY <1>0, <1>1 DEF HistoryTypeOK
<1>4. SubmittedFormNotBehind' /\ BackIsBefore'
  BY <1>2 DEF SubmittedFormNotBehind, BackIsBefore
<1>5. Blocking'
  BY <1>0, <1>1 DEF Blocking
<1>6. NoBackLoop' /\ Whereabouts'
  <2>1. viewed' = viewed /\ following'.hops # 0 /\ following'.url \in Url
    BY <1>2
  <2>. QED  BY <1>0, <2>1 DEF NoBackLoop, Whereabouts
<1>. QED  BY <1>1, <1>3, <1>4, <1>5, <1>6 DEF HistoryInv

\* The pages a request may be clicked from without a loop.
LEMMA GetInv ==
  ASSUME HistoryInv, NEW u \in Url, NEW referer \in AnyUrl \cup {NoUrl},
         NEW from \in AnyUrl \cup {NoUrl}, NEW hops \in 0 .. 1,
         hops = 0 /\ from # NoUrl /\ (InHistory(u) \/ InHistory(from)) /\ from.page # u.page
            => BackLink(u, referer).page # from.page,
         Get(u, referer, from, hops), moved' = moved
  PROVE  HistoryInv'
<1>. DEFINE clicked == IF hops = 0 THEN from ELSE NoUrl
            listed  == InHistory(u) \/ InHistory(from)
<1>1. CASE /\ viewed' = View(u, referer, from, hops)
           /\ following' = Idling
           /\ RecordNavigation(u, referer) \/ UNCHANGED <<history, blocked>>
           /\ submitted' = submitted \ {u.page}
  <2>1. clicked \in AnyUrl \cup {NoUrl} /\ listed \in BOOLEAN
    BY DEF InHistory
  <2>2. clicked # NoUrl /\ listed /\ clicked.page # u.page
          => BackLink(u, referer).page # clicked.page
    OBVIOUS
  <2>3. viewed' = [url |-> u, back |-> BackLink(u, referer), from |-> clicked,
                   listed |-> listed]
    BY <1>1 DEF View
  <2>. HIDE DEF clicked, listed
  <2>. QED  BY <1>1, <2>1, <2>2, <2>3, ShownInv
<1>2. CASE /\ following' = [url |-> [page |-> Landing, query |-> ""], referer |-> referer,
                           from |-> from, hops |-> 1]
           /\ RecordNavigation(u, referer)
           /\ submitted' = submitted \ {u.page}
           /\ viewed' = viewed
  <2>. DEFINE landing == [page |-> Landing, query |-> ""]
  <2>1. landing \in Url
    BY UrlFacts
  <2>6. 1 \in 0 .. 1
    OBVIOUS
  <2>2. following' \in [url : Url \cup {NoUrl}, referer : AnyUrl \cup {NoUrl},
                       from : AnyUrl \cup {NoUrl}, hops : 0 .. 1]
    <3>. DEFINE answer == [url |-> landing, referer |-> referer, from |-> from, hops |-> 1]
    <3>1. answer \in [url : Url \cup {NoUrl}, referer : AnyUrl \cup {NoUrl},
                      from : AnyUrl \cup {NoUrl}, hops : 0 .. 1]
      BY <2>1, <2>6, RedirectTyping
    <3>2. following' = answer
      BY <1>2
    <3>. HIDE DEF answer
    <3>. QED  BY <3>1, <3>2
  <2>3. following' = [url |-> landing, referer |-> referer, from |-> from, hops |-> 1]
    BY <1>2
  <2>. HIDE DEF landing
  <2>4. following'.hops = 1 /\ following'.url \in Url
    BY <2>1, <2>3
  <2>5. following' # Idling
    BY <2>4 DEF Idling
  <2>. QED  BY <1>2, <2>2, <2>4, <2>5, RedirectInv
<1>. QED  BY <1>1, <1>2 DEF Get

LEMMA VisitInv == HistoryInv /\ Visit => HistoryInv'
<1>. SUFFICES ASSUME HistoryInv, Visit PROVE HistoryInv'
  OBVIOUS
<1>1. PICK u \in Url, referer \in {NoUrl, viewed.url, Home} : Get(u, referer, NoUrl, 0)
  BY DEF Visit
<1>2. referer \in AnyUrl \cup {NoUrl}
  BY UrlFacts DEF HistoryInv, HistoryTypeOK, Views
<1>3. moved' = moved
  BY DEF Visit
<1>. QED  BY <1>1, <1>2, <1>3, GetInv

\* Back from a listed page leads to an entry before it, whose own Back link is before
\* that; and Back to a listed page from one that is not finds no entry of the latter.
LEMMA ClickBackInv == HistoryInv /\ ClickBack => HistoryInv'
<1>. SUFFICES ASSUME HistoryInv, ClickBack PROVE HistoryInv'
  OBVIOUS
<1>0. /\ HistoryTypeOK /\ OnePlacePerPage /\ Blocking /\ BackIsBefore /\ Whereabouts
      /\ following = Idling /\ moved' = moved
      /\ viewed.url \in AnyUrl /\ viewed.back \in AnyUrl
      /\ Len(history) \in Nat /\ DOMAIN history = 1 .. Len(history)
      /\ \A i \in DOMAIN history : history[i] \in AnyUrl
  BY EntryTyping DEF HistoryInv, ClickBack, HistoryTypeOK, Views
<1>1. CASE Internal(viewed.back)
  <2>. DEFINE u    == viewed.back
              from == viewed.url
  <2>1. u \in Url /\ viewed.url # Home /\ viewed.url \in Url
    BY <1>0, <1>1, UrlFacts DEF Whereabouts, AnyUrl
  <2>2. Get(u, viewed.url, from, 0)
    BY <1>1 DEF ClickBack
  <2>3. from \in AnyUrl \cup {NoUrl} /\ viewed.url \in AnyUrl \cup {NoUrl}
    BY <1>0
  <2>4. ASSUME InHistory(from), from.page # u.page
        PROVE  BackLink(u, viewed.url).page # from.page
    <3>1. from = viewed.url /\ InHistory(viewed.url) /\ viewed.back.page # viewed.url.page
      BY <2>4
    <3>. DEFINE j == Position(viewed.url)
    <3>2. j \in DOMAIN history /\ history[j].page = viewed.url.page
      BY <1>0, <2>1, <3>1, PositionTyping
    <3>. HIDE DEF j
    <3>3. PICK i \in DOMAIN history : i < j /\ history[i] = viewed.back
      BY <1>0, <1>1, <3>1, <3>2 DEF BackIsBefore
    <3>4. history[i].page = u.page
      BY <3>3
    <3>5. InHistory(u) /\ Position(u) = i
      BY <1>0, <2>1, <3>4, OnePosition
    <3>6. BackLink(u, viewed.url) = IF i > 1 THEN history[i - 1] ELSE Home
      BY <1>0, <2>1, <3>5, BackLinkIs
    <3>7. CASE i > 1
      <4>1. i - 1 \in DOMAIN history /\ i - 1 # j
        BY <1>0, <3>2, <3>3, <3>7
      <4>2. Internal(history[j])
        BY <2>1, <3>2, UrlFacts DEF Internal
      <4>3. history[j].page # history[i - 1].page
        BY <1>0, <3>2, <4>1, <4>2 DEF OnePlacePerPage
      <4>. QED  BY <3>1, <3>2, <3>6, <3>7, <4>3
    <3>8. CASE ~(i > 1)
      <4>1. BackLink(u, viewed.url) = Home
        BY <3>6, <3>8
      <4>2. viewed.url.page \in Pages \cup PublicPages
        BY <2>1 DEF Url
      <4>. QED  BY <3>1, <4>1, <4>2, UrlFacts
    <3>. QED  BY <3>7, <3>8
  <2>5. ASSUME ~InHistory(from), InHistory(u)
        PROVE  BackLink(u, viewed.url).page # from.page
    <3>1. \A i \in DOMAIN history : Internal(history[i]) => history[i].page # from.page
      BY <2>5 DEF InHistory, Positions
    <3>2. from.page \in Pages \cup PublicPages
      BY <2>1 DEF Url
    <3>3. \A i \in DOMAIN history : history[i].page # from.page
      BY <3>1, <3>2, UrlFacts DEF Internal, Home
    <3>4. Position(u) \in 1 .. Len(history)
      BY <1>0, <2>1, <2>5, PositionTyping
    <3>5. BackLink(u, viewed.url) = IF Position(u) > 1 THEN history[Position(u) - 1] ELSE Home
      BY <1>0, <2>1, <2>5, BackLinkIs
    <3>6. Position(u) > 1 => Position(u) - 1 \in DOMAIN history
      BY <1>0, <3>4
    <3>7. Home.page # from.page
      BY <3>2, UrlFacts
    <3>. QED  BY <3>3, <3>5, <3>6, <3>7
  <2>. HIDE DEF u, from
  <2>. QED  BY <1>0, <2>1, <2>2, <2>3, <2>4, <2>5, GetInv
<1>2. CASE ~Internal(viewed.back)
  <2>1. /\ viewed' = AtHome
        /\ UNCHANGED <<history, blocked, following, submitted>>
    BY <1>2 DEF ClickBack
  <2>2. viewed'.url = Home /\ viewed'.back = Home /\ viewed'.from = NoUrl
    BY <2>1 DEF AtHome
  <2>3. HistoryTypeOK'
    <3>1. viewed' \in Views
      BY <2>1, UrlFacts DEF AtHome, Views
    <3>. QED  BY <1>0, <2>1, <3>1 DEF HistoryTypeOK
  <2>4. OnePlacePerPage' /\ Blocking'
    BY <1>0, <2>1 DEF OnePlacePerPage, Blocking, Internal
  <2>5. SubmittedFormNotBehind'
    <3>1. submitted' \subseteq Pages
      BY <1>0, <2>1, HistoryAssumption DEF HistoryTypeOK
    <3>. QED  BY <2>2, <3>1, UrlFacts DEF SubmittedFormNotBehind
  <2>6. NoBackLoop' /\ Whereabouts'
    BY <1>0, <2>1, <2>2 DEF NoBackLoop, Whereabouts
  <2>7. BackIsBefore'
    BY <2>2, UrlFacts DEF BackIsBefore, Internal
  <2>. QED  BY <2>3, <2>4, <2>5, <2>6, <2>7 DEF HistoryInv
<1>. QED  BY <1>1, <1>2

LEMMA FollowRedirectInv == HistoryInv /\ FollowRedirect => HistoryInv'
<1>. SUFFICES ASSUME HistoryInv, FollowRedirect PROVE HistoryInv'
  OBVIOUS
<1>1. /\ following.url \in Url /\ following.referer \in AnyUrl \cup {NoUrl}
      /\ following.from \in AnyUrl \cup {NoUrl} /\ following.hops \in 0 .. 1
      /\ following.hops = 0 => following.from = NoUrl
  BY DEF HistoryInv, HistoryTypeOK, Whereabouts, FollowRedirect
<1>2. /\ Get(following.url, following.referer, following.from, following.hops)
      /\ moved' = moved
  BY DEF FollowRedirect
<1>. QED  BY <1>1, <1>2, GetInv

\* The form leaves the history, and the rest keeps its order.
LEMMA SubmitInv == HistoryInv /\ Submit => HistoryInv'
<1>. SUFFICES ASSUME HistoryInv, Submit PROVE HistoryInv'
  OBVIOUS
<1>. DEFINE form == viewed.url.page
            kept == {i \in DOMAIN history : history[i].page # form}
            h    == EntriesAt(history, kept)
<1>0. /\ HistoryTypeOK /\ OnePlacePerPage /\ Blocking /\ NoBackLoop /\ Whereabouts
      /\ history \in Seq(AnyUrl) /\ Len(history) <= MaxHistory /\ Len(history) \in Nat
      /\ DOMAIN history = 1 .. Len(history)
      /\ form \in Forms /\ form \in Pages
  BY EntryTyping, HistoryAssumption DEF HistoryInv, HistoryTypeOK, Submit
<1>1. /\ blocked' = blocked \cup {form} /\ history' = h
      /\ following' = [url |-> [page |-> Landing, query |-> ""], referer |-> viewed.url,
                       from |-> NoUrl, hops |-> 0]
      /\ submitted' = submitted \cup {form}
      /\ moved' \in {moved, TRUE} /\ viewed' = viewed
  BY DEF Submit, Block
<1>2. kept \in SUBSET DOMAIN history /\ \A p \in kept : history[p].page # form
  OBVIOUS
<1>. HIDE DEF kept, form
<1>3. /\ h \in Seq(AnyUrl) /\ Cardinality(kept) \in 0 .. Len(history) /\ Len(h) = Cardinality(kept)
      /\ \A i \in DOMAIN h : InOrder(kept)[i] \in kept /\ h[i] = history[InOrder(kept)[i]]
      /\ \A i, j \in DOMAIN h : i < j => InOrder(kept)[i] < InOrder(kept)[j]
  BY <1>0, <1>2, EntriesKeepOrder
<1>. HIDE DEF h
<1>4. Len(h) <= MaxHistory /\ DOMAIN h = 1 .. Len(h) /\ Len(h) \in Nat
  BY <1>0, <1>3, MaxFacts, LenProperties
<1>5. \A i, j \in DOMAIN h : Internal(h[i]) /\ h[i].page = h[j].page => i = j
  <2>. SUFFICES ASSUME NEW i \in DOMAIN h, NEW j \in DOMAIN h,
                       Internal(h[i]), h[i].page = h[j].page, i < j
                PROVE  FALSE
    BY <1>4 DEF Internal
  <2>1. InOrder(kept)[i] = InOrder(kept)[j]
    BY <1>0, <1>2, <1>3 DEF OnePlacePerPage
  <2>2. InOrder(kept)[i] \in 1 .. Len(history)
    BY <1>0, <1>2, <1>3
  <2>. QED  BY <1>0, <1>3, <2>1, <2>2
<1>6. \A i \in DOMAIN h : h[i].page \notin blocked \cup {form}
  BY <1>0, <1>2, <1>3 DEF Blocking
<1>7. following' # Idling /\ following'.url \in Url /\ following'.hops = 0 /\ following'.from = NoUrl
  BY <1>1, UrlFacts, HistoryAssumption DEF Idling, NoUrl
<1>8. following' \in [url : Url \cup {NoUrl}, referer : AnyUrl \cup {NoUrl},
                     from : AnyUrl \cup {NoUrl}, hops : 0 .. 1]
  <2>1. viewed.url \in AnyUrl \cup {NoUrl} /\ NoUrl \in AnyUrl \cup {NoUrl}
    BY <1>0 DEF HistoryTypeOK, Views
  <2>2. 0 \in 0 .. 1
    OBVIOUS
  <2>. QED  BY <1>1, <2>1, <2>2, RedirectTyping
<1>9. HistoryTypeOK'
  BY <1>0, <1>1, <1>3, <1>4, <1>8 DEF HistoryTypeOK
<1>10. OnePlacePerPage'
  BY <1>1, <1>5 DEF OnePlacePerPage, Internal
<1>11. SubmittedFormNotBehind' /\ BackIsBefore'
  BY <1>7 DEF SubmittedFormNotBehind, BackIsBefore, Idling
<1>12. Blocking'
  BY <1>0, <1>1, <1>6 DEF Blocking
<1>13. NoBackLoop' /\ Whereabouts'
  BY <1>0, <1>1, <1>7 DEF NoBackLoop, Whereabouts
<1>. QED  BY <1>9, <1>10, <1>11, <1>12, <1>13 DEF HistoryInv

LEMMA HistoryStepInv == HistoryInv /\ [HistoryNext]_historyVars => HistoryInv'
<1>. SUFFICES ASSUME HistoryInv, [HistoryNext]_historyVars PROVE HistoryInv'
  OBVIOUS
<1>1. CASE Visit
  BY <1>1, VisitInv
<1>2. CASE ClickBack
  BY <1>2, ClickBackInv
<1>3. CASE FollowRedirect
  BY <1>3, FollowRedirectInv
<1>4. CASE Submit
  BY <1>4, SubmitInv
<1>5. CASE Moved
  BY <1>5 DEF Moved, HistoryInv, HistoryTypeOK, OnePlacePerPage, SubmittedFormNotBehind,
              NoBackLoop, Blocking, BackIsBefore, Whereabouts, Internal
<1>6. CASE Leave
  <2>1. /\ history' = <<>> /\ blocked' = {} /\ submitted' = {}
        /\ viewed' = AtHome
        /\ following' = following /\ moved' = moved
    BY <1>6 DEF Leave
  <2>2. /\ history' \in Seq(AnyUrl) /\ Len(history') = 0 /\ DOMAIN history' = {}
    BY <2>1
  <2>3. viewed'.url = Home /\ viewed'.back = Home /\ viewed'.from = NoUrl
    BY <2>1 DEF AtHome
  <2>4. HistoryTypeOK'
    <3>1. viewed' \in Views
      BY <2>1, UrlFacts DEF AtHome, Views
    <3>2. Len(history') <= MaxHistory
      BY <2>2, MaxFacts
    <3>. QED  BY <2>1, <2>2, <3>1, <3>2 DEF HistoryTypeOK, HistoryInv
  <2>5. OnePlacePerPage' /\ NoBackLoop' /\ SubmittedFormNotBehind' /\ Blocking' /\ BackIsBefore'
    BY <2>1, <2>2, <2>3 DEF OnePlacePerPage, NoBackLoop, SubmittedFormNotBehind, Blocking, BackIsBefore
  <2>6. Whereabouts'
    BY <2>1, <2>3 DEF Whereabouts, HistoryInv
  <2>. QED  BY <2>4, <2>5, <2>6 DEF HistoryInv
<1>7. CASE UNCHANGED historyVars
  BY <1>7 DEF historyVars, HistoryInv, HistoryTypeOK, OnePlacePerPage, SubmittedFormNotBehind,
              NoBackLoop, Blocking, BackIsBefore, Whereabouts, Internal
<1>. QED  BY <1>1, <1>2, <1>3, <1>4, <1>5, <1>6, <1>7 DEF HistoryNext

LEMMA HistoryInvariance == HistorySpec => []HistoryInv
BY HistoryInitInv, HistoryStepInv, PTL DEF HistorySpec

\* The history, the pages and the redirects keep their types.
THEOREM HistoryTyping == HistorySpec => []HistoryTypeOK
BY HistoryInvariance, PTL DEF HistoryInv

\* For any pages, queries and length of the history, a page stands in it once: visiting
\* it again cuts the history back, and leaving the form takes all of its places away.
THEOREM OnePlace == HistorySpec => []OnePlacePerPage
BY HistoryInvariance, PTL DEF HistoryInv

\* For any order of visits, redirects and submissions, a submitted form is not what a
\* later page's Back link leads to.
THEOREM SubmittedNotBehind == HistorySpec => []SubmittedFormNotBehind
BY HistoryInvariance, PTL DEF HistoryInv

\* For any walk through the service, following Back never alternates between two pages
\* of which one is in the history: a Back link leads to an entry before the page's own,
\* even where the oldest are dropped.  Two pages outside it, and pages that only
\* redirect, are not covered (see NoBackLoop).
THEOREM NoLoopBack == HistorySpec => []NoBackLoop
BY HistoryInvariance, PTL DEF HistoryInv

\* The number of pages: enough for every row, and the last of them not empty.
LEMMA CeilFacts ==
  ASSUME NEW a \in Nat, NEW b \in Nat \ {0}
  PROVE  /\ Ceil(a, b) \in 0 .. a
         /\ a <= Ceil(a, b) * b
         /\ a > 0 => Ceil(a, b) > 0 /\ (Ceil(a, b) - 1) * b < a
<1>. DEFINE q == Ceil(a, b)
<1>1. q \in Int /\ q * b <= a + b - 1 /\ a + b - 1 < (q + 1) * b
  BY DEF Ceil
<1>. HIDE DEF q
<1>2. (q + 1) * b = q * b + b /\ (q - 1) * b = q * b - b /\ q * b \in Int
  BY <1>1
<1>3. q >= 0
  <2>. SUFFICES ASSUME q < 0 PROVE FALSE
    BY <1>1
  <2>1. (q + 1) * b <= 0
    BY <1>1
  <2>. QED  BY <1>1, <2>1
<1>4. q <= a
  <2>. SUFFICES ASSUME q > a PROVE FALSE
    BY <1>1
  <2>1. q >= a + 1
    BY <1>1
  <2>2. (a + 1) * b <= q * b
    BY <1>1, <2>1
  <2>3. (a + 1) * b = a * b + b /\ a <= a * b
    OBVIOUS
  <2>. QED  BY <1>1, <1>2, <2>2, <2>3
<1>5. a > 0 => q > 0
  <2>. SUFFICES ASSUME a > 0, q = 0 PROVE FALSE
    BY <1>1, <1>3
  <2>. QED  BY <1>1, <1>2
<1>. QED  BY <1>1, <1>2, <1>3, <1>4, <1>5 DEF q

\* A page that starts within the rows has rows, and is not past the last.
LEMMA PagesBelow ==
  ASSUME NEW a \in Nat, NEW b \in Nat \ {0}, NEW p \in Nat \ {0}
  PROVE  /\ (p - 1) * b < a => p <= Ceil(a, b)
         /\ p <= Ceil(a, b) => (p - 1) * b < a
<1>. DEFINE q == Ceil(a, b)
<1>1. /\ q \in Nat /\ a <= q * b
      /\ a > 0 => q > 0 /\ (q - 1) * b < a
      /\ a = 0 => q = 0
  BY CeilFacts
<1>. HIDE DEF q
<1>2. ASSUME (p - 1) * b < a, p > q PROVE FALSE
  <2>1. q <= p - 1
    BY <1>1, <1>2
  <2>2. q * b <= (p - 1) * b
    BY <1>1, <2>1
  <2>. QED  BY <1>1, <1>2, <2>2
<1>3. ASSUME p <= q PROVE (p - 1) * b < a
  <2>1. a > 0
    BY <1>1, <1>3
  <2>2. (p - 1) * b <= (q - 1) * b
    BY <1>1, <1>3
  <2>. QED  BY <1>1, <2>1, <2>2
<1>. QED  BY <1>1, <1>2, <1>3 DEF q

\* A page of a sequence.
LEMMA SliceFacts ==
  ASSUME NEW S, NEW seq \in Seq(S), NEW page \in Nat \ {0}, NEW size \in Nat \ {0}
  PROVE  LET s == Slice(seq, page, size)
             k == (page - 1) * size
         IN /\ s \in Seq(S) /\ Len(s) \in 0 .. size /\ k \in Nat
            /\ \A i \in DOMAIN s : k + i \in DOMAIN seq /\ s[i] = seq[k + i]
            /\ \A p \in DOMAIN seq : k < p /\ p <= k + size => p - k \in DOMAIN s
            /\ s = <<>> => Len(seq) <= k
<1>. DEFINE s == Slice(seq, page, size)
            k == (page - 1) * size
            last == IF k + size > Len(seq) THEN Len(seq) ELSE k + size
<1>0. Len(seq) \in Nat /\ DOMAIN seq = 1 .. Len(seq) /\ \A i \in DOMAIN seq : seq[i] \in S
  BY LenProperties, ElementOfSeq
<1>1. k \in Nat /\ page * size = k + size
  OBVIOUS
<1>2. s = IF k < last THEN SubSeq(seq, k + 1, last) ELSE <<>>
  BY <1>1 DEF Slice
<1>. HIDE DEF s, k
<1>3. CASE k < last
  <2>1. k + 1 \in Int /\ last \in Int /\ \A i \in k + 1 .. last : seq[i] \in S
    BY <1>0, <1>1
  <2>2. /\ s \in Seq(S)
        /\ Len(s) = IF k + 1 <= last THEN last - (k + 1) + 1 ELSE 0
        /\ \A i \in 1 .. last - (k + 1) + 1 : s[i] = seq[k + 1 + i - 1]
    BY <1>2, <1>3, <2>1, SubSeqProperties
  <2>. HIDE DEF last
  <2>3. last \in Nat /\ last <= Len(seq) /\ last <= k + size /\ (last = Len(seq) \/ last = k + size)
    <3>1. Len(seq) \in Nat /\ k \in Nat /\ size \in Nat
      BY <1>0, <1>1
    <3>2. CASE k + size > Len(seq)
      <4>1. last = Len(seq)
        BY <3>2 DEF last
      <4>. QED  BY <3>1, <3>2, <4>1
    <3>3. CASE ~(k + size > Len(seq))
      <4>1. last = k + size
        BY <3>3 DEF last
      <4>. QED  BY <3>1, <3>3, <4>1
    <3>. QED  BY <3>2, <3>3
  <2>8. k \in Nat /\ size \in Nat /\ k < last
    BY <1>1, <1>3
  <2>9. Len(s) = last - k
    BY <2>2, <2>3, <2>8
  <2>4. Len(s) \in 0 .. size /\ Len(s) # 0
    BY <2>3, <2>8, <2>9
  <2>10. s # <<>>
    BY <2>4
  <2>5. DOMAIN s = 1 .. last - k
    BY <2>2, <2>9, LenProperties
  <2>6. ASSUME NEW i \in DOMAIN s PROVE k + i \in DOMAIN seq /\ s[i] = seq[k + i]
    <3>1. i \in Nat /\ 1 <= i /\ i <= last - k
      BY <2>3, <2>5, <2>8
    <3>4. Len(seq) \in Nat
      BY <1>0
    <3>2. k + 1 + i - 1 = k + i /\ k + i \in 1 .. Len(seq) /\ i \in 1 .. last - (k + 1) + 1
      <4>1. k + i <= Len(seq)
        BY <2>3, <2>8, <3>1, <3>4
      <4>2. i <= last - (k + 1) + 1
        BY <2>3, <2>8, <3>1
      <4>. QED  BY <2>3, <2>8, <3>1, <3>4, <4>1, <4>2
    <3>3. s[i] = seq[k + 1 + i - 1]
      BY <2>2, <3>2
    <3>. QED  BY <1>0, <3>2, <3>3
  <2>7. ASSUME NEW p \in DOMAIN seq, k < p, p <= k + size PROVE p - k \in DOMAIN s
    <3>1. p \in Nat /\ p <= Len(seq)
      BY <1>0
    <3>2. p - k \in 1 .. last - k
      BY <2>3, <2>7, <2>8, <3>1
    <3>. QED  BY <2>5, <3>2
  <2>. QED  BY <1>1, <2>2, <2>4, <2>6, <2>7, <2>10 DEF s, k
<1>4. CASE ~(k < last)
  <2>1. s = <<>>
    BY <1>2, <1>4
  <2>2. s \in Seq(S) /\ Len(s) = 0 /\ DOMAIN s = {}
    BY <2>1
  <2>3. Len(seq) <= k
    BY <1>0, <1>1, <1>4
  <2>. QED  BY <1>0, <1>1, <2>2, <2>3 DEF s, k
<1>. QED  BY <1>3, <1>4

LEMMA BetweenFacts ==
  ASSUME NEW a \in Nat, NEW b \in Int, b >= a - 1
  PROVE  LET s == Between(a, b)
         IN /\ s \in Seq(Int) /\ Len(s) = b - a + 1
            /\ \A i \in 1 .. b - a + 1 : s[i] = a + i - 1
<1>. DEFINE n == IF b < a THEN 0 ELSE b - a + 1
            s == [k \in 1 .. n |-> a + k - 1]
<1>1. n = b - a + 1 /\ n \in Nat
  BY DEF n
<1>2. s = Between(a, b)
  BY DEF Between
<1>. HIDE DEF n
<1>3. DOMAIN s = 1 .. n /\ \A i \in 1 .. n : s[i] = a + i - 1
  OBVIOUS
<1>4. s \in Seq(Int)
  BY <1>1, IsASeq
<1>5. Len(s) = n
  BY <1>1, <1>3, <1>4, LenProperties
<1>. HIDE DEF s
<1>. QED  BY <1>1, <1>2, <1>3, <1>4, <1>5

\* The links before the page shown: from the first, or the first and an ellipsis.
Leading(s, current) ==
    /\ s \in Seq(Int) /\ Len(s) \in Nat
    /\ \A i \in 1 .. Len(s) : s[i] \in 0 .. current - 1
    /\ Len(s) = 0 => current = 1
    /\ Len(s) > 0 => s[1] = 1 /\ s[Len(s)] = current - 1 /\ current > 1
    /\ \A i \in 1 .. Len(s) - 1 :
          IF s[i + 1] = Ellipsis
          THEN i + 2 <= Len(s) /\ s[i + 2] - s[i] > 2
          ELSE s[i] = Ellipsis \/ s[i + 1] = s[i] + 1

\* The links after it.
Trailing(s, current, count) ==
    /\ s \in Seq(Int) /\ Len(s) \in Nat
    /\ \A i \in 1 .. Len(s) : s[i] = Ellipsis \/ s[i] \in current + 1 .. count
    /\ Len(s) = 0 => current = count
    /\ Len(s) > 0 => s[1] = current + 1 /\ s[Len(s)] = count
    /\ \A i \in 1 .. Len(s) - 1 :
          IF s[i + 1] = Ellipsis
          THEN i + 2 <= Len(s) /\ s[i + 2] - s[i] > 2
          ELSE s[i] = Ellipsis \/ s[i + 1] = s[i] + 1

LEMMA Triple ==
  ASSUME NEW x \in Int, NEW y \in Int, NEW z \in Int
  PROVE  /\ <<x, y, z>> \in Seq(Int) /\ Len(<<x, y, z>>) = 3
         /\ <<x, y, z>>[1] = x /\ <<x, y, z>>[2] = y /\ <<x, y, z>>[3] = z
OBVIOUS

LEMMA LeadingFacts ==
  ASSUME NEW count \in Nat, NEW current \in 1 .. count
  PROVE  Leading(IF current - 1 > 3 THEN <<1, Ellipsis, current - 1>> ELSE Between(1, current - 1), current)
<1>. DEFINE s == IF current - 1 > 3 THEN <<1, Ellipsis, current - 1>> ELSE Between(1, current - 1)
<1>1. CASE current - 1 > 3
  <2>1. s = <<1, 0, current - 1>>
    BY <1>1 DEF Ellipsis
  <2>9. 1 \in Int /\ 0 \in Int /\ current - 1 \in Int
    OBVIOUS
  <2>. HIDE DEF s
  <2>2. s \in Seq(Int) /\ Len(s) = 3 /\ s[1] = 1 /\ s[2] = 0 /\ s[3] = current - 1
    BY <2>1, <2>9, Triple
  <2>3. \A i \in 1 .. Len(s) : i = 1 \/ i = 2 \/ i = 3
    BY <2>2
  <2>4. \A i \in 1 .. Len(s) - 1 : i = 1 \/ i = 2
    BY <2>2
  <2>5. current > 1 /\ current - 1 - 1 > 2 /\ 1 \in 0 .. current - 1 /\ 0 \in 0 .. current - 1 /\ current - 1 \in 0 .. current - 1
    BY <1>1
  <2>6. \A i \in 1 .. Len(s) : s[i] \in 0 .. current - 1
    BY <2>2, <2>3, <2>5
  <2>7. ASSUME NEW i \in 1 .. Len(s) - 1
        PROVE  IF s[i + 1] = 0
               THEN i + 2 <= Len(s) /\ s[i + 2] - s[i] > 2
               ELSE s[i] = 0 \/ s[i + 1] = s[i] + 1
    <3>1. CASE i = 1
      <4>1. s[i] = s[1] /\ s[i + 1] = 0 /\ s[i + 2] = s[3] /\ i + 2 <= Len(s)
        BY <2>2, <3>1
      <4>. QED  BY <2>2, <2>5, <4>1
    <3>2. CASE i = 2
      <4>1. s[i] = 0 /\ s[i + 1] = s[3]
        BY <2>2, <3>2
      <4>. QED  BY <2>2, <2>5, <4>1
    <3>. QED  BY <2>4, <3>1, <3>2
  <2>8. Leading(s, current)
    BY <2>2, <2>5, <2>6, <2>7 DEF Leading, Ellipsis
  <2>. QED  BY <2>8 DEF s
<1>2. CASE ~(current - 1 > 3)
  <2>. DEFINE b == Between(1, current - 1)
  <2>1. s = b
    BY <1>2
  <2>8. 1 \in Nat /\ current - 1 \in Int /\ current - 1 >= 1 - 1
    OBVIOUS
  <2>2. /\ b \in Seq(Int) /\ Len(b) = current - 1 - 1 + 1
        /\ \A i \in 1 .. current - 1 - 1 + 1 : b[i] = 1 + i - 1
    BY <2>8, BetweenFacts
  <2>. HIDE DEF b, s
  <2>3. s \in Seq(Int) /\ Len(s) = current - 1 /\ \A i \in 1 .. current - 1 : s[i] = i
    BY <2>1, <2>2
  <2>4. \A i \in 1 .. Len(s) : s[i] \in 0 .. current - 1
    BY <2>3
  <2>5. Len(s) > 0 => s[1] = 1 /\ s[Len(s)] = current - 1 /\ current > 1
    BY <2>3
  <2>6. ASSUME NEW i \in 1 .. Len(s) - 1 PROVE s[i + 1] # 0 /\ s[i + 1] = s[i] + 1
    BY <2>3
  <2>7. Leading(s, current)
    BY <2>3, <2>4, <2>5, <2>6 DEF Leading, Ellipsis
  <2>. QED  BY <2>7 DEF s
<1>. QED  BY <1>1, <1>2

LEMMA TrailingFacts ==
  ASSUME NEW count \in Nat, NEW current \in 1 .. count
  PROVE  Trailing(IF count - current > 3 THEN <<current + 1, Ellipsis, count>>
                  ELSE Between(current + 1, count), current, count)
<1>. DEFINE s == IF count - current > 3 THEN <<current + 1, Ellipsis, count>>
                 ELSE Between(current + 1, count)
<1>1. CASE count - current > 3
  <2>1. s = <<current + 1, 0, count>>
    BY <1>1 DEF Ellipsis
  <2>9. current + 1 \in Int /\ 0 \in Int /\ count \in Int
    OBVIOUS
  <2>. HIDE DEF s
  <2>2. s \in Seq(Int) /\ Len(s) = 3 /\ s[1] = current + 1 /\ s[2] = 0 /\ s[3] = count
    BY <2>1, <2>9, Triple
  <2>3. \A i \in 1 .. Len(s) : i = 1 \/ i = 2 \/ i = 3
    BY <2>2
  <2>4. \A i \in 1 .. Len(s) - 1 : i = 1 \/ i = 2
    BY <2>2
  <2>5. count - (current + 1) > 2 /\ current + 1 \in current + 1 .. count /\ count \in current + 1 .. count
    BY <1>1
  <2>6. \A i \in 1 .. Len(s) : s[i] = Ellipsis \/ s[i] \in current + 1 .. count
    BY <2>2, <2>3, <2>5 DEF Ellipsis
  <2>7. ASSUME NEW i \in 1 .. Len(s) - 1
        PROVE  IF s[i + 1] = 0
               THEN i + 2 <= Len(s) /\ s[i + 2] - s[i] > 2
               ELSE s[i] = 0 \/ s[i + 1] = s[i] + 1
    <3>1. CASE i = 1
      <4>1. s[i] = s[1] /\ s[i + 1] = 0 /\ s[i + 2] = s[3] /\ i + 2 <= Len(s)
        BY <2>2, <3>1
      <4>. QED  BY <2>2, <2>5, <4>1
    <3>2. CASE i = 2
      <4>1. s[i] = 0 /\ s[i + 1] = s[3]
        BY <2>2, <3>2
      <4>. QED  BY <2>2, <2>5, <4>1
    <3>. QED  BY <2>4, <3>1, <3>2
  <2>8. Trailing(s, current, count)
    BY <2>2, <2>6, <2>7 DEF Trailing, Ellipsis
  <2>. QED  BY <2>8 DEF s
<1>2. CASE ~(count - current > 3)
  <2>. DEFINE b == Between(current + 1, count)
  <2>1. s = b
    BY <1>2
  <2>2. /\ b \in Seq(Int) /\ Len(b) = count - (current + 1) + 1
        /\ \A i \in 1 .. count - (current + 1) + 1 : b[i] = current + 1 + i - 1
    <3>1. current + 1 \in Nat /\ count \in Int /\ count >= (current + 1) - 1
      OBVIOUS
    <3>. QED  BY <3>1, BetweenFacts
  <2>. HIDE DEF b, s
  <2>3. s \in Seq(Int) /\ Len(s) = count - current /\ \A i \in 1 .. count - current : s[i] = current + i
    BY <2>1, <2>2
  <2>4. \A i \in 1 .. Len(s) : s[i] \in current + 1 .. count
    BY <2>3
  <2>5. Len(s) > 0 => s[1] = current + 1 /\ s[Len(s)] = count
    BY <2>3
  <2>6. ASSUME NEW i \in 1 .. Len(s) - 1 PROVE s[i + 1] # 0 /\ s[i + 1] = s[i] + 1
    BY <2>3
  <2>7. Trailing(s, current, count)
    BY <2>3, <2>4, <2>5, <2>6 DEF Trailing, Ellipsis
  <2>. QED  BY <2>7 DEF s
<1>. QED  BY <1>1, <1>2

\* The links lead to the first and the last page and to both neighbours, each once
\* and in order, and an ellipsis stands for two pages or more.
LEMMA LinksInOrder ==
  ASSUME NEW count \in Nat, NEW current \in 1 .. count
  PROVE  LET links  == PageList(current, count)
             linked == {p \in ToSet(links) : p # Ellipsis}
         IN /\ {1, count, current} \cup ({current - 1, current + 1} \cap (1 .. count)) \subseteq linked
            /\ linked \subseteq 1 .. count
            /\ \A i \in 1 .. Len(links) - 1 :
                  IF links[i + 1] = Ellipsis
                  THEN links[i + 2] - links[i] > 2
                  ELSE links[i] = Ellipsis \/ links[i + 1] = links[i] + 1
<1>. DEFINE before == IF current - 1 > 3 THEN <<1, Ellipsis, current - 1>> ELSE Between(1, current - 1)
            after  == IF count - current > 3 THEN <<current + 1, Ellipsis, count>>
                      ELSE Between(current + 1, count)
            links  == PageList(current, count)
            linked == {p \in ToSet(links) : p # Ellipsis}
            nb == Len(before)
            na == Len(after)
<1>1. links = before \o <<current>> \o after
  BY DEF PageList
<1>2. Leading(before, current) /\ Trailing(after, current, count)
  BY LeadingFacts, TrailingFacts
<1>. HIDE DEF before, after, links
<1>3. /\ nb \in Nat /\ na \in Nat /\ before \in Seq(Int) /\ after \in Seq(Int)
      /\ <<current>> \in Seq(Int) /\ Len(<<current>>) = 1 /\ <<current>>[1] = current
  BY <1>2 DEF Leading, Trailing
<1>. DEFINE front == before \o <<current>>
<1>4. /\ front \in Seq(Int) /\ Len(front) = nb + 1
      /\ \A i \in 1 .. nb : front[i] = before[i]
      /\ front[nb + 1] = current
  <2>. DEFINE one == <<current>>
  <2>1. one \in Seq(Int) /\ Len(one) = 1 /\ one[1] = current
    BY <1>3
  <2>2. front = before \o one
    OBVIOUS
  <2>. HIDE DEF one, front
  <2>3. /\ before \o one \in Seq(Int) /\ Len(before \o one) = Len(before) + Len(one)
        /\ \A i \in 1 .. Len(before) + Len(one) :
              (before \o one)[i] = IF i <= Len(before) THEN before[i] ELSE one[i - Len(before)]
    BY <1>3, <2>1, ConcatProperties
  <2>. QED  BY <1>3, <2>1, <2>2, <2>3
<1>5. links = front \o after
  BY <1>1
<1>. HIDE DEF front
<1>6. /\ links \in Seq(Int) /\ Len(links) = nb + 1 + na
      /\ \A i \in 1 .. nb + 1 : links[i] = front[i]
      /\ \A i \in 1 .. na : links[nb + 1 + i] = after[i]
  <2>1. /\ front \o after \in Seq(Int) /\ Len(front \o after) = Len(front) + Len(after)
        /\ \A i \in 1 .. Len(front) + Len(after) :
              (front \o after)[i] = IF i <= Len(front) THEN front[i] ELSE after[i - Len(front)]
    <3>1. front \in Seq(Int) /\ after \in Seq(Int)
      BY <1>3, <1>4
    <3>. QED  BY ONLY <3>1, ConcatProperties
  <2>2. \A i \in 1 .. nb + 1 : links[i] = front[i]
    BY <1>3, <1>4, <1>5, <2>1
  <2>3. ASSUME NEW i \in 1 .. na PROVE links[nb + 1 + i] = after[i]
    <3>1. nb + 1 + i \in 1 .. Len(front) + Len(after) /\ ~(nb + 1 + i <= Len(front))
      BY <1>3, <1>4
    <3>2. links[nb + 1 + i] = after[nb + 1 + i - Len(front)]
      BY <1>5, <2>1, <3>1
    <3>3. nb + 1 + i - Len(front) = i
      BY <1>3, <1>4
    <3>. QED  BY <3>2, <3>3
  <2>. QED  BY <1>4, <1>5, <2>1, <2>2, <2>3
<1>7. /\ \A i \in 1 .. nb : links[i] = before[i]
      /\ links[nb + 1] = current
      /\ \A i \in 1 .. na : links[nb + 1 + i] = after[i]
  BY <1>3, <1>4, <1>6
<1>. HIDE DEF nb, na
<1>8. ToSet(links) = {links[i] : i \in 1 .. nb + 1 + na}
  BY <1>3, <1>6, LenProperties DEF ToSet
<1>9. \A i \in 1 .. nb + 1 + na : links[i] \in ToSet(links)
  BY <1>8
<1>10. \A i \in 1 .. nb + 1 + na : i \in 1 .. nb \/ i = nb + 1 \/ (i - (nb + 1) \in 1 .. na /\ i = nb + 1 + (i - (nb + 1)))
  BY <1>3
<1>11. linked \subseteq 1 .. count
  <2>. SUFFICES ASSUME NEW i \in 1 .. nb + 1 + na, links[i] # 0 PROVE links[i] \in 1 .. count
    BY <1>8 DEF Ellipsis
  <2>1. CASE i \in 1 .. nb
    BY <1>2, <1>7, <2>1 DEF Leading, nb
  <2>2. CASE i = nb + 1
    BY <1>7, <2>2
  <2>3. CASE i - (nb + 1) \in 1 .. na /\ i = nb + 1 + (i - (nb + 1))
    <3>. DEFINE k == i - (nb + 1)
    <3>1. k \in 1 .. na /\ links[i] = after[k]
      BY <1>7, <2>3
    <3>. HIDE DEF k
    <3>. QED  BY <1>2, <3>1 DEF Trailing, Ellipsis, na
  <2>. QED  BY <1>10, <2>1, <2>2, <2>3
<1>12. current \in ToSet(links)
  <2>1. nb + 1 \in 1 .. nb + 1 + na
    BY <1>3
  <2>. QED  BY <1>7, <1>9, <2>1
<1>13. 1 \in ToSet(links) /\ (current # 1 => current - 1 \in ToSet(links))
  <2>1. CASE nb = 0
    BY <1>2, <1>12, <2>1 DEF Leading, nb
  <2>2. CASE nb > 0
    <3>1. 1 \in 1 .. nb /\ nb \in 1 .. nb /\ 1 \in 1 .. nb + 1 + na /\ nb \in 1 .. nb + 1 + na
      BY <1>3, <2>2
    <3>2. before[1] = 1 /\ before[nb] = current - 1
      BY <1>2, <2>2 DEF Leading, nb
    <3>3. links[1] = 1 /\ links[nb] = current - 1
      BY <1>7, <3>1, <3>2
    <3>4. links[1] \in ToSet(links) /\ links[nb] \in ToSet(links)
      BY <1>9, <3>1
    <3>. QED  BY <3>3, <3>4
  <2>. QED  BY <1>3, <2>1, <2>2
<1>14. count \in ToSet(links) /\ (current # count => current + 1 \in ToSet(links))
  <2>1. CASE na = 0
    BY <1>2, <1>12, <2>1 DEF Trailing, na
  <2>2. CASE na > 0
    <3>1. 1 \in 1 .. na /\ na \in 1 .. na /\ nb + 1 + 1 \in 1 .. nb + 1 + na /\ nb + 1 + na \in 1 .. nb + 1 + na
      BY <1>3, <2>2
    <3>2. after[1] = current + 1 /\ after[na] = count
      BY <1>2, <2>2 DEF Trailing, na
    <3>3. links[nb + 1 + 1] = current + 1 /\ links[nb + 1 + na] = count
      BY <1>7, <3>1, <3>2
    <3>4. links[nb + 1 + 1] \in ToSet(links) /\ links[nb + 1 + na] \in ToSet(links)
      BY <1>9, <3>1
    <3>. QED  BY <3>3, <3>4
  <2>. QED  BY <1>3, <2>1, <2>2
<1>15. {1, count, current} \cup ({current - 1, current + 1} \cap (1 .. count)) \subseteq linked
  BY <1>12, <1>13, <1>14 DEF Ellipsis
<1>16. ASSUME NEW i \in 1 .. Len(links) - 1
       PROVE  IF links[i + 1] = Ellipsis
              THEN links[i + 2] - links[i] > 2
              ELSE links[i] = Ellipsis \/ links[i + 1] = links[i] + 1
  <2>0. i \in 1 .. nb + na
    BY <1>3, <1>6
  <2>1. CASE i + 1 <= nb
    <3>1. i \in 1 .. nb - 1 /\ i \in 1 .. nb /\ i + 1 \in 1 .. nb
      BY <1>3, <2>0, <2>1
    <3>2. IF before[i + 1] = Ellipsis
          THEN i + 2 <= nb /\ before[i + 2] - before[i] > 2
          ELSE before[i] = Ellipsis \/ before[i + 1] = before[i] + 1
      BY <1>2, <3>1 DEF Leading, nb
    <3>3. links[i] = before[i] /\ links[i + 1] = before[i + 1]
      BY <1>7, <3>1
    <3>4. i + 2 <= nb => links[i + 2] = before[i + 2]
      BY <1>3, <1>7, <2>0
    <3>. QED  BY <3>2, <3>3, <3>4
  <2>2. CASE i = nb
    <3>1. nb > 0 /\ nb \in 1 .. nb
      BY <1>3, <2>0, <2>2
    <3>2. before[nb] = current - 1
      BY <1>2, <3>1 DEF Leading, nb
    <3>3. links[i] = current - 1 /\ links[i + 1] = current
      BY <1>7, <2>2, <3>1, <3>2
    <3>. QED  BY <3>3 DEF Ellipsis
  <2>3. CASE i = nb + 1
    <3>1. na > 0 /\ 1 \in 1 .. na
      BY <1>3, <2>0, <2>3
    <3>2. after[1] = current + 1
      BY <1>2, <3>1 DEF Trailing, na
    <3>3. links[i] = current /\ links[i + 1] = current + 1
      BY <1>7, <2>3, <3>1, <3>2
    <3>. QED  BY <3>3 DEF Ellipsis
  <2>4. CASE i > nb + 1
    <3>. DEFINE k == i - (nb + 1)
    <3>1. /\ k \in 1 .. na - 1 /\ k \in 1 .. na /\ k + 1 \in 1 .. na
          /\ i = nb + 1 + k /\ i + 1 = nb + 1 + (k + 1) /\ i + 2 = nb + 1 + (k + 2)
      BY <1>3, <2>0, <2>4
    <3>. HIDE DEF k
    <3>2. IF after[k + 1] = Ellipsis
          THEN k + 2 <= na /\ after[k + 2] - after[k] > 2
          ELSE after[k] = Ellipsis \/ after[k + 1] = after[k] + 1
      BY <1>2, <3>1 DEF Trailing, na
    <3>3. links[i] = after[k] /\ links[i + 1] = after[k + 1]
      BY <1>7, <3>1
    <3>4. k + 2 <= na => links[i + 2] = after[k + 2]
      <4>. SUFFICES ASSUME k + 2 <= na PROVE links[i + 2] = after[k + 2]
        OBVIOUS
      <4>1. k + 2 \in 1 .. na
        BY <1>3, <3>1
      <4>. QED  BY <1>7, <3>1, <4>1
    <3>. QED  BY <3>2, <3>3, <3>4
  <2>. QED  BY <1>3, <2>0, <2>1, <2>2, <2>3, <2>4
<1>. QED  BY <1>11, <1>15, <1>16 DEF links

\* Notes that kept their place stand in both listings, at the same place.
SteadyPlaces ==
    Walking =>
        /\ steady \subseteq listing \cap older
        /\ \A n \in steady : PlaceIn(n, listing) = PlaceIn(n, older)

\* The walk has the notes that kept their place up to where it stands, and its pages
\* go far enough for the others.
WalkSoFar ==
    walk.next > 1 =>
        /\ \A n \in steady :
              /\ PlaceIn(n, listing) <= walk.count * walk.size
              /\ PlaceIn(n, listing) <= (walk.next - 1) * walk.size => n \in ToSet(walk.got)
        /\ walk.size <= ApiSize \/ steady \subseteq ToSet(walk.got)

ListsTyped ==
    /\ listing \in SUBSET Notes /\ older \in SUBSET Notes /\ steady \in SUBSET Notes
    /\ want \in [page : 0 .. NoteBound + 1, size : ListSizes \cup {1}, came : 0 .. NoteBound + 1,
                 posted : BOOLEAN]
    /\ walk \in [next : 0 .. NoteBound + 2, count : 0 .. NoteBound, size : 1 .. FetchSize,
                 got : Seq(Notes)]
    /\ drawn \in [rows : Seq(Notes), total : 0 .. NoteBound, page : 0 .. NoteBound + 1,
                  size : ListSizes \cup {1}, posted : BOOLEAN]

ListInv ==
    /\ ListsTyped /\ SteadyPlaces /\ WalkSoFar
    /\ IsInjective(walk.got)
    /\ Walking => want.page > 0
    /\ want.came > 0 => want.page < want.came
    /\ drawn.rows = <<>> => drawn.total = 0 \/ drawn.posted
    /\ drawn.rows # <<>> => drawn.page > 0

LEMMA ListFacts ==
  /\ Notes \in SUBSET Nat /\ IsFiniteSet(Notes) /\ NoteBound \in Nat
  /\ FetchSize \in Nat /\ FetchSize > 0 /\ ApiSize \in Nat /\ ApiSize > 0
  /\ \A size \in ListSizes \cup {1} : size \in Nat \ {0}
BY ListingAssumption, FS_CardinalityType DEF NoteBound

LEMMA ListingFinite ==
  ASSUME NEW l \in SUBSET Notes
  PROVE  l \in SUBSET Nat /\ IsFiniteSet(l) /\ Cardinality(l) \in 0 .. NoteBound
<1>1. IsFiniteSet(l) /\ Cardinality(l) <= Cardinality(Notes)
  BY ListFacts, FS_Subset
<1>2. Cardinality(l) \in Nat
  BY <1>1, FS_CardinalityType
<1>. QED  BY <1>1, <1>2, ListFacts DEF NoteBound

\* A note stands once, so there are no more rows than notes.
LEMMA NoMoreThanNotes ==
  ASSUME NEW seq \in Seq(Notes), IsInjective(seq)
  PROVE  Len(seq) \in 0 .. NoteBound
<1>1. Len(seq) \in Nat /\ DOMAIN seq = 1 .. Len(seq) /\ seq \in [1 .. Len(seq) -> Notes]
  BY LenProperties
<1>2. \A a, b \in 1 .. Len(seq) : seq[a] = seq[b] => a = b
  BY <1>1 DEF IsInjective
<1>3. seq \in Injection(1 .. Len(seq), Notes)
  BY <1>1, <1>2, Fun_IsInj
<1>4. Cardinality(1 .. Len(seq)) <= Cardinality(Notes)
  BY <1>3, ListFacts, FS_Injection
<1>5. Cardinality(1 .. Len(seq)) = Len(seq)
  <2>1. 1 \in Int /\ Len(seq) \in Int
    BY <1>1
  <2>2. Cardinality(1 .. Len(seq)) = IF 1 > Len(seq) THEN 0 ELSE Len(seq) - 1 + 1
    BY <2>1, FS_Interval
  <2>. QED  BY <1>1, <2>2
<1>. QED  BY <1>1, <1>4, <1>5, ListFacts DEF NoteBound

\* What the API answers for one page.
ApiCut(size) == IF size <= ApiSize THEN size ELSE ApiSize

LEMMA AnswerFacts ==
  ASSUME NEW page \in Nat \ {0}, NEW size \in Nat \ {0},
         listing \in SUBSET Notes, older \in SUBSET Notes, NEW answer \in ApiAnswers(page, size)
  PROVE  LET cut == ApiCut(size)
         IN \E l \in {listing, older} :
              /\ answer.total = Cardinality(l) /\ answer.total \in 0 .. NoteBound
              /\ answer.size = cut
              /\ answer.prns \in Seq(Notes) /\ IsInjective(answer.prns)
              /\ \A n \in l : (page - 1) * cut < PlaceIn(n, l) /\ PlaceIn(n, l) <= (page - 1) * cut + cut
                                => n \in ToSet(answer.prns)
              /\ \A n \in l : PlaceIn(n, l) \in 1 .. answer.total
              /\ page = 1 /\ Len(answer.prns) # cut => l \subseteq ToSet(answer.prns)
<1>. DEFINE cut == ApiCut(size)
            k   == (page - 1) * cut
<1>1. cut \in Nat \ {0}
  BY ListFacts DEF ApiCut
<1>2. PICK l \in {listing, older} :
         answer = [prns |-> Slice(InOrder(l), page, cut), total |-> Cardinality(l), size |-> cut]
  BY DEF ApiAnswers, ApiCut
<1>. HIDE DEF cut
<1>3. l \in SUBSET Notes /\ l \in SUBSET Nat /\ IsFiniteSet(l) /\ Cardinality(l) \in 0 .. NoteBound
  BY <1>2, ListingFinite
<1>. DEFINE seq == InOrder(l)
            s   == Slice(seq, page, cut)
            n0  == Cardinality(l)
<1>4. answer.prns = s /\ answer.total = n0 /\ answer.size = cut
  BY <1>2
<1>5. /\ seq \in Seq(l) /\ Len(seq) = n0 /\ n0 \in Nat
      /\ \A n \in l : PlaceIn(n, l) \in 1 .. n0 /\ seq[PlaceIn(n, l)] = n
      /\ \A i \in 1 .. n0 : PlaceIn(seq[i], l) = i
  BY <1>3, InOrderIsTheOrder
<1>. HIDE DEF n0, seq
<1>6. DOMAIN seq = 1 .. n0
  BY <1>5, LenProperties
<1>7. /\ s \in Seq(l) /\ Len(s) \in 0 .. cut /\ k \in Nat
      /\ \A i \in DOMAIN s : k + i \in DOMAIN seq /\ s[i] = seq[k + i]
      /\ \A p \in DOMAIN seq : k < p /\ p <= k + cut => p - k \in DOMAIN s
      /\ s = <<>> => Len(seq) <= k
  <2>1. seq \in Seq(l)
    BY <1>5
  <2>. QED  BY <1>1, <2>1, SliceFacts, Zenon
<1>. HIDE DEF s
<1>8. Len(s) \in Nat /\ DOMAIN s = 1 .. Len(s)
  BY <1>7, LenProperties
<1>9. s \in Seq(Notes)
  <2>1. \A i \in 1 .. Len(s) : s[i] \in Notes
    BY <1>3, <1>7, ElementOfSeq
  <2>. QED  BY <1>7, <1>8, <2>1, LenProperties, IsASeq
<1>. HIDE DEF k
<1>10. IsInjective(s)
  <2>. SUFFICES ASSUME NEW a \in DOMAIN s, NEW b \in DOMAIN s, s[a] = s[b] PROVE a = b
    BY DEF IsInjective
  <2>1. k + a \in 1 .. n0 /\ k + b \in 1 .. n0 /\ seq[k + a] = seq[k + b]
    BY <1>6, <1>7
  <2>2. k + a = k + b
    BY <1>5, <2>1
  <2>. QED  BY <1>7, <1>8, <2>2
<1>11. ASSUME NEW n \in l, k < PlaceIn(n, l), PlaceIn(n, l) <= k + cut
       PROVE  n \in ToSet(s)
  <2>. DEFINE p == PlaceIn(n, l)
  <2>1. p \in 1 .. n0 /\ seq[p] = n
    BY <1>5
  <2>. HIDE DEF p
  <2>2. p - k \in DOMAIN s /\ k + (p - k) = p
    BY <1>6, <1>7, <1>11, <2>1 DEF p
  <2>3. s[p - k] = n
    BY <1>7, <2>1, <2>2
  <2>. QED  BY <2>2, <2>3 DEF ToSet
<1>12. ASSUME page = 1, Len(s) # cut PROVE l \subseteq ToSet(s)
  <2>0. k = 0
    BY <1>1, <1>12 DEF k
  <2>1. ASSUME n0 >= cut PROVE FALSE
    <3>1. cut \in DOMAIN seq /\ k < cut /\ cut <= k + cut
      BY <1>1, <1>5, <1>6, <2>0, <2>1
    <3>2. cut - k \in DOMAIN s
      BY <1>7, <3>1
    <3>3. cut \in 1 .. Len(s)
      BY <1>1, <1>8, <2>0, <3>2
    <3>4. Len(s) <= cut
      BY <1>1, <1>7
    <3>5. cut \in Nat /\ Len(s) \in Nat /\ cut <= Len(s)
      BY <1>1, <1>8, <3>3
    <3>6. cut = Len(s)
      BY <3>4, <3>5
    <3>. QED  BY <1>12, <3>6
  <2>. SUFFICES ASSUME NEW n \in l PROVE n \in ToSet(s)
    OBVIOUS
  <2>2. PlaceIn(n, l) \in 1 .. n0
    BY <1>5
  <2>3. k < PlaceIn(n, l) /\ PlaceIn(n, l) <= k + cut
    BY <1>1, <1>5, <2>0, <2>1, <2>2
  <2>. QED  BY <1>11, <2>3
<1>. QED  BY <1>3, <1>4, <1>5, <1>9, <1>10, <1>11, <1>12 DEF k, cut, n0

\* Leaving out what is there already keeps every note once and loses none.
LEMMA UnseenFacts ==
  ASSUME NEW got \in Seq(Notes), IsInjective(got), NEW items \in Seq(Notes), IsInjective(items)
  PROVE  LET new == got \o Unseen(got, items)
         IN /\ new \in Seq(Notes) /\ IsInjective(new)
            /\ ToSet(got) \subseteq ToSet(new) /\ ToSet(items) \subseteq ToSet(new)
<1>. DEFINE places == {i \in DOMAIN items : items[i] \notin ToSet(got)}
            u   == Unseen(got, items)
            new == got \o u
<1>1. places \in SUBSET DOMAIN items /\ u = EntriesAt(items, places)
  BY DEF Unseen
<1>2. \A p \in DOMAIN items : items[p] \notin ToSet(got) => p \in places
  OBVIOUS
<1>3. \A p \in places : items[p] \notin ToSet(got)
  OBVIOUS
<1>. HIDE DEF places, u
<1>4. Len(items) \in Nat /\ DOMAIN items = 1 .. Len(items) /\ Len(got) \in Nat /\ DOMAIN got = 1 .. Len(got)
  BY LenProperties
<1>5. /\ u \in Seq(Notes)
      /\ \A p \in places : \E i \in DOMAIN u : u[i] = items[p]
      /\ \A i \in DOMAIN u : InOrder(places)[i] \in places /\ u[i] = items[InOrder(places)[i]]
      /\ \A i, j \in DOMAIN u : i < j => InOrder(places)[i] < InOrder(places)[j]
  BY <1>1, EntriesKeepOrder
<1>6. Len(u) \in Nat /\ DOMAIN u = 1 .. Len(u)
  BY <1>5, LenProperties
<1>7. /\ new \in Seq(Notes) /\ Len(new) = Len(got) + Len(u)
      /\ \A i \in 1 .. Len(got) + Len(u) : new[i] = IF i <= Len(got) THEN got[i] ELSE u[i - Len(got)]
  BY <1>5, ConcatProperties
<1>. HIDE DEF new
<1>8. DOMAIN new = 1 .. Len(got) + Len(u)
  BY <1>4, <1>6, <1>7, LenProperties
<1>9. \A i \in DOMAIN got : i \in DOMAIN new /\ new[i] = got[i]
  BY <1>4, <1>6, <1>7, <1>8
<1>10. ASSUME NEW i \in DOMAIN u PROVE i + Len(got) \in DOMAIN new /\ new[i + Len(got)] = u[i]
  <2>1. i + Len(got) \in 1 .. Len(got) + Len(u) /\ ~(i + Len(got) <= Len(got)) /\ i + Len(got) - Len(got) = i
    BY <1>4, <1>6
  <2>2. new[i + Len(got)] = u[i + Len(got) - Len(got)]
    BY <1>7, <2>1
  <2>. QED  BY <1>8, <2>1, <2>2
<1>11. ToSet(got) \subseteq ToSet(new)
  BY <1>9 DEF ToSet
<1>12. ToSet(items) \subseteq ToSet(new)
  <2>. SUFFICES ASSUME NEW p \in DOMAIN items PROVE items[p] \in ToSet(new)
    BY DEF ToSet
  <2>1. CASE items[p] \in ToSet(got)
    BY <1>11, <2>1
  <2>2. CASE items[p] \notin ToSet(got)
    <3>1. PICK i \in DOMAIN u : u[i] = items[p]
      BY <1>2, <1>5, <2>2
    <3>2. i + Len(got) \in DOMAIN new /\ new[i + Len(got)] = items[p]
      BY <1>10, <3>1
    <3>. QED  BY <3>2 DEF ToSet
  <2>. QED  BY <2>1, <2>2
<1>13. \A i, j \in DOMAIN u : u[i] = u[j] => i = j
  <2>. SUFFICES ASSUME NEW i \in DOMAIN u, NEW j \in DOMAIN u, u[i] = u[j], i < j PROVE FALSE
    BY <1>6
  <2>1. /\ InOrder(places)[i] \in DOMAIN items /\ InOrder(places)[j] \in DOMAIN items
        /\ items[InOrder(places)[i]] = items[InOrder(places)[j]]
    BY <1>1, <1>5
  <2>2. InOrder(places)[i] = InOrder(places)[j] /\ InOrder(places)[i] \in Nat
    BY <1>4, <2>1 DEF IsInjective
  <2>3. InOrder(places)[i] < InOrder(places)[j]
    BY <1>5
  <2>. QED  BY <2>2, <2>3
<1>14. \A i \in DOMAIN u : u[i] \notin ToSet(got)
  BY <1>3, <1>5
<1>15. \A i \in DOMAIN new : \/ i \in DOMAIN got /\ new[i] = got[i]
                             \/ i - Len(got) \in DOMAIN u /\ new[i] = u[i - Len(got)]
  BY <1>4, <1>6, <1>7, <1>8
<1>16. ASSUME NEW a \in DOMAIN new, NEW b \in DOMAIN new, new[a] = new[b] PROVE a = b
  <2>0. a \in Int /\ b \in Int
    BY <1>4, <1>6, <1>8
  <2>1. CASE a \in DOMAIN got /\ new[a] = got[a] /\ b \in DOMAIN got /\ new[b] = got[b]
    BY <1>16, <2>1 DEF IsInjective
  <2>2. CASE /\ a - Len(got) \in DOMAIN u /\ new[a] = u[a - Len(got)]
             /\ b - Len(got) \in DOMAIN u /\ new[b] = u[b - Len(got)]
    <3>1. a - Len(got) = b - Len(got)
      BY <1>13, <1>16, <2>2
    <3>. QED  BY <1>4, <2>0, <3>1
  <2>3. CASE a \in DOMAIN got /\ new[a] = got[a] /\ b - Len(got) \in DOMAIN u /\ new[b] = u[b - Len(got)]
    BY <1>14, <1>16, <2>3 DEF ToSet
  <2>4. CASE b \in DOMAIN got /\ new[b] = got[b] /\ a - Len(got) \in DOMAIN u /\ new[a] = u[a - Len(got)]
    BY <1>14, <1>16, <2>4 DEF ToSet
  <2>. QED  BY <1>15, <2>1, <2>2, <2>3, <2>4
<1>. QED  BY <1>7, <1>11, <1>12, <1>16 DEF new, u, IsInjective

LEMMA MatchingFacts ==
  ASSUME walk.got \in Seq(Notes), IsInjective(walk.got)
  PROVE  Matching \in Seq(Notes) /\ Len(Matching) \in 0 .. NoteBound
<1>. DEFINE places == {i \in DOMAIN walk.got : walk.got[i] \in Acceptable}
<1>1. places \in SUBSET DOMAIN walk.got /\ Matching = EntriesAt(walk.got, places)
  BY DEF Matching
<1>. HIDE DEF places
<1>2. /\ Matching \in Seq(Notes) /\ Cardinality(places) \in 0 .. Len(walk.got)
      /\ Len(Matching) = Cardinality(places)
  BY <1>1, EntriesKeepOrder
<1>3. Len(walk.got) \in 0 .. NoteBound
  BY NoMoreThanNotes
<1>. QED  BY <1>2, <1>3, ListFacts

LEMMA RestingFacts ==
  /\ \A n \in {0, 1} : [Resting EXCEPT !.next = n] \in
        [next : 0 .. NoteBound + 2, count : 0 .. NoteBound, size : 1 .. FetchSize, got : Seq(Notes)]
  /\ \A n \in {0, 1} : [Resting EXCEPT !.next = n].next = n /\ [Resting EXCEPT !.next = n].got = <<>>
  /\ IsInjective(<<>>)
  /\ [Resting EXCEPT !.next = 0] = Resting
<1>1. <<>> \in Seq(Notes) /\ DOMAIN <<>> = {}
  OBVIOUS
<1>2. \A n \in {0, 1} : n \in 0 .. NoteBound + 2
  BY ListFacts
<1>3. 0 \in 0 .. NoteBound /\ FetchSize \in 1 .. FetchSize
  BY ListFacts
<1>4. \A n : [Resting EXCEPT !.next = n] = [next |-> n, count |-> 0, size |-> FetchSize, got |-> <<>>]
  BY DEF Resting
<1>5. Resting = [next |-> 0, count |-> 0, size |-> FetchSize, got |-> <<>>]
  BY DEF Resting
<1>6. \A n \in {0, 1} : [next |-> n, count |-> 0, size |-> FetchSize, got |-> <<>>] \in
        [next : 0 .. NoteBound + 2, count : 0 .. NoteBound, size : 1 .. FetchSize, got : Seq(Notes)]
  BY <1>1, <1>2, <1>3
<1>7. IsInjective(<<>>)
  BY <1>1 DEF IsInjective
<1>. QED  BY <1>4, <1>5, <1>6, <1>7

LEMMA DrawnTyping ==
  /\ NoList \in [rows : Seq(Notes), total : 0 .. NoteBound, page : 0 .. NoteBound + 1,
                 size : ListSizes \cup {1}, posted : BOOLEAN]
  /\ NoList.rows = <<>> /\ NoList.total = 0
<1>1. <<>> \in Seq(Notes)
  OBVIOUS
<1>2. 0 \in 0 .. NoteBound /\ 0 \in 0 .. NoteBound + 1
  BY ListFacts
<1>. QED  BY <1>1, <1>2 DEF NoList

LEMMA WishTyping ==
  /\ NoWish \in [page : 0 .. NoteBound + 1, size : ListSizes \cup {1}, came : 0 .. NoteBound + 1,
                 posted : BOOLEAN]
  /\ NoWish.came = 0
<1>1. 0 \in 0 .. NoteBound + 1
  BY ListFacts
<1>. QED  BY <1>1 DEF NoWish

LEMMA ListInitInv == ListInit => ListInv
<1>. SUFFICES ASSUME ListInit PROVE ListInv
  OBVIOUS
<1>1. /\ walk \in [next : 0 .. NoteBound + 2, count : 0 .. NoteBound, size : 1 .. FetchSize,
                   got : Seq(Notes)]
      /\ walk.next = 0 /\ IsInjective(walk.got)
  BY RestingFacts DEF ListInit
<1>2. /\ want \in [page : 0 .. NoteBound + 1, size : ListSizes \cup {1}, came : 0 .. NoteBound + 1,
                   posted : BOOLEAN]
      /\ want.came = 0
  BY WishTyping DEF ListInit
<1>3. /\ drawn \in [rows : Seq(Notes), total : 0 .. NoteBound, page : 0 .. NoteBound + 1,
                    size : ListSizes \cup {1}, posted : BOOLEAN]
      /\ drawn.rows = <<>> /\ drawn.total = 0
  BY DrawnTyping DEF ListInit
<1>4. listing \in SUBSET Notes /\ older \in SUBSET Notes /\ steady \in SUBSET Notes
  BY DEF ListInit
<1>. QED  BY <1>1, <1>2, <1>3, <1>4 DEF ListInv, ListsTyped, SteadyPlaces, WalkSoFar, Walking

\* The first page fixes how many there are, and at what size.
LEMMA FetchFirstInv == ListInv /\ FetchFirst => ListInv'
<1>. SUFFICES ASSUME ListInv, FetchFirst PROVE ListInv'
  OBVIOUS
<1>0. /\ listing \in SUBSET Notes /\ older \in SUBSET Notes /\ steady \in SUBSET Notes
      /\ walk.next = 1
      /\ listing' = listing /\ older' = older /\ want' = want /\ drawn' = drawn /\ steady' = steady
  BY DEF ListInv, ListsTyped, FetchFirst
<1>1. PICK first \in ApiAnswers(1, FetchSize) :
         walk' = [next |-> 2, count |-> Ceil(first.total, PageSize(first)),
                  size |-> PageSize(first), got |-> first.prns]
  BY DEF FetchFirst
<1>. DEFINE cut   == ApiCut(FetchSize)
            size  == PageSize(first)
            count == Ceil(first.total, size)
<1>2. cut \in Nat \ {0} /\ cut <= FetchSize /\ cut <= ApiSize
  BY ListFacts DEF ApiCut
<1>a. 1 \in Nat \ {0} /\ FetchSize \in Nat \ {0}
  BY ListFacts
<1>3. PICK l \in {listing, older} :
         /\ first.total = Cardinality(l) /\ first.total \in 0 .. NoteBound
         /\ first.size = cut
         /\ first.prns \in Seq(Notes) /\ IsInjective(first.prns)
         /\ \A n \in l : (1 - 1) * cut < PlaceIn(n, l) /\ PlaceIn(n, l) <= (1 - 1) * cut + cut
                            => n \in ToSet(first.prns)
         /\ \A n \in l : PlaceIn(n, l) \in 1 .. first.total
         /\ 1 = 1 /\ Len(first.prns) # cut => l \subseteq ToSet(first.prns)
  BY <1>0, <1>a, AnswerFacts, Zenon
<1>4. \/ size = cut
      \/ l \subseteq ToSet(first.prns) /\ size = FetchSize
  <2>1. size = IF cut < FetchSize /\ Len(first.prns) = cut THEN cut ELSE FetchSize
    BY <1>3 DEF PageSize
  <2>. HIDE DEF size, cut
  <2>. QED  BY <1>2, <1>3, <1>a, <2>1
<1>. HIDE DEF size, cut
<1>5. size \in Nat \ {0} /\ size <= FetchSize
  BY <1>2, <1>4, <1>a
<1>6. count \in 0 .. first.total /\ first.total <= count * size /\ first.total \in Nat
  BY <1>3, <1>5, CeilFacts
<1>. HIDE DEF count
<1>7. walk' = [next |-> 2, count |-> count, size |-> size, got |-> first.prns]
  BY <1>1 DEF count, size
<1>8. walk'.next = 2 /\ walk'.count = count /\ walk'.size = size /\ walk'.got = first.prns
  BY <1>7
<1>9. walk' \in [next : 0 .. NoteBound + 2, count : 0 .. NoteBound, size : 1 .. FetchSize,
                 got : Seq(Notes)]
  <2>1. 2 \in 0 .. NoteBound + 2 /\ count \in 0 .. NoteBound /\ size \in 1 .. FetchSize
    BY <1>3, <1>5, <1>6, ListFacts
  <2>. QED  BY <1>3, <1>7, <2>1
<1>10. SteadyPlaces' /\ Walking'
  BY <1>0, <1>8 DEF ListInv, SteadyPlaces, Walking
<1>11. WalkSoFar'
  <2>1. SUFFICES ASSUME NEW n \in steady
                 PROVE  /\ PlaceIn(n, listing) <= count * size
                        /\ PlaceIn(n, listing) <= (2 - 1) * size \/ size > ApiSize
                              => n \in ToSet(first.prns)
    BY <1>0, <1>5, <1>8, ListFacts DEF WalkSoFar
  <2>2. n \in l /\ PlaceIn(n, listing) = PlaceIn(n, l)
    BY <1>0, <1>3 DEF ListInv, SteadyPlaces, Walking
  <2>3. PlaceIn(n, l) \in 1 .. first.total
    BY <1>3, <2>2
  <2>4. PlaceIn(n, l) <= count * size
    BY <1>5, <1>6, <2>3
  <2>5. CASE size = cut
    <3>1. ~(size > ApiSize) /\ (2 - 1) * size = cut /\ (1 - 1) * cut = 0
      BY <1>2, <2>5, ListFacts
    <3>2. PlaceIn(n, l) <= cut => n \in ToSet(first.prns)
      BY <1>2, <1>3, <2>2, <2>3, <3>1
    <3>. QED  BY <2>2, <2>4, <3>1, <3>2
  <2>6. CASE l \subseteq ToSet(first.prns) /\ size = FetchSize
    BY <2>2, <2>4, <2>6
  <2>. QED  BY <1>4, <2>5, <2>6
<1>. QED  BY <1>0, <1>3, <1>8, <1>9, <1>10, <1>11 DEF ListInv, ListsTyped, Walking

\* A later page brings the notes of its places, and loses none there already.
LEMMA FetchLaterInv == ListInv /\ FetchLater => ListInv'
<1>. SUFFICES ASSUME ListInv, FetchLater PROVE ListInv'
  OBVIOUS
<1>0. /\ listing \in SUBSET Notes /\ older \in SUBSET Notes /\ steady \in SUBSET Notes
      /\ walk.next > 1 /\ walk.next <= walk.count
      /\ listing' = listing /\ older' = older /\ want' = want /\ drawn' = drawn /\ steady' = steady
  BY DEF ListInv, ListsTyped, FetchLater
<1>1. /\ walk.next \in Nat /\ walk.count \in 0 .. NoteBound /\ walk.size \in 1 .. FetchSize
      /\ walk.got \in Seq(Notes) /\ IsInjective(walk.got)
      /\ walk \in [next : 0 .. NoteBound + 2, count : 0 .. NoteBound, size : 1 .. FetchSize,
                   got : Seq(Notes)]
  BY DEF ListInv, ListsTyped
<1>2. PICK answer \in ApiAnswers(walk.next, walk.size) :
         walk' = [walk EXCEPT !.next = @ + 1, !.got = @ \o Unseen(@, answer.prns)]
  BY DEF FetchLater
<1>. DEFINE page == walk.next
            size == walk.size
            cut  == ApiCut(size)
            new  == walk.got \o Unseen(walk.got, answer.prns)
<1>3. page \in Nat \ {0} /\ size \in Nat \ {0}
  BY <1>0, <1>1
<1>b. listing \in SUBSET Notes /\ older \in SUBSET Notes
  BY <1>0
<1>4. PICK l \in {listing, older} :
         /\ answer.total = Cardinality(l) /\ answer.total \in 0 .. NoteBound
         /\ answer.size = cut
         /\ answer.prns \in Seq(Notes) /\ IsInjective(answer.prns)
         /\ \A n \in l : (page - 1) * cut < PlaceIn(n, l) /\ PlaceIn(n, l) <= (page - 1) * cut + cut
                            => n \in ToSet(answer.prns)
         /\ \A n \in l : PlaceIn(n, l) \in 1 .. answer.total
         /\ page = 1 /\ Len(answer.prns) # cut => l \subseteq ToSet(answer.prns)
  BY <1>b, <1>3, AnswerFacts, Zenon
<1>5. /\ new \in Seq(Notes) /\ IsInjective(new)
      /\ ToSet(walk.got) \subseteq ToSet(new) /\ ToSet(answer.prns) \subseteq ToSet(new)
  BY <1>1, <1>4, UnseenFacts
<1>6. walk' = [next |-> page + 1, count |-> walk.count, size |-> size, got |-> new]
  BY <1>1, <1>2
<1>. HIDE DEF new
<1>7. walk'.next = page + 1 /\ walk'.count = walk.count /\ walk'.size = size /\ walk'.got = new
  BY <1>6
<1>8. walk' \in [next : 0 .. NoteBound + 2, count : 0 .. NoteBound, size : 1 .. FetchSize,
                 got : Seq(Notes)]
  <2>1. page + 1 \in 0 .. NoteBound + 2
    BY <1>0, <1>1, ListFacts
  <2>. QED  BY <1>1, <1>5, <1>6, <2>1
<1>9. SteadyPlaces' /\ Walking' /\ want'.page > 0
  BY <1>0, <1>3, <1>7 DEF ListInv, SteadyPlaces, Walking
<1>10. WalkSoFar'
  <2>1. SUFFICES ASSUME NEW n \in steady
                 PROVE  /\ PlaceIn(n, listing) <= walk.count * size
                        /\ PlaceIn(n, listing) <= (page + 1 - 1) * size => n \in ToSet(new)
                        /\ size <= ApiSize \/ n \in ToSet(new)
    <3>1. SUFFICES ASSUME NEW n \in steady'
                   PROVE  /\ PlaceIn(n, listing') <= walk'.count * walk'.size
                          /\ PlaceIn(n, listing') <= (walk'.next - 1) * walk'.size
                                => n \in ToSet(walk'.got)
                          /\ walk'.size <= ApiSize \/ n \in ToSet(walk'.got)
      BY Zenon DEF WalkSoFar
    <3>. HIDE DEF page, size
    <3>2. n \in steady /\ listing' = listing /\ walk'.got = new /\ walk'.size = size
      BY <1>0, <1>7
    <3>3. /\ walk'.next = page + 1 /\ page \in Nat /\ (page + 1) - 1 = page + 1 - 1
          /\ walk'.count = walk.count /\ walk'.size = size
      BY <1>3, <1>7
    <3>5. walk'.next - 1 = page + 1 - 1
      BY <3>3
    <3>4. /\ PlaceIn(n, listing) <= walk.count * size
          /\ PlaceIn(n, listing) <= (page + 1 - 1) * size => n \in ToSet(new)
          /\ size <= ApiSize \/ n \in ToSet(new)
      BY <3>2
    <3>. QED  BY <3>2, <3>3, <3>4, <3>5, Zenon
  <2>2. /\ PlaceIn(n, listing) <= walk.count * size
        /\ PlaceIn(n, listing) <= (page - 1) * size => n \in ToSet(walk.got)
        /\ size <= ApiSize \/ n \in ToSet(walk.got)
    BY <1>0 DEF ListInv, WalkSoFar
  <2>3. CASE n \in ToSet(walk.got)
    BY <1>5, <2>2, <2>3
  <2>4. CASE n \notin ToSet(walk.got)
    <3>1. cut = size /\ size <= ApiSize
      BY <2>2, <2>4 DEF ApiCut
    <3>2. n \in l /\ PlaceIn(n, listing) = PlaceIn(n, l)
      BY <1>0, <1>3, <1>4 DEF ListInv, SteadyPlaces, Walking
    <3>3. PlaceIn(n, l) \in Nat /\ ~(PlaceIn(n, l) <= (page - 1) * size)
      BY <1>4, <2>2, <2>4, <3>2
    <3>. DEFINE k == (page - 1) * size
    <3>4. k \in Nat /\ (page + 1 - 1) * size = k + size
      BY <1>3
    <3>5. ~(PlaceIn(n, l) <= k) /\ (k < PlaceIn(n, l) /\ PlaceIn(n, l) <= k + size => n \in ToSet(answer.prns))
      BY <1>4, <3>1, <3>2, <3>3
    <3>. HIDE DEF k
    <3>6. PlaceIn(n, l) <= k + size => n \in ToSet(new)
      BY <1>5, <3>3, <3>4, <3>5
    <3>. QED  BY <2>2, <3>1, <3>2, <3>4, <3>6
  <2>. QED  BY <2>3, <2>4
<1>. QED  BY <1>0, <1>5, <1>7, <1>8, <1>9, <1>10 DEF ListInv, ListsTyped, Walking

\* The notes in the same place of both listings are steady when a walk starts.
LEMMA WalkStarts ==
  ASSUME ListInv, StartWalk
  PROVE  /\ walk' \in [next : 0 .. NoteBound + 2, count : 0 .. NoteBound, size : 1 .. FetchSize,
                       got : Seq(Notes)]
         /\ IsInjective(walk'.got) /\ Walking' /\ SteadyPlaces' /\ WalkSoFar'
         /\ listing' \in SUBSET Notes /\ older' \in SUBSET Notes /\ steady' \in SUBSET Notes
<1>0. /\ walk' = [Resting EXCEPT !.next = 1]
      /\ steady' = {n \in listing \cap older : PlaceIn(n, listing) = PlaceIn(n, older)}
      /\ listing' = listing /\ older' = older
  BY DEF StartWalk
<1>1. walk'.next = 1 /\ walk'.got = <<>>
  BY <1>0, RestingFacts
<1>2. /\ walk' \in [next : 0 .. NoteBound + 2, count : 0 .. NoteBound, size : 1 .. FetchSize,
                    got : Seq(Notes)]
      /\ IsInjective(walk'.got) /\ Walking' /\ WalkSoFar'
  BY <1>0, <1>1, RestingFacts DEF Walking, WalkSoFar
<1>3. listing \in SUBSET Notes /\ older \in SUBSET Notes
  BY DEF ListInv, ListsTyped
<1>4. /\ steady' \in SUBSET (listing \cap older)
      /\ \A n \in steady' : PlaceIn(n, listing) = PlaceIn(n, older)
  BY <1>0
<1>5. SteadyPlaces' /\ steady' \in SUBSET Notes
  BY <1>0, <1>3, <1>4 DEF SteadyPlaces
<1>. QED  BY <1>0, <1>2, <1>3, <1>5

\* The walk ends and nothing is asked for any more.
LEMMA WalkEnds ==
  ASSUME ListInv, want' = NoWish, walk' = Resting, steady' = {}, listing' = listing, older' = older,
         drawn' \in [rows : Seq(Notes), total : 0 .. NoteBound, page : 0 .. NoteBound + 1,
                     size : ListSizes \cup {1}, posted : BOOLEAN],
         drawn'.rows = <<>> => drawn'.total = 0 \/ drawn'.posted,
         drawn'.rows # <<>> => drawn'.page > 0
  PROVE  ListInv'
<1>1. /\ walk' \in [next : 0 .. NoteBound + 2, count : 0 .. NoteBound, size : 1 .. FetchSize,
                    got : Seq(Notes)]
      /\ walk'.next = 0 /\ IsInjective(walk'.got)
  BY RestingFacts
<1>2. /\ want' \in [page : 0 .. NoteBound + 1, size : ListSizes \cup {1}, came : 0 .. NoteBound + 1,
                    posted : BOOLEAN]
      /\ want'.came = 0
  BY WishTyping
<1>3. SteadyPlaces' /\ WalkSoFar' /\ ~Walking'
  BY <1>1 DEF SteadyPlaces, WalkSoFar, Walking
<1>4. listing' \in SUBSET Notes /\ older' \in SUBSET Notes /\ steady' \in SUBSET Notes
  BY DEF ListInv, ListsTyped
<1>5. ~(want'.came > 0)
  BY <1>2
<1>6. ListsTyped'
  BY <1>1, <1>2, <1>4 DEF ListsTyped
<1>. QED  BY <1>1, <1>3, <1>5, <1>6, Zenon DEF ListInv

\* A walk starts for a page within the bounds.
LEMMA AskedInv ==
  ASSUME ListInv, StartWalk, drawn' = NoList,
         NEW page \in 1 .. NoteBound + 1, NEW size \in ListSizes \cup {1}, NEW posted \in BOOLEAN,
         want' = [page |-> page, size |-> size, came |-> 0, posted |-> posted]
  PROVE  ListInv'
<1>3. /\ walk' \in [next : 0 .. NoteBound + 2, count : 0 .. NoteBound, size : 1 .. FetchSize,
                    got : Seq(Notes)]
      /\ IsInjective(walk'.got) /\ Walking' /\ SteadyPlaces' /\ WalkSoFar'
      /\ listing' \in SUBSET Notes /\ older' \in SUBSET Notes /\ steady' \in SUBSET Notes
  BY WalkStarts
<1>4. /\ drawn' \in [rows : Seq(Notes), total : 0 .. NoteBound, page : 0 .. NoteBound + 1,
                     size : ListSizes \cup {1}, posted : BOOLEAN]
      /\ drawn'.rows = <<>> /\ drawn'.total = 0
  BY DrawnTyping
<1>5. page \in 0 .. NoteBound + 1 /\ 0 \in 0 .. NoteBound + 1 /\ page > 0
  BY ListFacts
<1>6. want' \in [page : 0 .. NoteBound + 1, size : ListSizes \cup {1}, came : 0 .. NoteBound + 1,
                 posted : BOOLEAN]
  BY <1>5
<1>7. want'.page > 0 /\ want'.came = 0
  BY <1>5
<1>8. ~(want'.came > 0)
  BY <1>7
<1>9. ListsTyped'
  BY <1>3, <1>4, <1>6 DEF ListsTyped
<1>. QED  BY <1>3, <1>4, <1>7, <1>8, <1>9, Zenon DEF ListInv

LEMMA OpenInv == ListInv /\ Open => ListInv'
<1>. SUFFICES ASSUME ListInv, Open PROVE ListInv'
  OBVIOUS
<1>1. PICK page \in 1 .. NoteBound + 1, size \in ListSizes :
        want' = [page |-> page, size |-> size, came |-> 0, posted |-> FALSE]
  BY DEF Open
<1>2. StartWalk /\ drawn' = NoList /\ size \in ListSizes \cup {1} /\ FALSE \in BOOLEAN
  BY DEF Open
<1>. QED  BY <1>1, <1>2, AskedInv

\* The form is sent to the page its rows were drawn on.
LEMMA PostNothingInv == ListInv /\ PostNothing => ListInv'
<1>. SUFFICES ASSUME ListInv, PostNothing PROVE ListInv'
  OBVIOUS
<1>. DEFINE page == drawn.page
            size == drawn.size
<1>1. page \in 1 .. NoteBound + 1 /\ size \in ListSizes \cup {1} /\ TRUE \in BOOLEAN
  <2>1. page \in 0 .. NoteBound + 1 /\ page > 0 /\ size \in ListSizes \cup {1}
    BY DEF ListInv, ListsTyped, PostNothing
  <2>. QED  BY <2>1, ListFacts
<1>2. /\ StartWalk /\ drawn' = NoList
      /\ want' = [page |-> page, size |-> size, came |-> 0, posted |-> TRUE]
  BY DEF PostNothing
<1>. HIDE DEF page, size
<1>. QED  BY <1>1, <1>2, AskedInv

LEMMA ClampFacts ==
  ASSUME NEW page \in Nat, NEW count \in Nat, count > 0
  PROVE  /\ Clamp(page, count) \in 1 .. count
         /\ page > count => Clamp(page, count) = count
<1>1. CASE page < 1
  <2>1. Clamp(page, count) = 1
    BY <1>1 DEF Clamp
  <2>. QED  BY <1>1, <2>1
<1>2. CASE page > count
  <2>1. ~(count < 1 \/ page < 1) /\ count >= 1
    BY <1>2
  <2>2. Clamp(page, count) = count
    BY <1>2, <2>1 DEF Clamp
  <2>. QED  BY <2>2
<1>3. CASE page >= 1 /\ page <= count
  <2>1. ~(count < 1 \/ page < 1) /\ ~(count >= 1 /\ page > count)
    BY <1>3
  <2>2. Clamp(page, count) = page
    BY <2>1 DEF Clamp
  <2>. QED  BY <1>3, <2>2
<1>. QED  BY <1>1, <1>2, <1>3

\* A page without rows is past the last, so the redirect leads to an earlier one.
LEMMA AnswerListInv == ListInv /\ AnswerList => ListInv'
<1>. SUFFICES ASSUME ListInv, AnswerList PROVE ListInv'
  OBVIOUS
<1>. DEFINE total == Len(Matching)
            rows  == Slice(Matching, want.page, want.size)
            valid == ValidPage(want.page, Ceil(total, want.size))
<1>0. /\ want \in [page : 0 .. NoteBound + 1, size : ListSizes \cup {1}, came : 0 .. NoteBound + 1,
                   posted : BOOLEAN]
      /\ walk.got \in Seq(Notes) /\ IsInjective(walk.got) /\ want.page > 0
      /\ IF ~want.posted /\ rows = <<>> /\ total > 0 /\ valid # want.page
         THEN /\ want' = [page |-> valid, size |-> want.size, came |-> want.page, posted |-> FALSE]
              /\ StartWalk
              /\ drawn' = drawn
         ELSE /\ drawn' = [rows |-> rows, total |-> total, page |-> want.page, size |-> want.size,
                           posted |-> want.posted]
              /\ want' = NoWish /\ walk' = Resting /\ steady' = {}
              /\ listing' = listing /\ older' = older
  BY DEF ListInv, ListsTyped, AnswerList
<1>1. /\ want.page \in Nat \ {0} /\ want.size \in Nat \ {0}
      /\ want.page \in 0 .. NoteBound + 1 /\ want.size \in ListSizes \cup {1}
  BY <1>0, ListFacts
<1>2. Matching \in Seq(Notes) /\ total \in 0 .. NoteBound /\ total \in Nat
  BY <1>0, MatchingFacts, ListFacts
<1>3. /\ rows \in Seq(Notes)
      /\ rows = <<>> => total <= (want.page - 1) * want.size
  BY <1>1, <1>2, SliceFacts
<1>. DEFINE count == Ceil(total, want.size)
<1>4. /\ count \in 0 .. total
      /\ total > 0 => count > 0
      /\ want.page <= count => (want.page - 1) * want.size < total
  BY <1>1, <1>2, CeilFacts, PagesBelow
<1>. HIDE DEF count
<1>5. rows = <<>> /\ total > 0 => want.page > count /\ count > 0
  <2>. DEFINE k == (want.page - 1) * want.size
  <2>1. k \in Int
    BY <1>1
  <2>2. rows = <<>> /\ total > 0 => total <= k /\ (want.page <= count => k < total)
    BY <1>3, <1>4
  <2>. HIDE DEF k, rows, total
  <2>. QED  BY <1>1, <1>2, <1>4, <2>1, <2>2
<1>6. rows = <<>> /\ total > 0 => valid = count /\ count # want.page
  <2>1. valid = Clamp(want.page, count)
    BY DEF ValidPage, count
  <2>. HIDE DEF valid, total, rows
  <2>2. count \in Nat
    BY <1>2, <1>4
  <2>3. count > 0 /\ want.page > count => Clamp(want.page, count) = count
    BY <1>1, <2>2, ClampFacts
  <2>. QED  BY <1>1, <1>5, <2>1, <2>2, <2>3
<1>. HIDE DEF rows, total, valid
<1>7. CASE ~want.posted /\ rows = <<>> /\ total > 0 /\ valid # want.page
  <2>1. /\ want' = [page |-> count, size |-> want.size, came |-> want.page, posted |-> FALSE]
        /\ StartWalk
        /\ drawn' = drawn
    BY <1>0, <1>6, <1>7
  <2>2. count \in 0 .. NoteBound + 1 /\ count > 0 /\ count < want.page
    BY <1>1, <1>2, <1>4, <1>5, <1>7, ListFacts
  <2>3. /\ want' \in [page : 0 .. NoteBound + 1, size : ListSizes \cup {1}, came : 0 .. NoteBound + 1,
                      posted : BOOLEAN]
        /\ want'.page > 0 /\ want'.page < want'.came
    BY <1>1, <2>1, <2>2
  <2>4. /\ walk' \in [next : 0 .. NoteBound + 2, count : 0 .. NoteBound, size : 1 .. FetchSize,
                      got : Seq(Notes)]
        /\ IsInjective(walk'.got) /\ Walking' /\ SteadyPlaces' /\ WalkSoFar'
        /\ listing' \in SUBSET Notes /\ older' \in SUBSET Notes /\ steady' \in SUBSET Notes
    BY <2>1, WalkStarts
  <2>5. /\ drawn' \in [rows : Seq(Notes), total : 0 .. NoteBound, page : 0 .. NoteBound + 1,
                       size : ListSizes \cup {1}, posted : BOOLEAN]
        /\ drawn'.rows = <<>> => drawn'.total = 0 \/ drawn'.posted
        /\ drawn'.rows # <<>> => drawn'.page > 0
    BY <2>1 DEF ListInv, ListsTyped
  <2>. QED  BY <2>3, <2>4, <2>5 DEF ListInv, ListsTyped
<1>8. CASE ~(~want.posted /\ rows = <<>> /\ total > 0 /\ valid # want.page)
  <2>1. /\ drawn' = [rows |-> rows, total |-> total, page |-> want.page, size |-> want.size,
                     posted |-> want.posted]
        /\ want' = NoWish /\ walk' = Resting /\ steady' = {}
        /\ listing' = listing /\ older' = older
    BY <1>0, <1>8
  <2>2. rows = <<>> => total = 0 \/ want.posted
    BY <1>2, <1>6, <1>8
  <2>3. drawn' \in [rows : Seq(Notes), total : 0 .. NoteBound, page : 0 .. NoteBound + 1,
                    size : ListSizes \cup {1}, posted : BOOLEAN]
    BY <1>0, <1>1, <1>2, <1>3, <2>1
  <2>4. /\ drawn'.rows = <<>> => drawn'.total = 0 \/ drawn'.posted
        /\ drawn'.rows # <<>> => drawn'.page > 0
    BY <1>1, <2>1, <2>2
  <2>. QED  BY <2>1, <2>3, <2>4, WalkEnds
<1>. QED  BY <1>7, <1>8

LEMMA NotesChangeInv == ListInv /\ NotesChange => ListInv'
<1>. SUFFICES ASSUME ListInv, NotesChange PROVE ListInv'
  OBVIOUS
<1>1. PICK n \in Notes : Changes(IF n \in listing THEN listing \ {n} ELSE listing \cup {n})
  BY DEF NotesChange
<1>. DEFINE l == IF n \in listing THEN listing \ {n} ELSE listing \cup {n}
<1>2. l \in SUBSET Notes
  BY DEF ListInv, ListsTyped
<1>. HIDE DEF l
<1>3. /\ listing' = l /\ older' = listing
      /\ steady' = {m \in steady \cap l : PlaceIn(m, l) = PlaceIn(m, listing)}
      /\ want' = want /\ walk' = walk /\ drawn' = drawn
  BY <1>1 DEF Changes, l
<1>4. listing' \in SUBSET Notes /\ older' \in SUBSET Notes /\ steady' \in SUBSET Notes
  BY <1>2, <1>3 DEF ListInv, ListsTyped
<1>5. Walking' /\ Walking /\ steady \subseteq listing
  BY <1>3 DEF NotesChange, Walking, ListInv, SteadyPlaces
<1>6. \A m \in steady' : /\ m \in steady /\ m \in listing' /\ m \in older'
                         /\ PlaceIn(m, listing') = PlaceIn(m, listing)
                         /\ PlaceIn(m, listing') = PlaceIn(m, older')
  BY <1>3, <1>5
<1>7. SteadyPlaces'
  BY <1>6 DEF SteadyPlaces
<1>8. WalkSoFar'
  BY <1>3, <1>6 DEF ListInv, WalkSoFar
<1>. QED  BY <1>3, <1>4, <1>5, <1>7, <1>8 DEF ListInv, ListsTyped

LEMMA ListStepInv == ListInv /\ [ListNext]_listVars => ListInv'
<1>. SUFFICES ASSUME ListInv, [ListNext]_listVars PROVE ListInv'
  OBVIOUS
<1>1. CASE FetchFirst
  BY <1>1, FetchFirstInv
<1>2. CASE FetchLater
  BY <1>2, FetchLaterInv
<1>3. CASE Open
  BY <1>3, OpenInv
<1>8. CASE PostNothing
  BY <1>8, PostNothingInv
<1>4. CASE AnswerList
  BY <1>4, AnswerListInv
<1>5. CASE Fail
  <2>1. /\ want' = NoWish /\ walk' = Resting /\ steady' = {}
        /\ listing' = listing /\ older' = older /\ drawn' = drawn
    BY <1>5 DEF Fail
  <2>2. /\ drawn' \in [rows : Seq(Notes), total : 0 .. NoteBound, page : 0 .. NoteBound + 1,
                       size : ListSizes \cup {1}, posted : BOOLEAN]
        /\ drawn'.rows = <<>> => drawn'.total = 0 \/ drawn'.posted
        /\ drawn'.rows # <<>> => drawn'.page > 0
    BY <2>1 DEF ListInv, ListsTyped
  <2>. QED  BY <2>1, <2>2, WalkEnds
<1>6. CASE NotesChange
  BY <1>6, NotesChangeInv
<1>7. CASE UNCHANGED listVars
  BY <1>7 DEF listVars, ListInv, ListsTyped, SteadyPlaces, WalkSoFar, Walking
<1>. QED  BY <1>1, <1>2, <1>3, <1>4, <1>5, <1>6, <1>7, <1>8 DEF ListNext

LEMMA ListInvariance == ListSpec => []ListInv
BY ListInitInv, ListStepInv, PTL DEF ListSpec

LEMMA ListInvTyped == ListInv => ListTypeOK
BY DEF ListInv, ListsTyped, ListTypeOK

\* The API's answers, the list and the page that is drawn keep their types.
THEOREM ListTyping == ListSpec => []ListTypeOK
BY ListInvariance, ListInvTyped, PTL

\* For any number of notes, any page size the API cuts to and notes added or taken away
\* while its pages are read: no note is listed twice, and one there all along is listed.
THEOREM ListedOnce == ListSpec => []NotesListedOnce
<1>1. ListInv => NotesListedOnce
  <2>. SUFFICES ASSUME ListInv, Walking, walk.next > 1, walk.next > walk.count, NEW n \in steady
                PROVE  n \in ToSet(walk.got)
    BY DEF ListInv, NotesListedOnce
  <2>1. /\ walk.next \in Nat /\ walk.count \in 0 .. NoteBound /\ walk.size \in 1 .. FetchSize
        /\ listing \in SUBSET Notes /\ n \in listing
    BY DEF ListInv, ListsTyped, SteadyPlaces
  <2>2. PlaceIn(n, listing) <= walk.count * walk.size
    BY DEF ListInv, WalkSoFar
  <2>3. PlaceIn(n, listing) \in Nat
    <3>1. listing \in SUBSET Nat /\ IsFiniteSet(listing) /\ n \in Nat
      BY <2>1, ListingFinite
    <3>. QED  BY <3>1, <2>1, InOrderIsTheOrder
  <2>4. walk.count <= walk.next - 1 /\ walk.count \in Nat /\ walk.size \in Nat
    BY <2>1, ListFacts
  <2>5. walk.count * walk.size <= (walk.next - 1) * walk.size
    BY <2>1, <2>4
  <2>. DEFINE far == walk.count * walk.size
              further == (walk.next - 1) * walk.size
  <2>6. far \in Int /\ further \in Int
    BY <2>1, <2>4
  <2>7. PlaceIn(n, listing) <= further => n \in ToSet(walk.got)
    BY DEF ListInv, WalkSoFar
  <2>8. PlaceIn(n, listing) <= far /\ far <= further
    BY <2>2, <2>5
  <2>. HIDE DEF far, further
  <2>. QED  BY <2>3, <2>6, <2>7, <2>8
<1>. QED  BY <1>1, ListInvariance, PTL

\* For any list and page size every page of it can be reached from the one shown, the
\* links leave no gap unmarked, and a page that is asked for too far is not drawn empty:
\* only a form sent there with nothing ticked may draw an empty page of a list with rows.
THEOREM EveryRowReached == ListSpec => []RowsReached
<1>1. ListInv => RowsReached
  <2>. SUFFICES ASSUME ListInv PROVE RowsReached
    OBVIOUS
  <2>. DEFINE count   == Ceil(drawn.total, drawn.size)
              current == Clamp(drawn.page, count)
  <2>1. drawn.total \in Nat /\ drawn.size \in Nat \ {0} /\ drawn.page \in Nat
    BY ListFacts DEF ListInv, ListsTyped
  <2>2. count \in Nat
    BY <2>1, CeilFacts
  <2>3. ASSUME count > 1
        PROVE  LET links  == PageList(current, count)
                   linked == {p \in ToSet(links) : p # Ellipsis}
               IN /\ {1, count, current} \cup ({current - 1, current + 1} \cap (1 .. count)) \subseteq linked
                  /\ linked \subseteq 1 .. count
                  /\ \A i \in 1 .. Len(links) - 1 :
                        IF links[i + 1] = Ellipsis
                        THEN links[i + 2] - links[i] > 2
                        ELSE links[i] = Ellipsis \/ links[i + 1] = links[i] + 1
    <3>. HIDE DEF count
    <3>2. count > 0
      BY <2>2, <2>3
    <3>1. current \in 1 .. count
      BY <2>1, <2>2, <3>2, ClampFacts
    <3>. HIDE DEF current
    <3>. QED  BY <2>2, <3>1, LinksInOrder, Zenon
  <2>4. (want.came > 0 => want.page < want.came) /\ (drawn.rows = <<>> => drawn.total = 0 \/ drawn.posted)
    BY DEF ListInv
  <2>. QED  BY <2>3, <2>4, Zenon DEF RowsReached
<1>. QED  BY <1>1, ListInvariance, PTL
===============================================================================
