----------------------------- MODULE DataProofs -----------------------------
(***************************************************************************)
(* What the modules without state promise, for data of any size: the       *)
(* tables of oxidarr-db hold what any history of statements says           *)
(* (TablesKeepWhatIsWritten), a definition's category mapping agrees with  *)
(* itself in both directions and with what caps advertise (MappingAgrees,  *)
(* GroupsHoldTheMapped), the forms of the UI and the handlers they talk to *)
(* hand a row on as it was said (FormSavesWhatItSays, ListActsOnTheRow,    *)
(* ApplicationFormAgrees), a migration that broke off is caught up with    *)
(* (MigrationsCatchUp), an instance starts as it was told and serves its   *)
(* bundle (OptionsAreLayered, ConfigIsFound, BundleAnswersForItself), a    *)
(* feed reads back as the releases it was made of (FeedReadsBack).         *)
(* SiteProofs is about what others wrote.                                  *)
(***************************************************************************)
EXTENDS Rows, Categories, Resources, Migrations, Feeds,
        FiniteSetTheorems, WellFoundedInduction, TLAPS

CONSTANTS
    Texts,     \* names, URLs, keys, ids of definitions
    Values,    \* what a setting may hold
    Addresses  \* the texts that parse as a socket address

I == INSTANCE Instance

-----------------------------------------------------------------------------
(***************************************************************************)
(* Induction over sets of naturals, from the well-foundedness of <.        *)
(***************************************************************************)
LEMMA LeastOf ==
    ASSUME NEW T \in SUBSET Nat, T # {}
    PROVE  \E x \in T : \A y \in T : x <= y
  <1>1. IsWellFoundedOn(OpToRel(<, Nat), Nat)
    BY NatLessThanWellFounded
  <1>2. \A x, y \in Nat : <<y, x>> \in OpToRel(<, Nat) <=> y < x
    BY DEF OpToRel
  <1>3. PICK R : IsWellFoundedOn(R, Nat) /\ \A x, y \in Nat : <<y, x>> \in R <=> y < x
    BY <1>1, <1>2, Zenon
  <1>4. PICK x \in T : \A y \in T : ~ (<<y, x>> \in R)
    BY <1>3, WFMin
  <1>5. ASSUME NEW y \in T PROVE x <= y
    <2>1. ~ (<<y, x>> \in R)
      BY <1>4
    <2>2. x \in Nat /\ y \in Nat
      OBVIOUS
    <2>3. <<y, x>> \in R <=> y < x
      BY <1>3, <2>2
    <2> HIDE <1>3
    <2> QED BY <2>1, <2>2, <2>3
  <1> QED BY <1>5

LEMMA Inductively ==
    ASSUME NEW S, 0 \in S, \A n \in Nat : n \in S => n + 1 \in S
    PROVE  Nat \subseteq S
  <1> SUFFICES ASSUME Nat \ S # {} PROVE FALSE
    OBVIOUS
  <1>1. PICK x \in Nat \ S : \A y \in Nat \ S : x <= y
    BY LeastOf
  <1>2. x # 0 /\ x - 1 \in Nat
    OBVIOUS
  <1>3. x - 1 \in S
    BY <1>1, <1>2
  <1> QED BY <1>2, <1>3

-----------------------------------------------------------------------------
(***************************************************************************)
(* ORDER BY: every key once, the smaller first.                            *)
(***************************************************************************)
Below(S, k) == {x \in S : x < k}

LEMMA BelowIs ==
    ASSUME NEW S \in SUBSET Nat, IsFiniteSet(S)
    PROVE  /\ Cardinality(S) \in Nat
           /\ \A k \in S : Cardinality(Below(S, k)) \in 0..(Cardinality(S) - 1)
           /\ \A j, k \in S : j < k => Cardinality(Below(S, j)) < Cardinality(Below(S, k))
  <1>1. Cardinality(S) \in Nat
    BY FS_CardinalityType
  <1>2. ASSUME NEW k \in S
        PROVE  IsFiniteSet(Below(S, k)) /\ Cardinality(Below(S, k)) \in Nat
               /\ Cardinality(Below(S, k)) < Cardinality(S)
    <2>1. Below(S, k) \in SUBSET S /\ Below(S, k) # S
      BY DEF Below
    <2>2. IsFiniteSet(Below(S, k)) /\ Cardinality(Below(S, k)) <= Cardinality(S)
          /\ Cardinality(Below(S, k)) # Cardinality(S)
      BY <2>1, FS_Subset
    <2>3. Cardinality(Below(S, k)) \in Nat
      BY <2>2, FS_CardinalityType
    <2> QED BY <1>1, <2>2, <2>3
  <1>3. ASSUME NEW j \in S, NEW k \in S, j < k
        PROVE  Cardinality(Below(S, j)) < Cardinality(Below(S, k))
    <2>1. Below(S, j) \in SUBSET Below(S, k) /\ Below(S, j) # Below(S, k)
      <3>1. j \in Nat /\ k \in Nat /\ \A x \in S : x \in Nat
        OBVIOUS
      <3>2. j \in Below(S, k) /\ j \notin Below(S, j)
        BY <1>3, <3>1 DEF Below
      <3>3. ASSUME NEW x \in Below(S, j) PROVE x \in Below(S, k)
        <4>1. x \in S /\ x < j
          BY DEF Below
        <4>2. x < k
          BY <1>3, <3>1, <4>1
        <4> QED BY <4>1, <4>2 DEF Below
      <3> QED BY <3>2, <3>3
    <2>2. /\ Cardinality(Below(S, j)) <= Cardinality(Below(S, k))
          /\ Cardinality(Below(S, j)) # Cardinality(Below(S, k))
      BY <1>2, <2>1, FS_Subset
    <2>3. Cardinality(Below(S, j)) \in Nat /\ Cardinality(Below(S, k)) \in Nat
      BY <1>2
    <2> QED BY <2>2, <2>3
  <1>4. \A k \in S : Cardinality(Below(S, k)) \in 0..(Cardinality(S) - 1)
    BY <1>1, <1>2
  <1> QED BY <1>1, <1>3, <1>4

LEMMA AscendingIs ==
    ASSUME NEW S \in SUBSET Nat, IsFiniteSet(S)
    PROVE  /\ DOMAIN Ascending(S) = 1..Cardinality(S)
           /\ \A i \in DOMAIN Ascending(S) : Ascending(S)[i] \in S
           /\ \A k \in S : \E i \in DOMAIN Ascending(S) : Ascending(S)[i] = k
           /\ \A i, j \in DOMAIN Ascending(S) : i < j => Ascending(S)[i] < Ascending(S)[j]
  <1> DEFINE n == Cardinality(S)
             P == [k \in S |-> Cardinality(Below(S, k)) + 1]
             A == Ascending(S)
  <1>1. /\ n \in Nat
        /\ \A k \in S : Cardinality(Below(S, k)) \in 0..(n - 1)
        /\ \A j, k \in S : j < k => Cardinality(Below(S, j)) < Cardinality(Below(S, k))
    BY BelowIs
  <1>2. A = [i \in 1..n |-> CHOOSE k \in S : Cardinality(Below(S, k)) = i - 1]
    BY DEF Ascending, Below
  <1> HIDE DEF n, A
  <1>3. \A k \in S : P[k] = Cardinality(Below(S, k)) + 1
    OBVIOUS
  <1>4. P \in [S -> 1..n]
    <2>1. \A k \in S : Cardinality(Below(S, k)) + 1 \in 1..n
      BY <1>1
    <2> QED BY <2>1
  <1> HIDE DEF P
  <1>5. ASSUME NEW j \in S, NEW k \in S, Cardinality(Below(S, j)) = Cardinality(Below(S, k)) PROVE j = k
    <2>1. Cardinality(Below(S, j)) \in Int /\ j \in Nat /\ k \in Nat
      BY <1>1
    <2>2. ~(j < k) /\ ~(k < j)
      BY <1>1, <1>5, <2>1
    <2> QED BY <2>1, <2>2
  <1>6. P \in Injection(S, 1..n)
    <2>1. ASSUME NEW j \in S, NEW k \in S, P[j] = P[k] PROVE j = k
      <3>1. Cardinality(Below(S, j)) \in Int /\ Cardinality(Below(S, k)) \in Int
        BY <1>1
      <3> QED BY <1>3, <1>5, <2>1, <3>1
    <2> QED BY <1>4, <2>1 DEF Injection, IsInjective
  <1>7. IsFiniteSet(1..n) /\ Cardinality(1..n) = n
    BY <1>1, FS_Interval
  <1>8. P \in Surjection(S, 1..n)
    BY <1>6, <1>7, FS_Injection DEF n
  <1>9. ASSUME NEW i \in 1..n PROVE A[i] \in S /\ Cardinality(Below(S, A[i])) = i - 1
    <2>1. PICK k \in S : P[k] = i
      BY <1>8 DEF Surjection
    <2>2. Cardinality(Below(S, k)) = i - 1
      BY <1>1, <1>3, <2>1
    <2>3. A[i] = CHOOSE x \in S : Cardinality(Below(S, x)) = i - 1
      BY <1>2
    <2> QED BY <2>2, <2>3
  <1>10. DOMAIN A = 1..n
    BY <1>2
  <1>11. ASSUME NEW k \in S PROVE \E i \in 1..n : A[i] = k
    <2>1. P[k] \in 1..n
      BY <1>4
    <2>2. Cardinality(Below(S, A[P[k]])) = Cardinality(Below(S, k))
      BY <1>1, <1>3, <1>9, <2>1
    <2> QED BY <1>5, <1>9, <2>1, <2>2
  <1>12. ASSUME NEW i \in 1..n, NEW j \in 1..n, i < j PROVE A[i] < A[j]
    <2>1. /\ A[i] \in S /\ Cardinality(Below(S, A[i])) = i - 1
          /\ A[j] \in S /\ Cardinality(Below(S, A[j])) = j - 1
      BY <1>9
    <2>2. i \in Nat /\ j \in Nat /\ A[i] \in Nat /\ A[j] \in Nat
      <3>1. n \in Nat
        BY <1>1
      <3>2. i \in Nat /\ j \in Nat
        BY <3>1
      <3>3. \A x \in S : x \in Nat
        OBVIOUS
      <3> QED BY <2>1, <3>2, <3>3
    <2>3. A[i] # A[j] /\ ~(A[j] < A[i])
      BY <1>1, <1>12, <2>1, <2>2
    <2> QED BY <2>2, <2>3
  <1> QED BY <1>9, <1>10, <1>11, <1>12 DEF n, A

-----------------------------------------------------------------------------
(***************************************************************************)
(* What is picked from a sequence, and each element once.                  *)
(***************************************************************************)
KeepsOrder(seq, places, picked) ==
    \A i, j \in DOMAIN picked :
        i < j => \E p, q \in places : p < q /\ picked[i] = seq[p] /\ picked[j] = seq[q]

LEMMA PickedIs ==
    ASSUME NEW T, NEW seq \in Seq(T), NEW places \in SUBSET DOMAIN seq
    PROVE  /\ Picked(seq, places) \in Seq({seq[p] : p \in places})
           /\ DOMAIN Picked(seq, places) = 1..Cardinality(places)
           /\ \A p \in places : \E i \in DOMAIN Picked(seq, places) : Picked(seq, places)[i] = seq[p]
           /\ KeepsOrder(seq, places, Picked(seq, places))
  <1> DEFINE order == Ascending(places)
             n == Cardinality(places)
             picked == Picked(seq, places)
  <1>1. DOMAIN seq = 1..Len(seq) /\ Len(seq) \in Nat
    OBVIOUS
  <1>2. places \in SUBSET Nat /\ IsFiniteSet(places)
    <2>1. IsFiniteSet(1..Len(seq))
      BY <1>1, FS_Interval
    <2>2. IsFiniteSet(places)
      BY <1>1, <2>1, FS_Subset
    <2> QED BY <1>1, <2>2
  <1>3. n \in Nat
    BY <1>2, FS_CardinalityType
  <1>4. /\ DOMAIN order = 1..n
        /\ \A i \in DOMAIN order : order[i] \in places
        /\ \A k \in places : \E i \in DOMAIN order : order[i] = k
        /\ \A i, j \in DOMAIN order : i < j => order[i] < order[j]
    BY <1>2, AscendingIs
  <1>5. picked = [i \in DOMAIN order |-> seq[order[i]]]
    BY DEF Picked
  <1> HIDE DEF order, n, picked
  <1>6. picked \in [1..n -> {seq[p] : p \in places}]
    BY <1>4, <1>5
  <1>7. picked \in Seq({seq[p] : p \in places}) /\ DOMAIN picked = 1..n
    BY <1>3, <1>6
  <1>8. ASSUME NEW p \in places PROVE \E i \in DOMAIN picked : picked[i] = seq[p]
    BY <1>4, <1>5
  <1>9. ASSUME NEW i \in DOMAIN picked, NEW j \in DOMAIN picked, i < j
        PROVE  \E p, q \in places : p < q /\ picked[i] = seq[p] /\ picked[j] = seq[q]
    BY <1>4, <1>5, <1>9
  <1>10. KeepsOrder(seq, places, picked)
    BY <1>9 DEF KeepsOrder
  <1> QED BY <1>7, <1>8, <1>10 DEF n, picked

LEMMA PickedSet ==
    ASSUME NEW T, NEW seq \in Seq(T), NEW places \in SUBSET DOMAIN seq
    PROVE  /\ Picked(seq, places) \in Seq(T)
           /\ ToSet(Picked(seq, places)) = {seq[p] : p \in places}
  <1> DEFINE picked == Picked(seq, places)
  <1>1. /\ picked \in Seq({seq[p] : p \in places})
        /\ \A p \in places : \E i \in DOMAIN picked : picked[i] = seq[p]
    BY PickedIs
  <1> HIDE DEF picked
  <1>2. DOMAIN picked = 1..Len(picked) /\ Len(picked) \in Nat
        /\ \A i \in DOMAIN picked : picked[i] \in {seq[p] : p \in places}
    BY <1>1
  <1>3. \A p \in places : seq[p] \in T
    OBVIOUS
  <1>4. picked \in Seq(T)
    <2>1. picked \in [1..Len(picked) -> T]
      BY <1>1, <1>2, <1>3
    <2> QED BY <1>2, <2>1
  <1>5. ToSet(picked) = {seq[p] : p \in places}
    BY <1>1, <1>2 DEF ToSet
  <1> QED BY <1>4, <1>5 DEF picked

LEMMA DistinctIs ==
    ASSUME NEW T, NEW seq \in Seq(T)
    PROVE  /\ Distinct(seq) \in Seq(T)
           /\ ToSet(Distinct(seq)) = ToSet(seq)
           /\ IsFiniteSet(ToSet(seq)) /\ Len(Distinct(seq)) = Cardinality(ToSet(seq))
  <1> DEFINE places == {i \in DOMAIN seq : \A k \in 1..(i - 1) : seq[k] /= seq[i]}
             picked == Distinct(seq)
             n == Len(picked)
  <1>1. DOMAIN seq = 1..Len(seq) /\ Len(seq) \in Nat
    OBVIOUS
  <1>2. picked = Picked(seq, places) /\ places \in SUBSET DOMAIN seq
    BY DEF Distinct
  <1>3. /\ picked \in Seq(T) /\ ToSet(picked) = {seq[p] : p \in places}
        /\ \A i, j \in DOMAIN picked : i < j => \E p, q \in places : p < q /\ picked[i] = seq[p] /\ picked[j] = seq[q]
    <2> HIDE DEF places, picked
    <2>1. picked \in Seq(T) /\ ToSet(picked) = {seq[p] : p \in places}
      BY <1>2, PickedSet
    <2>2. KeepsOrder(seq, places, picked)
      BY <1>2, PickedIs
    <2> QED BY <2>1, <2>2 DEF KeepsOrder
  <1>4. ASSUME NEW i \in DOMAIN seq PROVE \E p \in places : seq[p] = seq[i]
    <2> DEFINE same == {k \in 1..Len(seq) : seq[k] = seq[i]}
    <2>1. same \in SUBSET Nat /\ same # {}
      BY <1>1
    <2>2. PICK p \in same : \A k \in same : p <= k
      <3> HIDE DEF same
      <3> QED BY <2>1, LeastOf
    <2>3. p \in DOMAIN seq /\ seq[p] = seq[i]
      BY <1>1
    <2>4. ASSUME NEW k \in 1..(p - 1) PROVE seq[k] # seq[p]
      <3>1. k \in 1..Len(seq) /\ ~(p <= k)
        BY <1>1, <2>3
      <3> QED BY <2>2, <2>3, <3>1
    <2> QED BY <2>3, <2>4
  <1>5. {seq[p] : p \in places} = ToSet(seq)
    <2>1. ToSet(seq) = {seq[i] : i \in DOMAIN seq}
      BY DEF ToSet
    <2> QED BY <1>4, <2>1
  <1>6. ASSUME NEW p \in places, NEW q \in places, p < q PROVE seq[p] # seq[q]
    <2>1. p \in 1..(q - 1)
      BY <1>1, <1>6
    <2> QED BY <2>1
  <1> HIDE DEF places, picked
  <1>7. DOMAIN picked = 1..n /\ n \in Nat
    BY <1>3
  <1>8. ASSUME NEW i \in 1..n, NEW j \in 1..n, picked[i] = picked[j] PROVE i = j
    <2>1. ~(i < j) /\ ~(j < i)
      BY <1>3, <1>6, <1>7, <1>8
    <2> QED BY <1>7, <2>1
  <1>9. picked \in Bijection(1..n, ToSet(seq))
    <2>1. ToSet(picked) = ToSet(seq) /\ ToSet(picked) = {picked[i] : i \in 1..n}
      BY <1>3, <1>5, <1>7 DEF ToSet
    <2>2. picked \in [1..n -> ToSet(seq)] /\ \A x \in ToSet(seq) : \E i \in 1..n : picked[i] = x
      BY <1>3, <1>7, <2>1
    <2> QED BY <1>8, <2>2 DEF Bijection, Injection, Surjection, IsInjective
  <1> HIDE DEF n
  <1>10. IsFiniteSet(1..n) /\ Cardinality(1..n) = n
    BY <1>7, FS_Interval
  <1>11. IsFiniteSet(ToSet(seq)) /\ Cardinality(ToSet(seq)) = n
    <2>1. ExistsBijection(1..n, ToSet(seq))
      BY <1>9 DEF ExistsBijection
    <2> QED BY <1>7, <1>10, <2>1, FS_CountingElements, FS_Bijection
  <1> QED BY <1>3, <1>5, <1>11 DEF picked, n

-----------------------------------------------------------------------------
(***************************************************************************)
(* The statements of a history, and the columns they write.                *)
(***************************************************************************)
TableNames == {"indexers", "applications"}

IndexerRows ==
    [name : Texts, definition_id : Texts, kind : {"Cardigann", "Newznab", "Torznab"}, enabled : BOOLEAN,
     settings : UNION {[D -> Values] : D \in SUBSET Texts}, priority : Int]
ApplicationRows ==
    [name : Texts, kind : {"Sonarr", "Radarr"}, base_url : Texts, api_key : Texts,
     sync_level : {"Disabled", "AddOnly", "FullSync"}]
RowsOf(t) == IF t = "indexers" THEN IndexerRows ELSE ApplicationRows

IsStatement(s) ==
    \/ s.does = "insert" /\ s.table \in TableNames /\ s.row \in RowsOf(s.table)
    \/ s.does = "update" /\ s.table \in TableNames /\ s.row \in RowsOf(s.table) /\ s.id \in Int
    \/ s.does = "delete" /\ s.table \in TableNames /\ s.id \in Int
    \/ s.does = "map" /\ s.app \in Int /\ s.indexer \in Int /\ s.remote \in Int
    \/ s.does = "unmap" /\ s.app \in Int /\ s.indexer \in Int

\* A history that does not use up the ids.
IsHistory(h) ==
    /\ Len(h) \in 0..MaxRowId /\ DOMAIN h = 1..Len(h)
    /\ \A i \in DOMAIN h : IsStatement(h[i])

LEMMA SettingsReadBack ==
    ASSUME NEW D, NEW settings \in [D -> Values]
    PROVE  DecodeSettings(EncodeSettings(settings)) = settings
  <1> DEFINE text == EncodeSettings(settings)
  <1>1. text = {[name |-> n, value |-> settings[n]] : n \in D}
    BY DEF EncodeSettings
  <1> HIDE DEF text
  <1>2. {m.name : m \in text} = D
    <2>1. ASSUME NEW n \in D PROVE n \in {m.name : m \in text}
      <3>1. [name |-> n, value |-> settings[n]] \in text
        BY <1>1
      <3> QED BY <3>1
    <2>2. \A m \in text : m.name \in D
      BY <1>1
    <2> QED BY <2>1, <2>2
  <1>3. ASSUME NEW n \in D PROVE (CHOOSE m \in text : m.name = n).value = settings[n]
    <2>1. [name |-> n, value |-> settings[n]] \in text
      BY <1>1
    <2>2. \A m \in text : m.name = n => m.value = settings[n]
      BY <1>1
    <2> QED BY <2>1, <2>2
  <1>4. DecodeSettings(text) = [n \in D |-> (CHOOSE m \in text : m.name = n).value]
    BY <1>2 DEF DecodeSettings
  <1> QED BY <1>3, <1>4 DEF text

LEMMA IndexerOf ==
    ASSUME NEW name, NEW id, NEW kind, NEW enabled, NEW settings, NEW priority, NEW c,
           c = NewIndexer(name, id, kind, enabled, settings, priority)
    PROVE  RowToIndexer(c) = NewIndexer(name, id, IndexerKindFromStored[kind], enabled /= 0,
                                        DecodeSettings(settings), priority)
  <1> DEFINE r == RowToIndexer(c)
             k == IndexerKindFromStored[kind]
             e == enabled /= 0
             s == DecodeSettings(settings)
  <1>1. c.kind = kind /\ c.enabled = enabled /\ c.settings = settings
    BY DEF NewIndexer
  <1>2. r = [c EXCEPT !.kind = k, !.enabled = e, !.settings = s]
    BY <1>1 DEF RowToIndexer
  <1> HIDE DEF r, k, e, s
  <1>3. DOMAIN r = {"name", "definition_id", "kind", "enabled", "settings", "priority"}
    BY <1>2 DEF NewIndexer
  <1>4. r.name = name /\ r.definition_id = id /\ r.kind = k /\ r.enabled = e /\ r.settings = s /\ r.priority = priority
    BY <1>2 DEF NewIndexer
  <1>5. r = NewIndexer(name, id, k, e, s, priority)
    BY <1>2, <1>3, <1>4 DEF NewIndexer
  <1> QED BY <1>5 DEF r, k, e, s

LEMMA ApplicationOf ==
    ASSUME NEW name, NEW kind, NEW url, NEW key, NEW level, NEW c,
           c = NewApplication(name, kind, url, key, level)
    PROVE  RowToApplication(c) = NewApplication(name, AppKindFromStored[kind], url, key, SyncLevelFromStored[level])
  <1> DEFINE r == RowToApplication(c)
             k == AppKindFromStored[kind]
             l == SyncLevelFromStored[level]
  <1>1. c.kind = kind /\ c.sync_level = level
    BY DEF NewApplication
  <1>2. r = [c EXCEPT !.kind = k, !.sync_level = l]
    BY <1>1 DEF RowToApplication
  <1> HIDE DEF r, k, l
  <1>3. DOMAIN r = {"name", "kind", "base_url", "api_key", "sync_level"}
    BY <1>2 DEF NewApplication
  <1>4. r.name = name /\ r.kind = k /\ r.base_url = url /\ r.api_key = key /\ r.sync_level = l
    BY <1>2 DEF NewApplication
  <1>5. r = NewApplication(name, k, url, key, l)
    BY <1>2, <1>3, <1>4 DEF NewApplication
  <1> QED BY <1>5 DEF r, k, l

LEMMA ColumnsReadBack ==
    ASSUME NEW t \in TableNames, NEW row \in RowsOf(t)
    PROVE  Row(t, Columns(t, row)) = row /\ Columns(t, row).name = row.name
  <1>1. CASE t = "indexers"
    <2>1. row \in IndexerRows /\ Row(t, Columns(t, row)) = RowToIndexer(IndexerColumns(row))
          /\ Columns(t, row) = IndexerColumns(row)
      BY <1>1 DEF Row, Columns, RowsOf
    <2>2. PICK D \in SUBSET Texts : row.settings \in [D -> Values]
      BY <2>1 DEF IndexerRows
    <2>3. DecodeSettings(EncodeSettings(row.settings)) = row.settings
      BY <2>2, SettingsReadBack
    <2> DEFINE c == IndexerColumns(row)
    <2>4. c = [row EXCEPT !.kind = IndexerKindAsStr[row.kind], !.enabled = IF row.enabled THEN 1 ELSE 0,
                          !.settings = EncodeSettings(row.settings)]
      BY DEF IndexerColumns
    <2>5. c = [name |-> row.name, definition_id |-> row.definition_id, kind |-> IndexerKindAsStr[row.kind],
               enabled |-> IF row.enabled THEN 1 ELSE 0, settings |-> EncodeSettings(row.settings),
               priority |-> row.priority]
      BY <2>1, <2>4 DEF IndexerRows
    <2> HIDE DEF c
    <2>6. RowToIndexer(c) = [name |-> row.name, definition_id |-> row.definition_id,
                             kind |-> IndexerKindFromStored[IndexerKindAsStr[row.kind]],
                             enabled |-> (IF row.enabled THEN 1 ELSE 0) /= 0,
                             settings |-> DecodeSettings(EncodeSettings(row.settings)), priority |-> row.priority]
      BY <2>5, IndexerOf DEF NewIndexer
    <2>7. IndexerKindFromStored[IndexerKindAsStr[row.kind]] = row.kind
      BY <2>1 DEF IndexerRows, IndexerKindAsStr, IndexerKindFromStored
    <2>8. ((IF row.enabled THEN 1 ELSE 0) /= 0) = row.enabled
      BY <2>1 DEF IndexerRows
    <2>9. RowToIndexer(c) = row
      BY <2>1, <2>3, <2>6, <2>7, <2>8 DEF IndexerRows
    <2> QED BY <2>1, <2>5, <2>9 DEF c
  <1>2. CASE t = "applications"
    <2>1. row \in ApplicationRows /\ Row(t, Columns(t, row)) = RowToApplication(ApplicationColumns(row))
          /\ Columns(t, row) = ApplicationColumns(row)
      BY <1>2 DEF Row, Columns, RowsOf
    <2> DEFINE c == ApplicationColumns(row)
    <2>2. c = [name |-> row.name, kind |-> AppKindAsStr[row.kind], base_url |-> row.base_url,
               api_key |-> row.api_key, sync_level |-> SyncLevelAsStr[row.sync_level]]
      BY <2>1 DEF ApplicationRows, ApplicationColumns
    <2> HIDE DEF c
    <2>3. RowToApplication(c) = [name |-> row.name, kind |-> AppKindFromStored[AppKindAsStr[row.kind]],
                                 base_url |-> row.base_url, api_key |-> row.api_key,
                                 sync_level |-> SyncLevelFromStored[SyncLevelAsStr[row.sync_level]]]
      BY <2>2, ApplicationOf DEF NewApplication
    <2>4. /\ AppKindFromStored[AppKindAsStr[row.kind]] = row.kind
          /\ SyncLevelFromStored[SyncLevelAsStr[row.sync_level]] = row.sync_level
      BY <2>1 DEF ApplicationRows, AppKindAsStr, AppKindFromStored, SyncLevelAsStr, SyncLevelFromStored
    <2>5. RowToApplication(c) = row
      BY <2>1, <2>3, <2>4 DEF ApplicationRows
    <2> QED BY <2>1, <2>2, <2>5 DEF c
  <1> QED BY <1>1, <1>2 DEF TableNames

-----------------------------------------------------------------------------
(***************************************************************************)
(* What a statement does to the tables.                                    *)
(***************************************************************************)
Shape(db) == DOMAIN db = TableNames \cup {"map", "next"} /\ DOMAIN db.next = TableNames

\* Of the tables at most t has changed, and of the counters at most that of t.
Only(db, new, t) ==
    /\ Shape(new)
    /\ \A u \in TableNames : u # t => new[u] = db[u] /\ new.next[u] = db.next[u]

Refused(db, d) == d.db = db /\ d.error # "" /\ d.gives = <<>>
Accepted(d, gives) == d.error = "" /\ d.gives = gives

LEMMA MaxRowIdIs == MaxRowId \in Nat
  BY SMT DEF MaxRowId

LEMMA Inserts ==
    ASSUME NEW db, Shape(db), NEW t \in TableNames, NEW row, db.next[t] \in 1..MaxRowId, NEW d, d = Insert(db, t, row)
    PROVE  \/ Refused(db, d)
           \/ /\ ~Taken(db[t], row.name, db.next[t]) /\ Accepted(d, <<db.next[t]>>) /\ Only(db, d.db, t)
              /\ d.db.map = db.map
              /\ d.db[t] = With(db[t], db.next[t], Columns(t, row)) /\ d.db.next[t] = db.next[t] + 1
  <1> DEFINE id == db.next[t]
             rows == With(db[t], id, Columns(t, row))
  <1> HIDE DEF rows
  <1>0. PICK new : new = [db EXCEPT ![t] = rows, !.next = With(db.next, t, id + 1)]
    OBVIOUS
  <1>1. ~(id > MaxRowId)
    BY MaxRowIdIs
  <1>2. d = IF Taken(db[t], row.name, id) THEN Fails(db, "sqlx") ELSE Does(new, <<id>>)
    BY <1>0, <1>1 DEF Insert, rows
  <1>3. t # "next" /\ t # "map"
    BY DEF TableNames
  <1>4. /\ DOMAIN new = DOMAIN db /\ new[t] = rows
        /\ \A u \in DOMAIN db : u # t /\ u # "next" => new[u] = db[u]
        /\ new.next = With(db.next, t, id + 1)
    BY <1>0, <1>3 DEF Shape, TableNames
  <1>5. /\ DOMAIN new.next = DOMAIN db.next /\ new.next[t] = id + 1
        /\ \A u \in DOMAIN db.next : u # t => new.next[u] = db.next[u]
    BY <1>4 DEF Shape, With
  <1>6. Only(db, new, t) /\ new.map = db.map
    BY <1>3, <1>4, <1>5 DEF Only, Shape, TableNames
  <1>7. Refused(db, Fails(db, "sqlx"))
    BY DEF Refused, Fails
  <1>8. Accepted(Does(new, <<id>>), <<id>>) /\ Does(new, <<id>>).db = new
    BY DEF Accepted, Does
  <1> QED BY <1>2, <1>4, <1>5, <1>6, <1>7, <1>8 DEF rows

LEMMA Updates ==
    ASSUME NEW db, Shape(db), NEW t \in TableNames, NEW id, NEW row, NEW d, d = Update(db, t, id, row)
    PROVE  \/ Refused(db, d)
           \/ /\ id \in DOMAIN db[t] /\ ~Taken(db[t], row.name, id) /\ Accepted(d, <<>>) /\ Only(db, d.db, t)
              /\ d.db.map = db.map /\ d.db.next = db.next
              /\ d.db[t] = With(db[t], id, Columns(t, row))
  <1> DEFINE rows == With(db[t], id, Columns(t, row))
  <1> HIDE DEF rows
  <1>0. PICK new : new = [db EXCEPT ![t] = rows]
    OBVIOUS
  <1>1. \/ d = Fails(db, "not found") \/ d = Fails(db, "sqlx")
        \/ id \in DOMAIN db[t] /\ ~Taken(db[t], row.name, id) /\ d = Does(new, <<>>)
    BY <1>0 DEF Update, rows
  <1>2. /\ DOMAIN new = DOMAIN db /\ new[t] = rows
        /\ \A u \in DOMAIN db : u # t => new[u] = db[u]
    BY <1>0 DEF Shape
  <1>3. Only(db, new, t) /\ new.map = db.map /\ new.next = db.next
    BY <1>2 DEF Only, Shape, TableNames
  <1>4. Refused(db, Fails(db, "sqlx")) /\ Refused(db, Fails(db, "not found"))
    BY DEF Refused, Fails
  <1>5. Accepted(Does(new, <<>>), <<>>) /\ Does(new, <<>>).db = new
    BY DEF Accepted, Does
  <1> QED BY <1>1, <1>2, <1>3, <1>4, <1>5 DEF rows

\* The pairs of a row.
Naming(pairs, t, id) == {pair \in pairs : id = IF t = "applications" THEN pair[1] ELSE pair[2]}

Dropped(db, new, t, id) ==
    /\ id \in DOMAIN db[t] /\ Only(db, new, t) /\ new.next = db.next
    /\ new[t] = Without(db[t], {id}) /\ new.map = Without(db.map, Naming(DOMAIN db.map, t, id))

LEMMA Deletes ==
    ASSUME NEW db, Shape(db), NEW t \in TableNames, NEW id, NEW d, d = Delete(db, t, id)
    PROVE  Refused(db, d) \/ (Accepted(d, <<>>) /\ Dropped(db, d.db, t, id))
  <1> DEFINE rows == Without(db[t], {id})
             maps == Without(db.map, Naming(DOMAIN db.map, t, id))
  <1> HIDE DEF rows, maps
  <1>0. PICK new : new = [db EXCEPT ![t] = rows, !.map = maps]
    OBVIOUS
  <1>1. d = IF id \notin DOMAIN db[t] THEN Fails(db, "not found") ELSE Does(new, <<>>)
    <2>1. t # "map"
      BY DEF TableNames
    <2> QED BY <1>0, <2>1 DEF Delete, Naming, rows, maps
  <1>2. /\ DOMAIN new = DOMAIN db /\ new[t] = rows /\ new.map = maps
        /\ \A u \in DOMAIN db : u # t /\ u # "map" => new[u] = db[u]
    BY <1>0 DEF Shape, TableNames
  <1>3. Only(db, new, t) /\ new.next = db.next
    BY <1>2 DEF Only, Shape, TableNames
  <1>4. Refused(db, Fails(db, "not found"))
    BY DEF Refused, Fails
  <1>5. Accepted(Does(new, <<>>), <<>>) /\ Does(new, <<>>).db = new
    BY DEF Accepted, Does
  <1> QED BY <1>1, <1>2, <1>3, <1>4, <1>5 DEF rows, maps, Dropped

\* What one statement writes and takes back, as Writes, Removes, Maps and Unmaps say of a history.
WritesIt(s, d, t, id) ==
    d.error = "" /\ s.does \in {"insert", "update"} /\ s.table = t /\ id = IF s.does = "insert" THEN d.gives[1] ELSE s.id
RemovesIt(s, d, t, id) == d.error = "" /\ s.does = "delete" /\ s.table = t /\ s.id = id
MapsIt(s, d, a, x) == d.error = "" /\ s.does = "map" /\ s.app = a /\ s.indexer = x
UnmapsIt(s, d, a, x) ==
    \/ s.does = "unmap" /\ s.app = a /\ s.indexer = x
    \/ RemovesIt(s, d, "applications", a) \/ RemovesIt(s, d, "indexers", x)

RowStep(db, s, d, t, id) ==
    /\ WritesIt(s, d, t, id) => id \in DOMAIN d.db[t] /\ d.db[t][id] = Columns(t, s.row)
    /\ RemovesIt(s, d, t, id) => id \notin DOMAIN d.db[t]
    /\ ~WritesIt(s, d, t, id) /\ ~RemovesIt(s, d, t, id) =>
         /\ id \in DOMAIN d.db[t] <=> id \in DOMAIN db[t]
         /\ id \in DOMAIN db[t] => d.db[t][id] = db[t][id]

MapStep(db, s, d, a, x) ==
    /\ MapsIt(s, d, a, x) => <<a, x>> \in DOMAIN d.db.map /\ d.db.map[<<a, x>>] = s.remote
    /\ UnmapsIt(s, d, a, x) => <<a, x>> \notin DOMAIN d.db.map
    /\ ~MapsIt(s, d, a, x) /\ ~UnmapsIt(s, d, a, x) =>
         /\ <<a, x>> \in DOMAIN d.db.map <=> <<a, x>> \in DOMAIN db.map
         /\ <<a, x>> \in DOMAIN db.map => d.db.map[<<a, x>>] = db.map[<<a, x>>]

\* The tables after n statements: ids below the counter, names unique, no mapping without its rows.
TableOK(db, t, n) ==
    /\ db.next[t] \in 1..(n + 1) /\ DOMAIN db[t] \subseteq 1..(db.next[t] - 1)
    /\ \A i, k \in DOMAIN db[t] : i # k => db[t][i].name # db[t][k].name
Linked(db) == DOMAIN db.map \subseteq (DOMAIN db.applications) \X (DOMAIN db.indexers)
DbOK(db, n) == Shape(db) /\ Linked(db) /\ \A t \in TableNames : TableOK(db, t, n)

\* What is shown of each statement.
Step(db, s, d, n) ==
    /\ DbOK(d.db, n + 1)
    /\ d.error # "" => d.db = db
    /\ \A t \in TableNames : \A id : RowStep(db, s, d, t, id)
    /\ \A a, x : MapStep(db, s, d, a, x)
    /\ \A t \in TableNames :
         /\ db.next[t] <= d.db.next[t]
         /\ s.does = "insert" /\ s.table = t /\ d.error = "" =>
              d.gives[1] = db.next[t] /\ d.db.next[t] = db.next[t] + 1

LEMMA RefusedStep ==
    ASSUME NEW n \in Nat, NEW db, DbOK(db, n), NEW s, NEW d, Refused(db, d), s.does # "unmap"
    PROVE  Step(db, s, d, n)
  <1>1. d.db = db /\ d.error # ""
    BY DEF Refused
  <1>2. \A t, id : ~WritesIt(s, d, t, id) /\ ~RemovesIt(s, d, t, id)
    BY <1>1 DEF WritesIt, RemovesIt
  <1>3. \A a, x : ~MapsIt(s, d, a, x) /\ ~UnmapsIt(s, d, a, x)
    BY <1>1, <1>2 DEF MapsIt, UnmapsIt
  <1>4. DbOK(db, n + 1)
    BY DEF DbOK, TableOK
  <1>5. \A t \in TableNames : db.next[t] <= db.next[t]
    BY DEF DbOK, TableOK
  <1> QED BY <1>1, <1>2, <1>3, <1>4, <1>5 DEF Step, RowStep, MapStep

\* A row written to table t under an id whose name nobody else has.
LEMMA WrittenOK ==
    ASSUME NEW n \in Nat, NEW db, DbOK(db, n), NEW new, NEW t \in TableNames, Only(db, new, t), new.map = db.map,
           NEW id, NEW row \in RowsOf(t), ~Taken(db[t], row.name, id), new[t] = With(db[t], id, Columns(t, row)),
           new.next[t] \in db.next[t]..(db.next[t] + 1), id \in 1..(new.next[t] - 1)
    PROVE  DbOK(new, n + 1) /\ \A u \in TableNames : db.next[u] <= new.next[u]
  <1>1. /\ DOMAIN new[t] = DOMAIN db[t] \cup {id} /\ new[t][id] = Columns(t, row)
        /\ \A k \in DOMAIN db[t] : k # id => new[t][k] = db[t][k]
    BY DEF With
  <1>2. Columns(t, row).name = row.name
    BY ColumnsReadBack
  <1>3. \A k \in DOMAIN db[t] : k # id => db[t][k].name # row.name
    BY DEF Taken
  <1>4. TableOK(db, t, n) /\ \A u \in TableNames : u # t => TableOK(db, u, n)
    BY DEF DbOK
  <1>5. TableOK(new, t, n + 1) /\ db.next[t] <= new.next[t]
    <2>1. db.next[t] \in 1..(n + 1) /\ DOMAIN db[t] \subseteq 1..(db.next[t] - 1)
      BY <1>4 DEF TableOK
    <2>2. new.next[t] \in 1..(n + 2) /\ DOMAIN new[t] \subseteq 1..(new.next[t] - 1) /\ db.next[t] <= new.next[t]
      BY <1>1, <2>1
    <2>3. ASSUME NEW i \in DOMAIN new[t], NEW k \in DOMAIN new[t], i # k PROVE new[t][i].name # new[t][k].name
      BY <1>1, <1>2, <1>3, <1>4, <2>3 DEF TableOK
    <2> QED BY <2>2, <2>3 DEF TableOK
  <1>6. ASSUME NEW u \in TableNames, u # t PROVE TableOK(new, u, n + 1) /\ db.next[u] <= new.next[u]
    <2>1. new[u] = db[u] /\ new.next[u] = db.next[u]
      BY <1>6 DEF Only
    <2> QED BY <1>4, <1>6, <2>1 DEF TableOK
  <1>7. Linked(new)
    <2>1. \A u \in TableNames : DOMAIN db[u] \subseteq DOMAIN new[u]
      BY <1>1 DEF Only
    <2>2. DOMAIN db.applications \subseteq DOMAIN new.applications /\ DOMAIN db.indexers \subseteq DOMAIN new.indexers
      BY <2>1 DEF TableNames
    <2> QED BY <2>2 DEF DbOK, Linked
  <1> QED BY <1>5, <1>6, <1>7 DEF DbOK, Only

LEMMA One == ASSUME NEW gives, NEW v, gives = <<v>> PROVE gives[1] = v
  OBVIOUS

LEMMA InsertStep ==
    ASSUME NEW n \in Nat, n < MaxRowId, NEW db, DbOK(db, n), NEW s, s.does = "insert", s.table \in TableNames,
           s.row \in RowsOf(s.table), NEW d, d = Do(db, s)
    PROVE  Step(db, s, d, n)
  <1> DEFINE t == s.table
             id == db.next[t]
  <1>1. d = Insert(db, t, s.row)
    BY DEF Do
  <1>2. Shape(db) /\ TableOK(db, t, n)
    BY DEF DbOK
  <1>3. id \in 1..(n + 1) /\ DOMAIN db[t] \subseteq 1..(id - 1)
    BY <1>2 DEF TableOK
  <1>4. id \in 1..MaxRowId
    BY <1>3, MaxRowIdIs
  <1>5. CASE Refused(db, d)
    BY <1>5, RefusedStep
  <1>6. CASE ~Refused(db, d)
    <2> DEFINE new == d.db
    <2>1. /\ ~Taken(db[t], s.row.name, id) /\ Accepted(d, <<id>>) /\ Only(db, new, t) /\ new.map = db.map
          /\ new[t] = With(db[t], id, Columns(t, s.row)) /\ new.next[t] = id + 1
      BY <1>1, <1>2, <1>4, <1>6, Inserts
    <2>2. new.next[t] \in id..(id + 1) /\ id \in 1..(new.next[t] - 1)
      BY <1>3, <2>1
    <2>3. DbOK(new, n + 1) /\ \A u \in TableNames : db.next[u] <= new.next[u]
      BY <2>1, <2>2, WrittenOK
    <2>4. d.error = "" /\ d.gives[1] = id
      <3>1. d.error = "" /\ d.gives = <<id>>
        BY <2>1 DEF Accepted
      <3> QED BY <3>1, One
    <2>5. /\ \A u, k : WritesIt(s, d, u, k) <=> u = t /\ k = id
          /\ \A u, k : ~RemovesIt(s, d, u, k)
          /\ \A a, x : ~MapsIt(s, d, a, x) /\ ~UnmapsIt(s, d, a, x)
      BY <2>4 DEF WritesIt, RemovesIt, MapsIt, UnmapsIt
    <2>6. ASSUME NEW u \in TableNames, NEW k PROVE RowStep(db, s, d, u, k)
      <3>1. CASE u = t
        <4>1. /\ DOMAIN new[t] = DOMAIN db[t] \cup {id} /\ new[t][id] = Columns(t, s.row)
              /\ \A j \in DOMAIN db[t] : j # id => new[t][j] = db[t][j]
          BY <2>1 DEF With
        <4> QED BY <2>5, <3>1, <4>1 DEF RowStep
      <3>2. CASE u # t
        BY <2>1, <2>5, <3>2 DEF RowStep, Only
      <3> QED BY <3>1, <3>2
    <2>7. \A a, x : MapStep(db, s, d, a, x)
      BY <2>1, <2>5 DEF MapStep
    <2> QED BY <2>1, <2>3, <2>4, <2>6, <2>7 DEF Step
  <1> QED BY <1>5, <1>6

LEMMA UpdateStep ==
    ASSUME NEW n \in Nat, NEW db, DbOK(db, n), NEW s, s.does = "update", s.table \in TableNames,
           s.row \in RowsOf(s.table), NEW d, d = Do(db, s)
    PROVE  Step(db, s, d, n)
  <1> DEFINE t == s.table
             id == s.id
  <1>1. d = Update(db, t, id, s.row)
    BY DEF Do
  <1>2. Shape(db) /\ TableOK(db, t, n)
    BY DEF DbOK
  <1>3. CASE Refused(db, d)
    BY <1>3, RefusedStep
  <1>4. CASE ~Refused(db, d)
    <2> DEFINE new == d.db
    <2>1. /\ id \in DOMAIN db[t] /\ ~Taken(db[t], s.row.name, id) /\ Accepted(d, <<>>) /\ Only(db, new, t)
          /\ new.map = db.map /\ new.next = db.next /\ new[t] = With(db[t], id, Columns(t, s.row))
      BY <1>1, <1>2, <1>4, Updates
    <2>2. new.next[t] \in db.next[t]..(db.next[t] + 1) /\ id \in 1..(new.next[t] - 1)
      BY <1>2, <2>1 DEF TableOK
    <2>3. DbOK(new, n + 1) /\ \A u \in TableNames : db.next[u] <= new.next[u]
      BY <2>1, <2>2, WrittenOK
    <2>4. d.error = ""
      BY <2>1 DEF Accepted
    <2>5. /\ \A u, k : WritesIt(s, d, u, k) <=> u = t /\ k = id
          /\ \A u, k : ~RemovesIt(s, d, u, k)
          /\ \A a, x : ~MapsIt(s, d, a, x) /\ ~UnmapsIt(s, d, a, x)
      BY <2>4 DEF WritesIt, RemovesIt, MapsIt, UnmapsIt
    <2>6. ASSUME NEW u \in TableNames, NEW k PROVE RowStep(db, s, d, u, k)
      <3>1. CASE u = t
        <4>1. /\ DOMAIN new[t] = DOMAIN db[t] \cup {id} /\ new[t][id] = Columns(t, s.row)
              /\ \A j \in DOMAIN db[t] : j # id => new[t][j] = db[t][j]
          BY <2>1 DEF With
        <4> QED BY <2>5, <3>1, <4>1 DEF RowStep
      <3>2. CASE u # t
        BY <2>1, <2>5, <3>2 DEF RowStep, Only
      <3> QED BY <3>1, <3>2
    <2>7. \A a, x : MapStep(db, s, d, a, x)
      BY <2>1, <2>5 DEF MapStep
    <2> QED BY <2>3, <2>4, <2>6, <2>7 DEF Step
  <1> QED BY <1>3, <1>4

LEMMA DeleteStep ==
    ASSUME NEW n \in Nat, NEW db, DbOK(db, n), NEW s, s.does = "delete", s.table \in TableNames,
           NEW d, d = Do(db, s)
    PROVE  Step(db, s, d, n)
  <1> DEFINE t == s.table
             id == s.id
  <1>1. d = Delete(db, t, id)
    BY DEF Do
  <1>2. Shape(db) /\ \A u \in TableNames : TableOK(db, u, n)
    BY DEF DbOK
  <1>3. CASE Refused(db, d)
    BY <1>3, RefusedStep
  <1>4. CASE ~Refused(db, d)
    <2> DEFINE new == d.db
    <2>1. /\ id \in DOMAIN db[t] /\ Accepted(d, <<>>) /\ Only(db, new, t) /\ new.next = db.next
          /\ new[t] = Without(db[t], {id}) /\ new.map = Without(db.map, Naming(DOMAIN db.map, t, id))
      <3>1. Shape(db) /\ t \in TableNames /\ ~Refused(db, d)
        BY <1>2, <1>4
      <3>2. Accepted(d, <<>>) /\ Dropped(db, new, t, id)
        BY <1>1, <3>1, Deletes
      <3> QED BY <3>2 DEF Dropped
    <2>2. /\ DOMAIN new[t] = DOMAIN db[t] \ {id} /\ \A k \in DOMAIN new[t] : new[t][k] = db[t][k]
          /\ \A u \in TableNames : u # t => new[u] = db[u]
      BY <2>1 DEF Without, Only
    <2>3. /\ DOMAIN new.map = DOMAIN db.map \ Naming(DOMAIN db.map, t, id)
          /\ \A p \in DOMAIN new.map : new.map[p] = db.map[p]
      BY <2>1 DEF Without
    <2>4. Linked(new)
      <3>1. ASSUME NEW p \in DOMAIN new.map PROVE p \in (DOMAIN new.applications) \X (DOMAIN new.indexers)
        <4>1. p \in (DOMAIN db.applications) \X (DOMAIN db.indexers) /\ p \notin Naming(DOMAIN db.map, t, id)
          BY <2>3 DEF DbOK, Linked
        <4>2. p \in DOMAIN db.map
          BY <2>3
        <4>3. CASE t = "applications"
          <5>1. p[1] # id /\ DOMAIN new.applications = DOMAIN db.applications \ {id} /\ new.indexers = db.indexers
            BY <2>2, <4>1, <4>2, <4>3 DEF Naming, TableNames
          <5> QED BY <4>1, <5>1
        <4>4. CASE t = "indexers"
          <5>1. p[2] # id /\ DOMAIN new.indexers = DOMAIN db.indexers \ {id} /\ new.applications = db.applications
            BY <2>2, <4>1, <4>2, <4>4 DEF Naming, TableNames
          <5> QED BY <4>1, <5>1
        <4> QED BY <4>3, <4>4 DEF TableNames
      <3> QED BY <3>1 DEF Linked
    <2>5. ASSUME NEW u \in TableNames PROVE TableOK(new, u, n + 1) /\ db.next[u] <= new.next[u]
      <3>1. TableOK(db, u, n) /\ new.next[u] = db.next[u]
        BY <1>2, <2>1
      <3>2. DOMAIN new[u] \subseteq DOMAIN db[u] /\ \A k \in DOMAIN new[u] : new[u][k] = db[u][k]
        BY <2>2
      <3> QED BY <3>1, <3>2 DEF TableOK
    <2>6. DbOK(new, n + 1)
      BY <2>1, <2>4, <2>5 DEF DbOK, Only
    <2>7. d.error = ""
      BY <2>1 DEF Accepted
    <2>8. /\ \A u, k : RemovesIt(s, d, u, k) <=> u = t /\ k = id
          /\ \A u, k : ~WritesIt(s, d, u, k)
          /\ \A a, x : ~MapsIt(s, d, a, x)
          /\ \A a, x : UnmapsIt(s, d, a, x) <=> (t = "applications" /\ a = id) \/ (t = "indexers" /\ x = id)
      BY <2>7 DEF WritesIt, RemovesIt, MapsIt, UnmapsIt
    <2>9. ASSUME NEW u \in TableNames, NEW k PROVE RowStep(db, s, d, u, k)
      BY <2>2, <2>8 DEF RowStep
    <2>10. ASSUME NEW a, NEW x PROVE MapStep(db, s, d, a, x)
      <3>1. <<a, x>>[1] = a /\ <<a, x>>[2] = x
        OBVIOUS
      <3>2. <<a, x>> \in DOMAIN db.map =>
              (<<a, x>> \in Naming(DOMAIN db.map, t, id) <=> (t = "applications" /\ a = id) \/ (t = "indexers" /\ x = id))
        BY <3>1 DEF Naming, TableNames
      <3> QED BY <2>3, <2>8, <3>2 DEF MapStep
    <2> QED BY <2>5, <2>6, <2>7, <2>9, <2>10 DEF Step
  <1> QED BY <1>3, <1>4

\* A statement on mappings leaves the rows alone.
Remapped(db, new, m, n) ==
    /\ DbOK(new, n + 1) /\ new.map = m /\ new.next = db.next
    /\ \A t \in TableNames : new[t] = db[t] /\ db.next[t] <= new.next[t]

LEMMA MappedOK ==
    ASSUME NEW n \in Nat, NEW db, DbOK(db, n), NEW m, NEW new, new = [db EXCEPT !.map = m],
           DOMAIN m \subseteq (DOMAIN db.applications) \X (DOMAIN db.indexers)
    PROVE  Remapped(db, new, m, n)
  <1>1. Shape(db) /\ \A t \in TableNames : TableOK(db, t, n)
    BY DEF DbOK
  <1>2. DOMAIN new = DOMAIN db /\ new.map = m /\ \A x \in DOMAIN db : x # "map" => new[x] = db[x]
    BY <1>1 DEF Shape
  <1>3. new.next = db.next /\ \A t \in TableNames : new[t] = db[t]
    BY <1>1, <1>2 DEF Shape, TableNames
  <1>4. Shape(new) /\ Linked(new)
    BY <1>1, <1>2, <1>3 DEF Shape, Linked, TableNames
  <1>5. ASSUME NEW t \in TableNames PROVE TableOK(new, t, n + 1) /\ db.next[t] <= new.next[t]
    BY <1>1, <1>3 DEF TableOK
  <1> QED BY <1>2, <1>3, <1>4, <1>5 DEF DbOK, Remapped

LEMMA DoesIs ==
    ASSUME NEW db, NEW d, d = Does(db, <<>>)
    PROVE  Accepted(d, <<>>) /\ d.db = db
  BY DEF Does, Accepted

LEMMA SetStep ==
    ASSUME NEW n \in Nat, NEW db, DbOK(db, n), NEW s, s.does = "map", NEW d, d = Do(db, s)
    PROVE  Step(db, s, d, n)
  <1> DEFINE p == <<s.app, s.indexer>>
             m == With(db.map, p, s.remote)
  <1>1. d = IF s.app \notin DOMAIN db.applications \/ s.indexer \notin DOMAIN db.indexers THEN Fails(db, "sqlx")
            ELSE Does([db EXCEPT !.map = m], <<>>)
    BY DEF Do, SetMapping
  <1> HIDE DEF m
  <1>2. CASE s.app \notin DOMAIN db.applications \/ s.indexer \notin DOMAIN db.indexers
    <2>1. d = Fails(db, "sqlx")
      BY <1>1, <1>2
    <2>2. Refused(db, d)
      BY <2>1 DEF Refused, Fails
    <2> QED BY <2>2, RefusedStep
  <1>3. CASE s.app \in DOMAIN db.applications /\ s.indexer \in DOMAIN db.indexers
    <2> DEFINE new == d.db
    <2>1. d.error = "" /\ new = [db EXCEPT !.map = m]
      <3> DEFINE x == [db EXCEPT !.map = m]
      <3>1. d = Does(x, <<>>)
        BY <1>1, <1>3
      <3> HIDE DEF x, new
      <3>2. Accepted(d, <<>>) /\ d.db = x
        BY <3>1, DoesIs, Zenon
      <3> QED BY <3>2 DEF x, new, Accepted
    <2>2. DOMAIN m = DOMAIN db.map \cup {p} /\ m[p] = s.remote /\ \A q \in DOMAIN db.map : q # p => m[q] = db.map[q]
      <3> HIDE DEF p
      <3> QED BY DEF With, m
    <2>3. DOMAIN m \subseteq (DOMAIN db.applications) \X (DOMAIN db.indexers)
      BY <1>3, <2>2 DEF DbOK, Linked
    <2>4. /\ DbOK(new, n + 1) /\ new.map = m /\ new.next = db.next
          /\ \A t \in TableNames : new[t] = db[t] /\ db.next[t] <= new.next[t]
      <3> HIDE DEF new
      <3>1. Remapped(db, new, m, n)
        BY <2>1, <2>3, MappedOK
      <3> QED BY <3>1 DEF Remapped
    <2>5. /\ \A t, id : ~WritesIt(s, d, t, id) /\ ~RemovesIt(s, d, t, id)
          /\ \A a, x : ~UnmapsIt(s, d, a, x)
          /\ \A a, x : MapsIt(s, d, a, x) <=> <<a, x>> = p
      BY <2>1 DEF WritesIt, RemovesIt, MapsIt, UnmapsIt
    <2>6. \A t \in TableNames : \A id : RowStep(db, s, d, t, id)
      BY <2>4, <2>5 DEF RowStep
    <2>7. ASSUME NEW a, NEW x PROVE MapStep(db, s, d, a, x)
      <3> HIDE DEF p
      <3> QED BY <2>2, <2>4, <2>5 DEF MapStep
    <2> QED BY <2>1, <2>4, <2>6, <2>7 DEF Step
  <1> QED BY <1>2, <1>3

LEMMA UnsetStep ==
    ASSUME NEW n \in Nat, NEW db, DbOK(db, n), NEW s, s.does = "unmap", NEW d, d = Do(db, s)
    PROVE  Step(db, s, d, n)
  <1> DEFINE p == <<s.app, s.indexer>>
             m == Without(db.map, {p})
             new == d.db
  <1>1. d.error = "" /\ new = [db EXCEPT !.map = m]
    BY DEF Do, DeleteMapping, Does
  <1>2. DOMAIN m = DOMAIN db.map \ {p} /\ \A q \in DOMAIN m : m[q] = db.map[q]
    BY DEF Without
  <1> HIDE DEF m
  <1>3. DOMAIN m \subseteq (DOMAIN db.applications) \X (DOMAIN db.indexers)
    BY <1>2 DEF DbOK, Linked
  <1>4. /\ DbOK(new, n + 1) /\ new.map = m /\ new.next = db.next
        /\ \A t \in TableNames : new[t] = db[t] /\ db.next[t] <= new.next[t]
    <2> HIDE DEF new
    <2>1. Remapped(db, new, m, n)
      BY <1>1, <1>3, MappedOK
    <2> QED BY <2>1 DEF Remapped
  <1>5. /\ \A t, id : ~WritesIt(s, d, t, id) /\ ~RemovesIt(s, d, t, id)
        /\ \A a, x : ~MapsIt(s, d, a, x)
        /\ \A a, x : UnmapsIt(s, d, a, x) <=> <<a, x>> = p
    BY <1>1 DEF WritesIt, RemovesIt, MapsIt, UnmapsIt
  <1>6. \A t \in TableNames : \A id : RowStep(db, s, d, t, id)
    BY <1>4, <1>5 DEF RowStep
  <1>7. ASSUME NEW a, NEW x PROVE MapStep(db, s, d, a, x)
    <2> HIDE DEF p
    <2> QED BY <1>2, <1>4, <1>5 DEF MapStep
  <1> QED BY <1>1, <1>4, <1>6, <1>7 DEF Step

LEMMA EveryStep ==
    ASSUME NEW n \in Nat, n < MaxRowId, NEW db, DbOK(db, n), NEW s, IsStatement(s), NEW d, d = Do(db, s)
    PROVE  Step(db, s, d, n)
  BY InsertStep, UpdateStep, DeleteStep, SetStep, UnsetStep DEF IsStatement

-----------------------------------------------------------------------------
(***************************************************************************)
(* A history, one statement after the other.                               *)
(***************************************************************************)
Running(h, f, n) == f = [i \in 0..n |-> IF i = 0 THEN EmptyDb ELSE Do(f[i - 1], h[i]).db]

LEMMA RunningExists ==
    ASSUME NEW h, NEW n \in Nat
    PROVE  \E f : Running(h, f, n)
  <1> DEFINE S == {m \in Nat : \E f : Running(h, f, m)}
  <1>1. 0 \in S
    <2>1. Running(h, [i \in 0..0 |-> EmptyDb], 0)
      BY DEF Running
    <2> QED BY <2>1
  <1>2. ASSUME NEW m \in Nat, m \in S PROVE m + 1 \in S
    <2>1. PICK f : Running(h, f, m)
      BY <1>2
    <2> DEFINE last == Do(f[m], h[m + 1]).db
               g == [i \in 0..(m + 1) |-> IF i = m + 1 THEN last ELSE f[i]]
    <2>2. \A i \in 0..m : f[i] = IF i = 0 THEN EmptyDb ELSE Do(f[i - 1], h[i]).db
      BY <2>1 DEF Running
    <2>3. g[m + 1] = last /\ \A i \in 0..m : g[i] = f[i]
      <3> HIDE DEF last
      <3>1. m + 1 \in 0..(m + 1) /\ \A i \in 0..m : i \in 0..(m + 1) /\ i # m + 1
        OBVIOUS
      <3> QED BY <3>1
    <2>4. DOMAIN g = 0..(m + 1) /\ g = [i \in 0..(m + 1) |-> g[i]]
      OBVIOUS
    <2>5. ASSUME NEW i \in 0..(m + 1) PROVE g[i] = IF i = 0 THEN EmptyDb ELSE Do(g[i - 1], h[i]).db
      <3> HIDE DEF g
      <3>1. CASE i = m + 1
        <4>1. m \in 0..m /\ i # 0 /\ i - 1 = m
          BY <3>1
        <4> QED BY <3>1, <2>3, <4>1
      <3>2. CASE i # m + 1
        <4>1. i \in 0..m /\ (i # 0 => i - 1 \in 0..m)
          BY <3>2
        <4> QED BY <2>2, <2>3, <4>1
      <3> QED BY <3>1, <3>2
    <2> HIDE DEF g
    <2>6. Running(h, g, m + 1)
      BY <2>4, <2>5 DEF Running
    <2> QED BY <2>6
  <1>3. Nat \subseteq S
    <2> HIDE DEF S
    <2> QED BY <1>1, <1>2, Inductively
  <1> QED BY <1>3

LEMMA TablesAre ==
    ASSUME NEW h, IsHistory(h)
    PROVE  /\ Tables(h)[0] = EmptyDb /\ DOMAIN Outcomes(h) = 1..Len(h)
           /\ \A i \in 1..Len(h) : /\ Outcomes(h)[i] = Do(Tables(h)[i - 1], h[i])
                                   /\ Tables(h)[i] = Outcomes(h)[i].db
  <1>1. Len(h) \in Nat /\ DOMAIN h = 1..Len(h)
    BY MaxRowIdIs DEF IsHistory
  <1> DEFINE f == CHOOSE f : f = [i \in 0..Len(h) |-> IF i = 0 THEN EmptyDb ELSE Do(f[i - 1], h[i]).db]
  <1>2. \E g : g = [i \in 0..Len(h) |-> IF i = 0 THEN EmptyDb ELSE Do(g[i - 1], h[i]).db]
    BY <1>1, RunningExists DEF Running
  <1>3. f = [i \in 0..Len(h) |-> IF i = 0 THEN EmptyDb ELSE Do(f[i - 1], h[i]).db]
    BY <1>2, Zenon
  <1>4. Tables(h) = f
    BY Zenon DEF Tables
  <1> HIDE DEF f
  <1>5. f[0] = EmptyDb /\ \A i \in 1..Len(h) : f[i] = Do(f[i - 1], h[i]).db
    BY <1>1, <1>3
  <1>6. Outcomes(h) = [i \in 1..Len(h) |-> Do(f[i - 1], h[i])]
    BY <1>1, <1>4 DEF Outcomes
  <1> QED BY <1>4, <1>5, <1>6

LEMMA HistoryRuns ==
    ASSUME NEW h, IsHistory(h)
    PROVE  /\ \A n \in 0..Len(h) : DbOK(Tables(h)[n], n)
           /\ \A i \in 1..Len(h) : Step(Tables(h)[i - 1], h[i], Outcomes(h)[i], i - 1)
  <1>1. Len(h) \in Nat /\ Len(h) <= MaxRowId /\ MaxRowId \in Nat /\ DOMAIN h = 1..Len(h)
    BY MaxRowIdIs DEF IsHistory
  <1> DEFINE S == {n \in Nat : n <= Len(h) => DbOK(Tables(h)[n], n)}
  <1>2. DbOK(EmptyDb, 0)
    <2>1. Shape(EmptyDb)
      BY DEF EmptyDb, Shape, TableNames
    <2>2. \A t \in TableNames : DOMAIN EmptyDb[t] = {} /\ EmptyDb.next[t] = 1
      BY DEF EmptyDb, NoRows, TableNames
    <2>3. DOMAIN EmptyDb.map = {}
      BY DEF EmptyDb, NoRows
    <2> QED BY <2>1, <2>2, <2>3 DEF DbOK, TableOK, Linked
  <1>3. 0 \in S
    BY <1>2, TablesAre
  <1>4. ASSUME NEW i \in 1..Len(h), DbOK(Tables(h)[i - 1], i - 1)
        PROVE  Step(Tables(h)[i - 1], h[i], Outcomes(h)[i], i - 1) /\ DbOK(Tables(h)[i], i)
    <2>1. IsStatement(h[i])
      BY <1>1 DEF IsHistory
    <2>2. Outcomes(h)[i] = Do(Tables(h)[i - 1], h[i]) /\ Tables(h)[i] = Outcomes(h)[i].db
      BY TablesAre
    <2>3. i - 1 \in Nat /\ i - 1 < MaxRowId /\ (i - 1) + 1 = i
      BY <1>1
    <2>4. Step(Tables(h)[i - 1], h[i], Outcomes(h)[i], i - 1)
      BY <1>4, <2>1, <2>2, <2>3, EveryStep
    <2>5. DbOK(Outcomes(h)[i].db, (i - 1) + 1)
      BY <2>4 DEF Step
    <2> QED BY <2>2, <2>3, <2>4, <2>5
  <1>5. ASSUME NEW n \in Nat, n \in S PROVE n + 1 \in S
    <2>1. CASE n + 1 <= Len(h)
      <3>1. n + 1 \in 1..Len(h) /\ (n + 1) - 1 = n /\ n <= Len(h)
        BY <1>1, <2>1
      <3> QED BY <1>4, <1>5, <3>1
    <2>2. CASE ~(n + 1 <= Len(h))
      BY <2>2
    <2> QED BY <2>1, <2>2
  <1>6. Nat \subseteq S
    <2> HIDE DEF S
    <2> QED BY <1>3, <1>5, Inductively
  <1>7. \A n \in 0..Len(h) : DbOK(Tables(h)[n], n)
    BY <1>1, <1>6
  <1>8. \A i \in 1..Len(h) : DbOK(Tables(h)[i - 1], i - 1)
    BY <1>1, <1>7
  <1> QED BY <1>4, <1>7, <1>8

\* What stands after the first n statements.
Standing(W, R, n) == Stands(W \cap (1..n), R \cap (1..n))

LEMMA StandingSteps ==
    ASSUME NEW W, NEW R, NEW n \in Nat
    PROVE  /\ Standing(W, R, 0) = {}
           /\ n + 1 \in W => n + 1 \in Standing(W, R, n + 1) /\ Standing(W, R, n + 1) \subseteq {n + 1}
           /\ n + 1 \in R /\ n + 1 \notin W => Standing(W, R, n + 1) = {}
           /\ n + 1 \notin W \cup R => Standing(W, R, n + 1) = Standing(W, R, n)
  <1>1. 1..(n + 1) = (1..n) \cup {n + 1} /\ n + 1 \notin 1..n
    OBVIOUS
  <1>2. \A i \in 1..n : i \in Nat /\ i <= n + 1 /\ ~(n + 1 <= i)
    OBVIOUS
  <1>3. Standing(W, R, 0) = {}
    BY DEF Standing, Stands
  <1>4. \A i : i \in Standing(W, R, n + 1) <=>
               i \in W \cap (1..(n + 1)) /\ \A k \in (W \cup R) \cap (1..(n + 1)) : k <= i
    BY DEF Standing, Stands
  <1>5. ASSUME n + 1 \in W
        PROVE  n + 1 \in Standing(W, R, n + 1) /\ Standing(W, R, n + 1) \subseteq {n + 1}
    BY <1>1, <1>2, <1>4, <1>5
  <1>6. ASSUME n + 1 \in R, n + 1 \notin W
        PROVE  Standing(W, R, n + 1) = {}
    BY <1>1, <1>2, <1>4, <1>6
  <1>7. ASSUME n + 1 \notin W \cup R
        PROVE  Standing(W, R, n + 1) = Standing(W, R, n)
    <2>1. W \cap (1..(n + 1)) = W \cap (1..n) /\ R \cap (1..(n + 1)) = R \cap (1..n)
      BY <1>1, <1>7
    <2> QED BY <2>1 DEF Standing
  <1> QED BY <1>3, <1>5, <1>6, <1>7

\* Whatever is written at W, taken back at R and otherwise left alone is at every time what stands:
\* D are the times it is there, v what it is then, w what is written.
Follows(W, R, D, v, w, n) ==
    /\ n \in D <=> Standing(W, R, n) # {}
    /\ \A i \in Standing(W, R, n) : v[n] = w[i]

LEMMA Following ==
    ASSUME NEW N \in Nat, NEW W, NEW R, NEW D, NEW v, NEW w, 0 \notin D,
           \A i \in 1..N : /\ i \in W => i \in D /\ v[i] = w[i]
                           /\ i \in R => i \notin D
                           /\ i \notin W \cup R => (i \in D <=> i - 1 \in D) /\ (i - 1 \in D => v[i] = v[i - 1])
    PROVE  Follows(W, R, D, v, w, N)
  <1> DEFINE S == {n \in Nat : n <= N => Follows(W, R, D, v, w, n)}
  <1>1. 0 \in S
    BY StandingSteps DEF Follows
  <1>2. ASSUME NEW n \in Nat, n \in S PROVE n + 1 \in S
    <2> SUFFICES ASSUME n + 1 <= N PROVE Follows(W, R, D, v, w, n + 1)
      OBVIOUS
    <2>1. Follows(W, R, D, v, w, n) /\ n + 1 \in 1..N /\ (n + 1) - 1 = n
      BY <1>2
    <2>2. CASE n + 1 \in W
      <3>1. n + 1 \in D /\ v[n + 1] = w[n + 1]
        BY <2>1, <2>2
      <3>2. n + 1 \in Standing(W, R, n + 1) /\ Standing(W, R, n + 1) \subseteq {n + 1}
        BY <2>2, StandingSteps
      <3> QED BY <3>1, <3>2 DEF Follows
    <2>3. CASE n + 1 \in R /\ n + 1 \notin W
      <3>1. n + 1 \notin D
        BY <2>1, <2>3
      <3>2. Standing(W, R, n + 1) = {}
        BY <2>3, StandingSteps
      <3> QED BY <3>1, <3>2 DEF Follows
    <2>4. CASE n + 1 \notin W \cup R
      <3>1. (n + 1 \in D <=> n \in D) /\ (n \in D => v[n + 1] = v[n])
        BY <2>1, <2>4
      <3>2. Standing(W, R, n + 1) = Standing(W, R, n)
        BY <2>4, StandingSteps
      <3> QED BY <2>1, <3>1, <3>2 DEF Follows
    <2> QED BY <2>2, <2>3, <2>4
  <1>3. Nat \subseteq S
    <2> HIDE DEF S
    <2> QED BY <1>1, <1>2, Inductively
  <1> QED BY <1>3

After(h) == Tables(h)[Len(h)]

LEMMA RowsStand ==
    ASSUME NEW h, IsHistory(h), NEW t \in TableNames, NEW id
    PROVE  /\ RowsSaid(h, Outcomes(h), t, id) =
                IF id \in DOMAIN After(h)[t] THEN {Row(t, After(h)[t][id])} ELSE {}
           /\ id \in DOMAIN After(h)[t] => Row(t, After(h)[t][id]).name = After(h)[t][id].name
  <1> DEFINE N == Len(h)
             done == Outcomes(h)
             db == Tables(h)
             W == {i \in DOMAIN h : Writes(h, done, i, t, id)}
             R == {i \in DOMAIN h : Removes(h, done, i, t, id)}
             D == {n \in 0..N : id \in DOMAIN db[n][t]}
             v == [n \in 0..N |-> db[n][t][id]]
             w == [i \in 1..N |-> Columns(t, h[i].row)]
  <1>1. N \in Nat /\ DOMAIN h = 1..N /\ N \in 0..N /\ 0 \in 0..N
    BY MaxRowIdIs DEF IsHistory
  <1>2. 0 \notin D
    <2>1. db[0] = EmptyDb
      BY TablesAre
    <2>2. DOMAIN EmptyDb[t] = {}
      BY DEF EmptyDb, NoRows, TableNames
    <2> QED BY <2>1, <2>2
  <1>3. ASSUME NEW i \in 1..N
        PROVE  /\ i \in W => i \in D /\ v[i] = w[i]
               /\ i \in R => i \notin D
               /\ i \notin W \cup R => (i \in D <=> i - 1 \in D) /\ (i - 1 \in D => v[i] = v[i - 1])
    <2>1. RowStep(db[i - 1], h[i], done[i], t, id)
      BY HistoryRuns DEF Step
    <2>2. db[i] = done[i].db /\ i \in 0..N /\ i - 1 \in 0..N
      BY <1>1, TablesAre
    <2>3. (i \in W <=> WritesIt(h[i], done[i], t, id)) /\ (i \in R <=> RemovesIt(h[i], done[i], t, id))
      BY <1>1 DEF Writes, Removes, WritesIt, RemovesIt
    <2>4. /\ i \in D <=> id \in DOMAIN done[i].db[t]
          /\ i - 1 \in D <=> id \in DOMAIN db[i - 1][t]
          /\ v[i] = done[i].db[t][id] /\ v[i - 1] = db[i - 1][t][id] /\ w[i] = Columns(t, h[i].row)
      <3> HIDE DEF done, db
      <3> QED BY <2>2
    <2> HIDE DEF N, done, db, W, R, D, v, w
    <2> QED BY <2>1, <2>3, <2>4 DEF RowStep
  <1>4. Follows(W, R, D, v, w, N)
    <2> HIDE DEF N, W, R, D, v, w
    <2> QED BY <1>1, <1>2, <1>3, Following
  <1>5. Standing(W, R, N) = Stands(W, R)
    <2>1. W \cap (1..N) = W /\ R \cap (1..N) = R
      BY <1>1
    <2> QED BY <2>1 DEF Standing
  <1>6. /\ id \in DOMAIN After(h)[t] <=> Stands(W, R) # {}
        /\ \A i \in Stands(W, R) : After(h)[t][id] = w[i]
    <2>1. (N \in D <=> id \in DOMAIN After(h)[t]) /\ v[N] = After(h)[t][id]
      BY <1>1 DEF After
    <2> HIDE DEF N, W, R, D, v, w
    <2> QED BY <1>4, <1>5, <2>1 DEF Follows
  <1>7. ASSUME NEW i \in Stands(W, R) PROVE Row(t, w[i]) = h[i].row /\ w[i].name = h[i].row.name
    <2>1. i \in 1..N /\ i \in W
      BY <1>1 DEF Stands
    <2>2. h[i].row \in RowsOf(t)
      <3>1. IsStatement(h[i]) /\ h[i].does \in {"insert", "update"} /\ h[i].table = t
        BY <1>1, <2>1 DEF IsHistory, Writes
      <3> QED BY <3>1 DEF IsStatement
    <2> QED BY <2>1, <2>2, ColumnsReadBack
  <1>8. RowsSaid(h, done, t, id) = {h[i].row : i \in Stands(W, R)}
    BY DEF RowsSaid
  <1> HIDE DEF N, W, R, D, v, w, done
  <1>9. CASE id \in DOMAIN After(h)[t]
    <2>1. PICK i : i \in Stands(W, R)
      BY <1>6, <1>9
    <2>2. \A k \in Stands(W, R) : h[k].row = Row(t, After(h)[t][id])
      BY <1>6, <1>7
    <2>3. After(h)[t][id].name = h[i].row.name
      BY <1>6, <1>7, <2>1
    <2> QED BY <1>8, <1>9, <2>1, <2>2, <2>3 DEF done
  <1>10. CASE id \notin DOMAIN After(h)[t]
    BY <1>6, <1>8, <1>10 DEF done
  <1> QED BY <1>9, <1>10

LEMMA RemotesStand ==
    ASSUME NEW h, IsHistory(h), NEW a, NEW x
    PROVE  RemotesSaid(h, Outcomes(h), a, x) =
             IF <<a, x>> \in DOMAIN After(h).map THEN {After(h).map[<<a, x>>]} ELSE {}
  <1> DEFINE N == Len(h)
             done == Outcomes(h)
             db == Tables(h)
             p == <<a, x>>
             W == {i \in DOMAIN h : Maps(h, done, i, a, x)}
             R == {i \in DOMAIN h : Unmaps(h, done, i, a, x)}
             D == {n \in 0..N : p \in DOMAIN db[n].map}
             v == [n \in 0..N |-> db[n].map[p]]
             w == [i \in 1..N |-> h[i].remote]
  <1>1. N \in Nat /\ DOMAIN h = 1..N /\ N \in 0..N /\ 0 \in 0..N
    BY MaxRowIdIs DEF IsHistory
  <1>2. 0 \notin D
    <2>1. db[0] = EmptyDb
      BY TablesAre
    <2>2. DOMAIN EmptyDb.map = {}
      BY DEF EmptyDb, NoRows
    <2> HIDE DEF p
    <2> QED BY <2>1, <2>2
  <1>3. ASSUME NEW i \in 1..N
        PROVE  /\ i \in W => i \in D /\ v[i] = w[i]
               /\ i \in R => i \notin D
               /\ i \notin W \cup R => (i \in D <=> i - 1 \in D) /\ (i - 1 \in D => v[i] = v[i - 1])
    <2>1. MapStep(db[i - 1], h[i], done[i], a, x)
      BY HistoryRuns DEF Step
    <2>2. db[i] = done[i].db /\ i \in 0..N /\ i - 1 \in 0..N
      BY <1>1, TablesAre
    <2>3. (i \in W <=> MapsIt(h[i], done[i], a, x)) /\ (i \in R <=> UnmapsIt(h[i], done[i], a, x))
      BY <1>1 DEF Maps, Unmaps, Removes, MapsIt, UnmapsIt, RemovesIt
    <2>4. /\ i \in D <=> p \in DOMAIN done[i].db.map
          /\ i - 1 \in D <=> p \in DOMAIN db[i - 1].map
          /\ v[i] = done[i].db.map[p] /\ v[i - 1] = db[i - 1].map[p] /\ w[i] = h[i].remote
      <3> HIDE DEF done, db, p
      <3> QED BY <2>2
    <2>5. /\ MapsIt(h[i], done[i], a, x) => p \in DOMAIN done[i].db.map /\ done[i].db.map[p] = h[i].remote
          /\ UnmapsIt(h[i], done[i], a, x) => p \notin DOMAIN done[i].db.map
          /\ ~MapsIt(h[i], done[i], a, x) /\ ~UnmapsIt(h[i], done[i], a, x) =>
               /\ p \in DOMAIN done[i].db.map <=> p \in DOMAIN db[i - 1].map
               /\ p \in DOMAIN db[i - 1].map => done[i].db.map[p] = db[i - 1].map[p]
      BY <2>1 DEF MapStep
    <2> HIDE DEF N, done, db, p, W, R, D, v, w
    <2> QED BY <2>3, <2>4, <2>5
  <1>4. Follows(W, R, D, v, w, N)
    <2> HIDE DEF N, W, R, D, v, w
    <2> QED BY <1>1, <1>2, <1>3, Following
  <1>5. Standing(W, R, N) = Stands(W, R)
    <2>1. W \cap (1..N) = W /\ R \cap (1..N) = R
      BY <1>1
    <2> QED BY <2>1 DEF Standing
  <1>6. /\ p \in DOMAIN After(h).map <=> Stands(W, R) # {}
        /\ \A i \in Stands(W, R) : After(h).map[p] = h[i].remote
    <2>1. (N \in D <=> p \in DOMAIN After(h).map) /\ v[N] = After(h).map[p]
      <3> HIDE DEF p
      <3> QED BY <1>1 DEF After
    <2>2. \A i \in Stands(W, R) : w[i] = h[i].remote
      BY <1>1 DEF Stands
    <2> HIDE DEF N, p, W, R, D, v, w
    <2> QED BY <1>4, <1>5, <2>1, <2>2 DEF Follows
  <1>7. RemotesSaid(h, done, a, x) = {h[i].remote : i \in Stands(W, R)}
    BY DEF RemotesSaid
  <1> HIDE DEF N, W, R, D, v, w, done, p
  <1>8. CASE p \in DOMAIN After(h).map
    <2>1. PICK i : i \in Stands(W, R)
      BY <1>6, <1>8
    <2>2. \A k \in Stands(W, R) : h[k].remote = After(h).map[p]
      BY <1>6
    <2> QED BY <1>7, <1>8, <2>1, <2>2 DEF done, p
  <1>9. CASE p \notin DOMAIN After(h).map
    BY <1>6, <1>7, <1>9 DEF done, p
  <1> QED BY <1>8, <1>9

\* A table at the end of a history: finitely many ids, each at most the number of statements.
LEMMA AfterIs ==
    ASSUME NEW h, IsHistory(h)
    PROVE  /\ \A t \in TableNames : DOMAIN After(h)[t] \subseteq 1..Len(h)
           /\ \A t \in TableNames : \A i, k \in DOMAIN After(h)[t] : i # k => After(h)[t][i].name # After(h)[t][k].name
           /\ DOMAIN After(h).map \subseteq (1..Len(h)) \X (1..Len(h))
           /\ \A S \in SUBSET (1..Len(h)) : S \in SUBSET Nat /\ IsFiniteSet(S)
  <1>1. Len(h) \in Nat
    BY MaxRowIdIs DEF IsHistory
  <1>2. DbOK(After(h), Len(h))
    BY <1>1, HistoryRuns DEF After
  <1>3. ASSUME NEW t \in TableNames
        PROVE  /\ DOMAIN After(h)[t] \subseteq 1..Len(h)
               /\ \A i, k \in DOMAIN After(h)[t] : i # k => After(h)[t][i].name # After(h)[t][k].name
    <2>1. TableOK(After(h), t, Len(h))
      BY <1>2 DEF DbOK
    <2>2. After(h).next[t] \in 1..(Len(h) + 1) /\ DOMAIN After(h)[t] \subseteq 1..(After(h).next[t] - 1)
      BY <2>1 DEF TableOK
    <2> QED BY <1>1, <2>1, <2>2 DEF TableOK
  <1>4. DOMAIN After(h).map \subseteq (DOMAIN After(h).applications) \X (DOMAIN After(h).indexers)
    BY <1>2 DEF DbOK, Linked
  <1>5. DOMAIN After(h).applications \subseteq 1..Len(h) /\ DOMAIN After(h).indexers \subseteq 1..Len(h)
    BY <1>3 DEF TableNames
  <1>6. \A S \in SUBSET (1..Len(h)) : S \in SUBSET Nat /\ IsFiniteSet(S)
    <2>1. IsFiniteSet(1..Len(h))
      BY <1>1, FS_Interval
    <2>2. ASSUME NEW S \in SUBSET (1..Len(h)) PROVE IsFiniteSet(S)
      BY <2>1, FS_Subset
    <2>3. 1..Len(h) \subseteq Nat
      BY <1>1
    <2> QED BY <2>2, <2>3
  <1> QED BY <1>3, <1>4, <1>5, <1>6

LEMMA ListsRead ==
    ASSUME NEW h, IsHistory(h), NEW t \in TableNames
    PROVE  RowsReadBack(h, Outcomes(h), After(h), t)
  <1> DEFINE db == After(h)
             done == Outcomes(h)
             ids == Ascending(DOMAIN db[t])
             listed == List(db, t)
             SaidOn(id) == RowsSaid(h, done, t, id)
  <1>1. DOMAIN db[t] \subseteq 1..Len(h) /\ DOMAIN db[t] \in SUBSET Nat /\ IsFiniteSet(DOMAIN db[t])
    BY AfterIs
  <1>2. /\ \A i \in DOMAIN ids : ids[i] \in DOMAIN db[t]
        /\ \A k \in DOMAIN db[t] : \E i \in DOMAIN ids : ids[i] = k
        /\ \A i, j \in DOMAIN ids : i < j => ids[i] < ids[j]
    BY <1>1, AscendingIs
  <1>3. listed = [i \in DOMAIN ids |-> [id |-> ids[i], row |-> Row(t, db[t][ids[i]])]]
    BY DEF List
  <1>4. /\ \A id : SaidOn(id) = IF id \in DOMAIN db[t] THEN {Row(t, db[t][id])} ELSE {}
        /\ \A id \in DOMAIN db[t] : Row(t, db[t][id]).name = db[t][id].name
    BY RowsStand
  <1>5. \A i, k \in DOMAIN db[t] : i # k => db[t][i].name # db[t][k].name
    BY AfterIs
  <1> HIDE DEF db, done, ids, listed, SaidOn
  <1>6. ToSet(listed) = UNION {{[id |-> id, row |-> r] : r \in SaidOn(id)} : id \in 1..Len(h)}
    <2> DEFINE Entry(id) == [id |-> id, row |-> Row(t, db[t][id])]
    <2>1. ToSet(listed) = {Entry(ids[i]) : i \in DOMAIN ids}
      BY <1>3 DEF ToSet
    <2>2. {Entry(ids[i]) : i \in DOMAIN ids} = {Entry(id) : id \in DOMAIN db[t]}
      <3> HIDE DEF Entry
      <3> QED BY <1>2
    <2>3. \A id \in 1..Len(h) : {[id |-> id, row |-> r] : r \in SaidOn(id)} =
                                  IF id \in DOMAIN db[t] THEN {Entry(id)} ELSE {}
      BY <1>4
    <2>4. UNION {{[id |-> id, row |-> r] : r \in SaidOn(id)} : id \in 1..Len(h)} = {Entry(id) : id \in DOMAIN db[t]}
      <3> HIDE DEF Entry
      <3> QED BY <1>1, <2>3
    <2> QED BY <2>1, <2>2, <2>4
  <1>7. ASSUME NEW i \in DOMAIN listed, NEW k \in DOMAIN listed, i < k
        PROVE  listed[i].id < listed[k].id /\ listed[i].row.name # listed[k].row.name
    <2>1. i \in DOMAIN ids /\ k \in DOMAIN ids
      BY <1>3
    <2>2. ids[i] \in DOMAIN db[t] /\ ids[k] \in DOMAIN db[t] /\ ids[i] < ids[k]
      BY <1>2, <1>7, <2>1
    <2>3. ids[i] # ids[k]
      BY <1>1, <2>2
    <2>4. /\ listed[i].id = ids[i] /\ listed[i].row = Row(t, db[t][ids[i]])
          /\ listed[k].id = ids[k] /\ listed[k].row = Row(t, db[t][ids[k]])
      BY <1>3, <2>1
    <2> QED BY <1>4, <1>5, <2>2, <2>3, <2>4
  <1>8. ASSUME NEW id \in 1..Len(h)
        PROVE  ToSet(Get(db, t, id).gives) = SaidOn(id)
    <2>1. CASE id \in DOMAIN db[t]
      <3>1. Get(db, t, id).gives = <<Row(t, db[t][id])>>
        BY <2>1 DEF Get, Does
      <3> QED BY <1>4, <2>1, <3>1 DEF ToSet
    <2>2. CASE id \notin DOMAIN db[t]
      <3>1. Get(db, t, id).gives = <<>>
        BY <2>2 DEF Get, Fails
      <3> QED BY <1>4, <2>2, <3>1 DEF ToSet
    <2> QED BY <2>1, <2>2
  <1> QED BY <1>6, <1>7, <1>8 DEF RowsReadBack, listed, SaidOn, db, done

LEMMA IdsRise ==
    ASSUME NEW h, IsHistory(h), NEW t \in TableNames
    PROVE  IdsGrow(h, Outcomes(h), t)
  <1> DEFINE N == Len(h)
             next == [n \in 0..N |-> Tables(h)[n].next[t]]
             done == Outcomes(h)
             Hands(i) == h[i].does = "insert" /\ h[i].table = t /\ done[i].error = ""
  <1>1. N \in Nat /\ DOMAIN h = 1..N
    BY MaxRowIdIs DEF IsHistory
  <1>2. \A n \in 0..N : next[n] \in Nat
    <2>1. ASSUME NEW n \in 0..N PROVE Tables(h)[n].next[t] \in Nat
      <3>1. TableOK(Tables(h)[n], t, n)
        BY HistoryRuns DEF DbOK
      <3> QED BY <1>1, <3>1 DEF TableOK
    <2> QED BY <2>1
  <1>3. ASSUME NEW i \in 1..N
        PROVE  next[i - 1] <= next[i] /\ (Hands(i) => done[i].gives[1] = next[i - 1] /\ next[i] = next[i - 1] + 1)
    <2>1. /\ Tables(h)[i - 1].next[t] <= done[i].db.next[t]
          /\ Hands(i) => /\ done[i].gives[1] = Tables(h)[i - 1].next[t]
                         /\ done[i].db.next[t] = Tables(h)[i - 1].next[t] + 1
      BY HistoryRuns DEF Step
    <2>2. done[i].db = Tables(h)[i]
      BY TablesAre
    <2>3. i \in 0..N /\ i - 1 \in 0..N
      BY <1>1
    <2>4. next[i] = Tables(h)[i].next[t] /\ next[i - 1] = Tables(h)[i - 1].next[t]
      BY <2>3
    <2> HIDE DEF next, Hands
    <2> QED BY <2>1, <2>2, <2>4
  <1> HIDE DEF next, done, Hands
  <1>4. ASSUME NEW i \in 0..N
        PROVE  \A k \in i..N : next[i] <= next[k]
    <2> DEFINE S == {m \in Nat : i + m <= N => next[i] <= next[i + m]}
    <2>1. 0 \in S
      BY <1>1, <1>2
    <2>2. ASSUME NEW m \in Nat, m \in S PROVE m + 1 \in S
      <3> SUFFICES ASSUME i + (m + 1) <= N PROVE next[i] <= next[i + (m + 1)]
        OBVIOUS
      <3>1. i + (m + 1) \in 1..N /\ i + (m + 1) \in 0..N /\ (i + (m + 1)) - 1 = i + m /\ i + m \in 0..N /\ i + m <= N
        BY <1>1
      <3>2. next[i] <= next[i + m]
        BY <2>2, <3>1
      <3>3. next[i + m] <= next[i + (m + 1)]
        <4> DEFINE k == i + (m + 1)
        <4>1. k \in 1..N /\ k - 1 = i + m
          BY <3>1
        <4> HIDE DEF k
        <4>2. next[i + m] <= next[k]
          BY <1>3, <4>1
        <4> QED BY <4>2 DEF k
      <3>4. next[i] \in Nat /\ next[i + m] \in Nat /\ next[i + (m + 1)] \in Nat
        BY <1>2, <3>1
      <3> QED BY <3>2, <3>3, <3>4
    <2>3. Nat \subseteq S
      <3> HIDE DEF S
      <3> QED BY <2>1, <2>2, Inductively
    <2>4. ASSUME NEW k \in i..N PROVE next[i] <= next[k]
      <3>1. k - i \in Nat /\ i + (k - i) = k /\ k <= N
        BY <1>1
      <3>2. k - i \in S
        BY <2>3, <3>1
      <3> QED BY <3>1, <3>2
    <2> QED BY <2>4
  <1>5. ASSUME NEW i \in 1..N, NEW k \in 1..N, Hands(i), Hands(k), i < k
        PROVE  done[i].gives[1] < done[k].gives[1]
    <2>1. i - 1 \in 0..N /\ i \in 0..N /\ k - 1 \in i..N /\ k - 1 \in 0..N
      BY <1>1, <1>5
    <2>2. done[i].gives[1] = next[i - 1] /\ next[i] = next[i - 1] + 1 /\ done[k].gives[1] = next[k - 1]
      BY <1>3, <1>5
    <2>3. next[i] <= next[k - 1]
      BY <1>4, <2>1
    <2>4. next[i - 1] \in Nat /\ next[i] \in Nat /\ next[k - 1] \in Nat
      BY <1>2, <2>1
    <2> QED BY <2>2, <2>3, <2>4
  <1>6. {i \in DOMAIN h : h[i].does = "insert" /\ h[i].table = t /\ done[i].error = ""} = {i \in 1..N : Hands(i)}
    BY <1>1 DEF Hands
  <1> HIDE DEF N
  <1> QED BY <1>5, <1>6 DEF IdsGrow, done

LEMMA MappingsRead ==
    ASSUME NEW h, IsHistory(h)
    PROVE  MappingsReadBack(h, Outcomes(h), After(h))
  <1> DEFINE db == After(h)
             done == Outcomes(h)
             Ids == 1..Len(h)
             map == db.map
             Entry(p) == [app_id |-> p[1], indexer_id |-> p[2], remote |-> map[p]]
  <1>1. DOMAIN map \subseteq Ids \X Ids
    BY AfterIs
  <1>2. \A a, x : RemotesSaid(h, done, a, x) = IF <<a, x>> \in DOMAIN map THEN {map[<<a, x>>]} ELSE {}
    BY RemotesStand
  <1>3. \A S \in SUBSET Ids : S \in SUBSET Nat /\ IsFiniteSet(S)
    BY AfterIs
  <1>4. \A a, x : Entry(<<a, x>>) = MappingRow(db, a, x)
    BY DEF MappingRow
  <1> HIDE DEF db, done, Ids, map
  <1>5. MappingsSaid(h, done) = {Entry(p) : p \in DOMAIN map}
    <2>1. MappingsSaid(h, done) =
            UNION {{[app_id |-> a, indexer_id |-> x, remote |-> r] : r \in RemotesSaid(h, done, a, x)} : a, x \in Ids}
      BY DEF MappingsSaid, Ids
    <2>2. ASSUME NEW a, NEW x, NEW m
          PROVE  m \in {[app_id |-> a, indexer_id |-> x, remote |-> r] : r \in RemotesSaid(h, done, a, x)}
                   <=> <<a, x>> \in DOMAIN map /\ m = Entry(<<a, x>>)
      <3> DEFINE p == <<a, x>>
                 F(r) == [app_id |-> a, indexer_id |-> x, remote |-> r]
      <3>1. F(map[p]) = Entry(p)
        OBVIOUS
      <3>2. RemotesSaid(h, done, a, x) = IF p \in DOMAIN map THEN {map[p]} ELSE {}
        BY <1>2
      <3> HIDE DEF p, F, Entry
      <3>3. m \in {F(r) : r \in RemotesSaid(h, done, a, x)} <=> p \in DOMAIN map /\ m = Entry(p)
        BY <3>1, <3>2
      <3> QED BY <3>3 DEF p, F
    <2>3. ASSUME NEW m
          PROVE  m \in MappingsSaid(h, done) <=> \E a, x \in Ids : <<a, x>> \in DOMAIN map /\ m = Entry(<<a, x>>)
      <3> DEFINE Of(a, x) == {[app_id |-> a, indexer_id |-> x, remote |-> r] : r \in RemotesSaid(h, done, a, x)}
      <3>1. MappingsSaid(h, done) = UNION {Of(a, x) : a, x \in Ids}
        BY <2>1
      <3>2. \A a, x : m \in Of(a, x) <=> <<a, x>> \in DOMAIN map /\ m = Entry(<<a, x>>)
        BY <2>2
      <3> HIDE DEF Of, Entry
      <3>3. m \in MappingsSaid(h, done) <=> \E a, x \in Ids : m \in Of(a, x)
        BY <3>1
      <3> QED BY <3>2, <3>3
    <2>4. ASSUME NEW p \in DOMAIN map PROVE \E a, x \in Ids : p = <<a, x>>
      BY <1>1
    <2> HIDE DEF Entry
    <2> QED BY <2>3, <2>4
  <1>6. ASSUME NEW id \in Ids
        PROVE  ToSet(ForApp(db, id)) = {m \in {Entry(p) : p \in DOMAIN map} : m.app_id = id}
    <2> DEFINE S == {pair[2] : pair \in {p \in DOMAIN map : p[1] = id}}
               ids == Ascending(S)
    <2>1. S \in SUBSET Nat /\ IsFiniteSet(S)
      <3>1. S \in SUBSET Ids
        BY <1>1
      <3> HIDE DEF S
      <3> QED BY <1>3, <3>1
    <2>2. /\ \A i \in DOMAIN ids : ids[i] \in S
          /\ \A k \in S : \E i \in DOMAIN ids : ids[i] = k
      <3> HIDE DEF S
      <3> QED BY <2>1, AscendingIs
    <2>3. ForApp(db, id) = [i \in DOMAIN ids |-> Entry(<<id, ids[i]>>)]
      <3> HIDE DEF Entry
      <3> QED BY <1>4 DEF ForApp, map
    <2>4. \A k : k \in S <=> <<id, k>> \in DOMAIN map
      BY <1>1
    <2> HIDE DEF S, ids
    <2>5. ToSet(ForApp(db, id)) = {Entry(<<id, k>>) : k \in S}
      <3> DEFINE E(k) == Entry(<<id, k>>)
      <3>1. ForApp(db, id) = [i \in DOMAIN ids |-> E(ids[i])]
        BY <2>3
      <3> HIDE DEF E
      <3>2. ToSet(ForApp(db, id)) = {E(ids[i]) : i \in DOMAIN ids}
        BY <3>1 DEF ToSet
      <3>3. {E(ids[i]) : i \in DOMAIN ids} = {E(k) : k \in S}
        BY <2>2
      <3> QED BY <3>2, <3>3 DEF E
    <2>6. \A k \in S : Entry(<<id, k>>).app_id = id
      OBVIOUS
    <2>7. \A p \in DOMAIN map : Entry(p).app_id = id => \E k \in S : p = <<id, k>>
      BY <1>1, <2>4
    <2> HIDE DEF Entry
    <2> QED BY <2>4, <2>5, <2>6, <2>7
  <1>7. ASSUME NEW id \in Ids
        PROVE  ToSet(ForIndexer(db, id)) = {m \in {Entry(p) : p \in DOMAIN map} : m.indexer_id = id}
    <2> DEFINE S == {pair[1] : pair \in {p \in DOMAIN map : p[2] = id}}
               ids == Ascending(S)
    <2>1. S \in SUBSET Nat /\ IsFiniteSet(S)
      <3>1. S \in SUBSET Ids
        BY <1>1
      <3> HIDE DEF S
      <3> QED BY <1>3, <3>1
    <2>2. /\ \A i \in DOMAIN ids : ids[i] \in S
          /\ \A k \in S : \E i \in DOMAIN ids : ids[i] = k
      <3> HIDE DEF S
      <3> QED BY <2>1, AscendingIs
    <2>3. ForIndexer(db, id) = [i \in DOMAIN ids |-> Entry(<<ids[i], id>>)]
      <3> HIDE DEF Entry
      <3> QED BY <1>4 DEF ForIndexer, map
    <2>4. \A k : k \in S <=> <<k, id>> \in DOMAIN map
      BY <1>1
    <2> HIDE DEF S, ids
    <2>5. ToSet(ForIndexer(db, id)) = {Entry(<<k, id>>) : k \in S}
      <3> DEFINE E(k) == Entry(<<k, id>>)
      <3>1. ForIndexer(db, id) = [i \in DOMAIN ids |-> E(ids[i])]
        BY <2>3
      <3> HIDE DEF E
      <3>2. ToSet(ForIndexer(db, id)) = {E(ids[i]) : i \in DOMAIN ids}
        BY <3>1 DEF ToSet
      <3>3. {E(ids[i]) : i \in DOMAIN ids} = {E(k) : k \in S}
        BY <2>2
      <3> QED BY <3>2, <3>3 DEF E
    <2>6. \A k \in S : Entry(<<k, id>>).indexer_id = id
      OBVIOUS
    <2>7. \A p \in DOMAIN map : Entry(p).indexer_id = id => \E k \in S : p = <<k, id>>
      BY <1>1, <2>4
    <2> HIDE DEF Entry
    <2> QED BY <2>4, <2>5, <2>6, <2>7
  <1>8. ASSUME NEW a \in Ids, NEW x \in Ids
        PROVE  ToSet(GetMapping(db, a, x)) = RemotesSaid(h, done, a, x)
    <2> DEFINE p == <<a, x>>
    <2>1. GetMapping(db, a, x) = IF p \in DOMAIN map THEN <<map[p]>> ELSE <<>>
      BY DEF GetMapping, map
    <2>2. RemotesSaid(h, done, a, x) = IF p \in DOMAIN map THEN {map[p]} ELSE {}
      BY <1>2
    <2> HIDE DEF p
    <2> QED BY <2>1, <2>2 DEF ToSet
  <1> HIDE DEF Entry
  <1> QED BY <1>5, <1>6, <1>7, <1>8 DEF MappingsReadBack, Ids, db, done

\* Whatever statements a history runs, an indexer or an application reads back as the last statement
\* that wrote it said unless it was deleted since, a list is in the order of ids no two of which are
\* the same row twice, a mapping is there as long as both its rows and no later statement took it
\* back, and a statement that fails changes nothing (the repositories of oxidarr-db).
THEOREM TablesKeep ==
    ASSUME NEW h, IsHistory(h)
    PROVE  TablesKeepWhatIsWritten(h)
  <1>1. \A t \in TableNames : RowsReadBack(h, Outcomes(h), After(h), t) /\ IdsGrow(h, Outcomes(h), t)
    BY ListsRead, IdsRise
  <1>2. MappingsReadBack(h, Outcomes(h), After(h))
    BY MappingsRead
  <1>3. ASSUME NEW i \in DOMAIN h, Outcomes(h)[i].error # ""
        PROVE  Tables(h)[i] = Tables(h)[i - 1]
    <2>1. i \in 1..Len(h)
      BY DEF IsHistory
    <2>2. Outcomes(h)[i].db = Tables(h)[i - 1]
      BY <1>3, <2>1, HistoryRuns DEF Step
    <2> QED BY <2>1, <2>2, TablesAre
  <1> QED BY <1>1, <1>2, <1>3 DEF TablesKeepWhatIsWritten, TableNames, After

-----------------------------------------------------------------------------
(***************************************************************************)
(* A definition's category mapping.  What is used of the table of standard *)
(* categories is TableIsSearchable, a formula without variables.           *)
(***************************************************************************)
Mappings == Seq([id : Texts, cat : Texts, default : BOOLEAN])

\* What a row of a definition maps.
MapsTo(mappings, tracker, newznab) ==
    \E i \in DOMAIN mappings, r \in DOMAIN Table :
        mappings[i].cat = Table[r].name /\ tracker = mappings[i].id /\ newznab = Table[r].id

LEMMA EntriesAre ==
    ASSUME TableIsSearchable, NEW mappings \in Mappings
    PROVE  /\ Entries(mappings) \in Seq([tracker : Texts, newznab : Nat])
           /\ \A t, n : (\E e \in ToSet(Entries(mappings)) : e.tracker = t /\ e.newznab = n) <=> MapsTo(mappings, t, n)
           /\ \A e \in ToSet(Entries(mappings)) : e.tracker \in Texts /\ e.newznab \in Nat
  <1> DEFINE M == [id : Texts, cat : Texts, default : BOOLEAN]
             places == {i \in DOMAIN mappings : NamedRow(mappings[i].cat) /= {}}
             known == Picked(mappings, places)
             Found(m) == Table[CHOOSE r \in NamedRow(m.cat) : TRUE].id
             Entry(m) == [tracker |-> m.id, newznab |-> Found(m)]
             entries == Entries(mappings)
  <1>1. known \in Seq(M) /\ ToSet(known) = {mappings[i] : i \in places}
    <2>1. mappings \in Seq(M) /\ places \in SUBSET DOMAIN mappings
      BY DEF Mappings
    <2> HIDE DEF M, places
    <2> QED BY <2>1, PickedSet
  <1>2. entries = [i \in DOMAIN known |-> Entry(known[i])]
    BY DEF Entries
  <1>3. ASSUME NEW m, NEW r \in DOMAIN Table, m.cat = Table[r].name PROVE Found(m) = Table[r].id
    <2>1. NamedRow(m.cat) = {r}
      BY <1>3 DEF TableIsSearchable
    <2> QED BY <2>1
  <1>4. \A r \in DOMAIN Table : Table[r].id \in Nat
    BY DEF TableIsSearchable
  <1>5. ASSUME NEW i \in DOMAIN mappings
        PROVE  i \in places <=> \E r \in DOMAIN Table : mappings[i].cat = Table[r].name
    BY DEF NamedRow
  <1> HIDE DEF places, known, Found, entries
  <1>6. ASSUME NEW m \in ToSet(known) PROVE m \in M /\ Found(m) \in Nat
    <2>1. PICK i \in places : m = mappings[i]
      BY <1>1
    <2>2. i \in DOMAIN mappings
      BY <2>1 DEF places
    <2>3. PICK r \in DOMAIN Table : m.cat = Table[r].name
      BY <1>5, <2>1, <2>2
    <2>4. m \in M
      <3>1. mappings \in Seq(M)
        BY DEF Mappings
      <3> HIDE DEF M
      <3> QED BY <2>1, <2>2, <3>1
    <2> QED BY <1>3, <1>4, <2>3, <2>4
  <1>7. \A i \in DOMAIN known : known[i] \in ToSet(known)
    BY DEF ToSet
  <1>8. entries \in Seq([tracker : Texts, newznab : Nat])
    <2>1. \A i \in DOMAIN known : Entry(known[i]) \in [tracker : Texts, newznab : Nat]
      BY <1>6, <1>7
    <2>2. DOMAIN known = 1..Len(known) /\ Len(known) \in Nat
      BY <1>1
    <2> HIDE DEF Entry
    <2> DEFINE E == [tracker : Texts, newznab : Nat]
    <2> HIDE DEF E
    <2>3. entries \in [1..Len(known) -> E]
      BY <1>2, <2>1, <2>2 DEF E
    <2>4. entries \in Seq(E)
      BY <2>2, <2>3
    <2> QED BY <2>4 DEF E
  <1>9. ToSet(entries) = {Entry(m) : m \in ToSet(known)}
    <2> HIDE DEF Entry
    <2> QED BY <1>2 DEF ToSet
  <1>10. ASSUME NEW t, NEW n
         PROVE  (\E e \in ToSet(entries) : e.tracker = t /\ e.newznab = n) <=> MapsTo(mappings, t, n)
    <2>1. ASSUME NEW e \in ToSet(entries), e.tracker = t, e.newznab = n
          PROVE  MapsTo(mappings, t, n)
      <3>1. PICK m \in ToSet(known) : e = Entry(m)
        BY <1>9
      <3>2. PICK i \in places : m = mappings[i]
        BY <1>1
      <3>3. i \in DOMAIN mappings
        BY <3>2 DEF places
      <3>4. PICK r \in DOMAIN Table : m.cat = Table[r].name
        BY <1>5, <3>2, <3>3
      <3>5. t = m.id /\ n = Table[r].id
        BY <1>3, <2>1, <3>1, <3>4
      <3> QED BY <3>2, <3>3, <3>4, <3>5 DEF MapsTo
    <2>2. ASSUME MapsTo(mappings, t, n)
          PROVE  \E e \in ToSet(entries) : e.tracker = t /\ e.newznab = n
      <3>1. PICK i \in DOMAIN mappings, r \in DOMAIN Table :
              mappings[i].cat = Table[r].name /\ t = mappings[i].id /\ n = Table[r].id
        BY <2>2 DEF MapsTo
      <3>2. i \in places /\ mappings[i] \in ToSet(known)
        BY <1>1, <1>5, <3>1
      <3>3. Entry(mappings[i]) \in ToSet(entries)
        BY <1>9, <3>2
      <3>4. Entry(mappings[i]).tracker = t /\ Entry(mappings[i]).newznab = n
        BY <1>3, <3>1
      <3> QED BY <3>3, <3>4
    <2> QED BY <2>1, <2>2
  <1>11. \A e \in ToSet(entries) : e.tracker \in Texts /\ e.newznab \in Nat
    BY <1>6, <1>9
  <1> QED BY <1>8, <1>10, <1>11 DEF entries

LEMMA ToNewznabIs ==
    ASSUME TableIsSearchable, NEW mappings \in Mappings, NEW t, NEW n
    PROVE  n \in ToSet(ToNewznab(FromDefinition(mappings), t)) <=> MapsTo(mappings, t, n)
  <1> DEFINE entries == Entries(mappings)
             E == [tracker : Texts, newznab : Nat]
             places == {i \in DOMAIN entries : entries[i].tracker = t}
             own == Picked(entries, places)
             ids == [i \in DOMAIN own |-> own[i].newznab]
  <1>1. ToNewznab(FromDefinition(mappings), t) = Distinct(ids)
    <2>1. FromDefinition(mappings).entries = entries
      BY DEF FromDefinition
    <2> HIDE DEF entries
    <2> QED BY <2>1 DEF ToNewznab
  <1>2. entries \in Seq(E) /\ places \in SUBSET DOMAIN entries
    BY EntriesAre
  <1>3. own \in Seq(E) /\ ToSet(own) = {entries[i] : i \in places}
    <2> HIDE DEF E, places, entries
    <2> QED BY <1>2, PickedSet
  <1> HIDE DEF own
  <1>4. ids \in Seq(Nat)
    <2>1. DOMAIN own = 1..Len(own) /\ Len(own) \in Nat /\ \A i \in DOMAIN own : own[i] \in E
      <3> HIDE DEF E
      <3> QED BY <1>3
    <2>2. ids \in [1..Len(own) -> Nat]
      BY <2>1
    <2> QED BY <2>1, <2>2
  <1>5. ToSet(ids) = {m.newznab : m \in ToSet(own)}
    BY DEF ToSet
  <1>6. n \in ToSet(ids) <=> \E m \in ToSet(entries) : m.tracker = t /\ m.newznab = n
    <2>1. \A m : m \in ToSet(own) <=> m \in ToSet(entries) /\ m.tracker = t
      BY <1>3 DEF ToSet
    <2> HIDE DEF ids, entries
    <2> QED BY <1>5, <2>1
  <1> HIDE DEF ids
  <1>7. ToSet(Distinct(ids)) = ToSet(ids)
    BY <1>4, DistinctIs
  <1> QED BY <1>1, <1>6, <1>7, EntriesAre

LEMMA ToTrackerIs ==
    ASSUME TableIsSearchable, NEW mappings \in Mappings, NEW wanted, NEW t
    PROVE  /\ ToTracker(FromDefinition(mappings), wanted) \in Seq(Texts)
           /\ t \in ToSet(ToTracker(FromDefinition(mappings), wanted)) <=>
                \E n : MapsTo(mappings, t, n) /\ \E w \in wanted : w = n \/ ParentOf(n) = w
  <1> DEFINE entries == Entries(mappings)
             E == [tracker : Texts, newznab : Nat]
             places == {i \in DOMAIN entries : Matches(entries[i], wanted)}
             hits == Picked(entries, places)
             ids == [i \in DOMAIN hits |-> hits[i].tracker]
  <1>1. ToTracker(FromDefinition(mappings), wanted) = Distinct(ids)
    <2>1. FromDefinition(mappings).entries = entries
      BY DEF FromDefinition
    <2> HIDE DEF entries
    <2> QED BY <2>1 DEF ToTracker
  <1>2. entries \in Seq(E) /\ places \in SUBSET DOMAIN entries
    BY EntriesAre
  <1>3. hits \in Seq(E) /\ ToSet(hits) = {entries[i] : i \in places}
    <2> HIDE DEF E, places, entries
    <2> QED BY <1>2, PickedSet
  <1> HIDE DEF hits
  <1>4. ids \in Seq(Texts)
    <2>1. DOMAIN hits = 1..Len(hits) /\ Len(hits) \in Nat /\ \A i \in DOMAIN hits : hits[i] \in E
      <3> HIDE DEF E
      <3> QED BY <1>3
    <2>2. ids \in [1..Len(hits) -> Texts]
      BY <2>1
    <2> QED BY <2>1, <2>2
  <1>5. ToSet(ids) = {m.tracker : m \in ToSet(hits)}
    BY DEF ToSet
  <1>6. t \in ToSet(ids) <=> \E m \in ToSet(entries) : m.tracker = t /\ Matches(m, wanted)
    <2>1. \A m : m \in ToSet(hits) <=> m \in ToSet(entries) /\ Matches(m, wanted)
      BY <1>3 DEF ToSet
    <2> HIDE DEF ids, entries
    <2> QED BY <1>5, <2>1
  <1>7. (\E m \in ToSet(entries) : m.tracker = t /\ Matches(m, wanted)) <=>
          \E n : MapsTo(mappings, t, n) /\ \E w \in wanted : w = n \/ ParentOf(n) = w
    <2>1. \A n : (\E e \in ToSet(entries) : e.tracker = t /\ e.newznab = n) <=> MapsTo(mappings, t, n)
      BY EntriesAre
    <2> HIDE DEF entries
    <2> QED BY <2>1 DEF Matches
  <1> HIDE DEF ids
  <1>8. Distinct(ids) \in Seq(Texts) /\ ToSet(Distinct(ids)) = ToSet(ids)
    BY <1>4, DistinctIs
  <1> QED BY <1>1, <1>6, <1>7, <1>8

LEMMA FlaggedIs ==
    ASSUME NEW mappings \in Mappings
    PROVE  /\ ToSet(Flagged(mappings)) = {mappings[i].id : i \in {k \in DOMAIN mappings : mappings[k].default}}
           /\ Len(Flagged(mappings)) = Cardinality(ToSet(Flagged(mappings)))
  <1> DEFINE M == [id : Texts, cat : Texts, default : BOOLEAN]
             places == {i \in DOMAIN mappings : mappings[i].default}
             flagged == Picked(mappings, places)
             ids == [i \in DOMAIN flagged |-> flagged[i].id]
  <1>1. mappings \in Seq(M) /\ places \in SUBSET DOMAIN mappings
    BY DEF Mappings
  <1>2. flagged \in Seq(M) /\ ToSet(flagged) = {mappings[i] : i \in places}
    <2> HIDE DEF M, places
    <2> QED BY <1>1, PickedSet
  <1>3. Flagged(mappings) = Distinct(ids)
    BY DEF Flagged
  <1> HIDE DEF places, flagged
  <1>4. ids \in Seq(Texts)
    <2>1. DOMAIN flagged = 1..Len(flagged) /\ Len(flagged) \in Nat /\ \A i \in DOMAIN flagged : flagged[i] \in M
      <3> HIDE DEF M
      <3> QED BY <1>2
    <2>2. ids \in [1..Len(flagged) -> Texts]
      BY <2>1
    <2> QED BY <2>1, <2>2
  <1>5. ToSet(ids) = {m.id : m \in ToSet(flagged)}
    BY DEF ToSet
  <1>6. ToSet(ids) = {mappings[i].id : i \in places}
    <2> HIDE DEF ids
    <2> QED BY <1>2, <1>5
  <1> HIDE DEF ids
  <1>7. ToSet(Distinct(ids)) = ToSet(ids) /\ Len(Distinct(ids)) = Cardinality(ToSet(ids))
    BY <1>4, DistinctIs
  <1> QED BY <1>3, <1>6, <1>7 DEF places

LEMMA NewznabIdsAre ==
    ASSUME TableIsSearchable, NEW mappings \in Mappings, NEW n
    PROVE  n \in ToSet(NewznabIds(FromDefinition(mappings))) <=> \E t : MapsTo(mappings, t, n)
  <1> DEFINE entries == Entries(mappings)
             S == {entries[i].newznab : i \in DOMAIN entries}
             E == [tracker : Texts, newznab : Nat]
  <1>1. NewznabIds(FromDefinition(mappings)) = Ascending(S)
    <2>1. FromDefinition(mappings).entries = entries
      BY DEF FromDefinition
    <2> HIDE DEF entries
    <2> QED BY <2>1 DEF NewznabIds
  <1>2. entries \in Seq(E)
    BY EntriesAre
  <1>3. S = {m.newznab : m \in ToSet(entries)}
    <2> HIDE DEF entries
    <2> QED BY DEF ToSet
  <1>4. S \in SUBSET Nat
    <2>1. \A m \in ToSet(entries) : m.newznab \in Nat
      BY EntriesAre
    <2> HIDE DEF S, entries
    <2> QED BY <1>3, <2>1
  <1>5. IsFiniteSet(S)
    <2>1. IsFiniteSet(DOMAIN entries)
      <3>1. DOMAIN entries = 1..Len(entries) /\ Len(entries) \in Nat
        <4> HIDE DEF E, entries
        <4> QED BY <1>2
      <3> HIDE DEF entries
      <3> QED BY <3>1, FS_Interval
    <2> DEFINE D == DOMAIN entries
               f == [i \in D |-> entries[i].newznab]
    <2>2. f \in Surjection(D, S)
      <3> HIDE DEF entries, D
      <3>1. f \in [D -> {entries[i].newznab : i \in D}]
        OBVIOUS
      <3> QED BY <3>1 DEF Surjection, D
    <2> HIDE DEF D, f, S, entries
    <2> QED BY <2>1, <2>2, FS_Surjection DEF D
  <1>6. \A k : k \in ToSet(Ascending(S)) <=> k \in S
    <2> DEFINE A == Ascending(S)
    <2>1. (\A i \in DOMAIN A : A[i] \in S) /\ \A k \in S : \E i \in DOMAIN A : A[i] = k
      <3> HIDE DEF S
      <3> QED BY <1>4, <1>5, AscendingIs
    <2> HIDE DEF S, A
    <2>2. \A k : k \in ToSet(A) <=> k \in S
      BY <2>1 DEF ToSet
    <2> QED BY <2>2 DEF A
  <1>7. n \in S <=> \E t : MapsTo(mappings, t, n)
    <2>1. \A t : (\E e \in ToSet(entries) : e.tracker = t /\ e.newznab = n) <=> MapsTo(mappings, t, n)
      BY EntriesAre
    <2> HIDE DEF entries, S
    <2> QED BY <1>3, <2>1
  <1> HIDE DEF S
  <1> QED BY <1>1, <1>6, <1>7

LEMMA BlockIs ==
    ASSUME TableIsSearchable, NEW r \in DOMAIN Table, NEW n, n = Table[r].id, NEW w \in Int
    PROVE  (w = n \/ ParentOf(n) = w) <=> (n = w \/ (IsBlock(w) /\ SameBlock(n, w)))
  <1>1. n \in Int /\ ParentOf(n) \in Int /\ IsBlock(ParentOf(n)) /\ SameBlock(ParentOf(n), n)
    BY DEF TableIsSearchable
  <1>2. ASSUME NEW p \in Int, IsBlock(p), SameBlock(p, n), IsBlock(w), SameBlock(n, w) PROVE p = w
    BY <1>1, <1>2, SMT DEF IsBlock, SameBlock
  <1>3. SameBlock(n, ParentOf(n))
    BY <1>1, Zenon DEF SameBlock
  <1> QED BY <1>1, <1>2, <1>3

\* For any mapping a definition may have and any categories asked for: a tracker category is asked for
\* exactly when an id its releases will carry, or the block of one, is wanted; nothing else ever is; each row flagged
\* default counts once, known or not; and the ids advertised are those that are mapped, each of
\* them leading back to a tracker category (catmap.rs).
THEOREM MappingsAgree ==
    ASSUME TableIsSearchable, NEW mappings \in Mappings, NEW wanted \in SUBSET Int
    PROVE  MappingAgrees(mappings, wanted)
  <1> DEFINE map == FromDefinition(mappings)
             ids == {mappings[i].id : i \in DOMAIN mappings}
             asked == ToSet(ToTracker(map, wanted))
  <1>1. \A t, n : MapsTo(mappings, t, n) => t \in ids /\ \E r \in DOMAIN Table : n = Table[r].id
    BY DEF MapsTo
  <1>2. \A t : t \in asked <=> \E n : MapsTo(mappings, t, n) /\ \E w \in wanted : w = n \/ ParentOf(n) = w
    BY ToTrackerIs
  <1>3. \A t, n : n \in ToSet(ToNewznab(map, t)) <=> MapsTo(mappings, t, n)
    BY ToNewznabIs
  <1>4. \A n : n \in ToSet(NewznabIds(map)) <=> \E t : MapsTo(mappings, t, n)
    BY NewznabIdsAre
  <1>5. \A t, n : MapsTo(mappings, t, n) =>
          \A w \in wanted : (w = n \/ ParentOf(n) = w) <=> (n = w \/ (IsBlock(w) /\ SameBlock(n, w)))
    BY <1>1, BlockIs
  <1>6. map.defaults = Flagged(mappings)
    BY DEF FromDefinition
  <1>7. /\ ToSet(map.defaults) = {mappings[i].id : i \in {k \in DOMAIN mappings : mappings[k].default}}
        /\ Len(map.defaults) = Cardinality(ToSet(map.defaults))
    <2>1. /\ ToSet(Flagged(mappings)) = {mappings[i].id : i \in {k \in DOMAIN mappings : mappings[k].default}}
          /\ Len(Flagged(mappings)) = Cardinality(ToSet(Flagged(mappings)))
      BY FlaggedIs
    <2> HIDE DEF map
    <2> QED BY <1>6, <2>1
  <1>8. ASSUME NEW n \in ToSet(NewznabIds(map)) PROVE ToTracker(map, {n}) /= <<>>
    <2>1. PICK t : MapsTo(mappings, t, n)
      BY <1>4
    <2>2. t \in ToSet(ToTracker(map, {n}))
      BY <2>1, ToTrackerIs
    <2> HIDE DEF map
    <2> QED BY <2>2 DEF ToSet
  <1> HIDE DEF map, asked, ids
  <1>9. \A t \in ids : t \in asked <=>
            \E n \in ToSet(ToNewznab(map, t)) : \E w \in wanted : n = w \/ (IsBlock(w) /\ SameBlock(n, w))
    BY <1>2, <1>3, <1>5
  <1>10. asked \subseteq ids
    BY <1>1, <1>2
  <1>11. ToSet(NewznabIds(map)) = UNION {ToSet(ToNewznab(map, t)) : t \in ids}
    BY <1>1, <1>3, <1>4
  <1> QED BY <1>7, <1>8, <1>9, <1>10, <1>11 DEF MappingAgrees, map, asked, ids

LEMMA BlockOfIs ==
    ASSUME TableIsSearchable, NEW r \in DOMAIN Table
    PROVE  /\ BlockOf(Table[r].id) = ParentOf(Table[r].id)
           /\ ParentOf(ParentOf(Table[r].id)) = ParentOf(Table[r].id)
  <1> DEFINE id == Table[r].id
             b == ParentOf(id)
  <1>1. /\ id \in Nat /\ b \in Nat /\ b /= NoParent
        /\ SameBlock(b, id) /\ IsBlock(b) /\ \E k \in DOMAIN Table : Table[k].id = b
    BY DEF TableIsSearchable
  <1>2. ParentOf(b) \in Nat /\ SameBlock(ParentOf(b), b) /\ IsBlock(ParentOf(b))
    <2>1. PICK k \in DOMAIN Table : Table[k].id = b
      BY <1>1
    <2> QED BY <2>1 DEF TableIsSearchable
  <1> HIDE DEF id, b
  <1>3. ParentOf(b) = b
    <2>1. ASSUME NEW p \in Nat, SameBlock(p, b), IsBlock(p) PROVE p = b
      BY <1>1, <2>1, SMT DEF IsBlock, SameBlock
    <2> QED BY <1>2, <2>1
  <1>4. BlockOf(id) = b
    BY <1>1 DEF BlockOf, b
  <1> QED BY <1>3, <1>4 DEF id, b

\* What caps advertise is what a definition maps, whatever it maps: each id below the block it
\* belongs to, no other id, and no block that a search would find nothing for (torznab.rs).
THEOREM GroupsHold ==
    ASSUME TableIsSearchable, NEW mappings \in Mappings
    PROVE  GroupsHoldTheMapped(CategoryGroups(FromDefinition(mappings)), FromDefinition(mappings))
  <1> DEFINE map == FromDefinition(mappings)
             ids == ToSet(NewznabIds(map))
             groups == CategoryGroups(map)
             blocks == {BlockOf(id) : id \in ids}
  <1>1. ASSUME NEW n \in ids PROVE \E r \in DOMAIN Table : n = Table[r].id
    BY NewznabIdsAre DEF MapsTo
  <1>2. \A n \in ids : BlockOf(n) = ParentOf(n) /\ ParentOf(ParentOf(n)) = ParentOf(n)
    BY <1>1, BlockOfIs
  <1>3. DOMAIN groups = blocks /\ \A b \in blocks : groups[b] = {id \in ids : BlockOf(id) = b /\ id /= b}
    BY DEF CategoryGroups
  <1>4. ASSUME NEW b \in blocks PROVE ToTracker(map, {b}) /= <<>>
    <2>1. PICK n \in ids : b = BlockOf(n)
      OBVIOUS
    <2>2. PICK t : MapsTo(mappings, t, n)
      BY NewznabIdsAre
    <2>3. ParentOf(n) = b
      BY <1>2, <2>1
    <2>4. t \in ToSet(ToTracker(map, {b}))
      BY <2>2, <2>3, ToTrackerIs
    <2>5. ToSet(<<>>) = {}
      BY DEF ToSet
    <2> HIDE DEF map
    <2> QED BY <2>4, <2>5
  <1> HIDE DEF ids, groups
  <1>5. ids = (UNION {groups[b] : b \in blocks}) \cup (ids \cap blocks)
    <2>1. ASSUME NEW n \in ids PROVE n \in (UNION {groups[b] : b \in blocks}) \cup (ids \cap blocks)
      <3>1. BlockOf(n) \in blocks
        OBVIOUS
      <3> HIDE DEF blocks
      <3> QED BY <1>3, <3>1
    <2>2. \A b \in blocks : groups[b] \subseteq ids
      BY <1>3
    <2> HIDE DEF blocks
    <2> QED BY <2>1, <2>2
  <1>6. ASSUME NEW b \in blocks
        PROVE  /\ ParentOf(b) = b /\ (b \in ids \/ groups[b] /= {})
               /\ \A id \in groups[b] : ParentOf(id) = b
    <2>1. PICK n \in ids : b = BlockOf(n)
      OBVIOUS
    <2>2. ParentOf(b) = b
      BY <1>2, <2>1
    <2>3. b \in ids \/ n \in groups[b]
      BY <1>3, <2>1
    <2>4. \A id \in groups[b] : ParentOf(id) = b
      BY <1>2, <1>3
    <2> QED BY <2>2, <2>3, <2>4
  <1> HIDE DEF map, blocks
  <1> QED BY <1>3, <1>4, <1>5, <1>6 DEF GroupsHoldTheMapped, ids, groups, map

-----------------------------------------------------------------------------
(***************************************************************************)
(* Fields: each name once, so that the first of a name is the last.        *)
(***************************************************************************)
IsField(f) == f = Field(f.name, f.label, f.kind, f.value, f.select_options)
IsFields(fields) ==
    /\ \E n \in Nat : DOMAIN fields = 1..n
    /\ \A i \in DOMAIN fields : IsField(fields[i])
    /\ \A i, k \in DOMAIN fields : fields[i].name = fields[k].name => i = k
NamesOf(fields) == {fields[i].name : i \in DOMAIN fields}
FieldAt(fields, n) == fields[CHOOSE i \in DOMAIN fields : fields[i].name = n]

\* A field of a form is where its name is.
LEMMA FieldAtIs ==
    ASSUME NEW fields, IsFields(fields), NEW i \in DOMAIN fields
    PROVE  fields[i].name \in NamesOf(fields) /\ FieldAt(fields, fields[i].name) = fields[i]
  BY DEF IsFields, NamesOf, FieldAt

LEMMA FieldIsAt ==
    ASSUME NEW fields, IsFields(fields), NEW n \in NamesOf(fields)
    PROVE  \E i \in DOMAIN fields : fields[i].name = n /\ FieldAt(fields, n) = fields[i] /\ i \in Int
  <1>1. PICK i \in DOMAIN fields : fields[i].name = n
    BY DEF NamesOf
  <1>2. FieldAt(fields, n) = fields[i] /\ i \in Int
    BY <1>1 DEF IsFields, FieldAt
  <1> QED BY <1>1, <1>2

LEMMA FirstNamed ==
    ASSUME NEW fields, IsFields(fields), NEW n
    PROVE  /\ Named(fields, n) = {} <=> n \notin NamesOf(fields)
           /\ n \in NamesOf(fields) => First(fields, Named(fields, n)) = FieldAt(fields, n)
  <1>1. Named(fields, n) = {} <=> n \notin NamesOf(fields)
    BY DEF Named, NamesOf
  <1>2. ASSUME n \in NamesOf(fields) PROVE First(fields, Named(fields, n)) = FieldAt(fields, n)
    <2>1. PICK i \in DOMAIN fields : fields[i].name = n /\ FieldAt(fields, n) = fields[i] /\ i \in Int
      BY <1>2, FieldIsAt
    <2>2. Named(fields, n) = {i}
      BY <2>1 DEF Named, IsFields
    <2>3. (CHOOSE p \in {i} : \A q \in {i} : p <= q) = i
      BY <2>1
    <2> QED BY <2>1, <2>2, <2>3 DEF First
  <1> QED BY <1>1, <1>2

LEMMA InitialValuesAre ==
    ASSUME NEW fields, IsFields(fields)
    PROVE  InitialValues(fields) = [n \in NamesOf(fields) |-> FieldValueAsString(FieldAt(fields, n))]
  <1> DEFINE last(n) == CHOOSE i \in DOMAIN fields :
                           fields[i].name = n /\ \A k \in DOMAIN fields : fields[k].name = n => k <= i
  <1>1. ASSUME NEW n \in NamesOf(fields) PROVE fields[last(n)] = FieldAt(fields, n)
    <2>1. PICK i \in DOMAIN fields : fields[i].name = n /\ FieldAt(fields, n) = fields[i] /\ i \in Int
      BY FieldIsAt
    <2>2. \A k \in DOMAIN fields : fields[k].name = n => k = i
      BY <2>1 DEF IsFields
    <2>3. last(n) = i
      BY <2>1, <2>2
    <2> QED BY <2>1, <2>3
  <1>2. InitialValues(fields) = [n \in NamesOf(fields) |-> FieldValueAsString(fields[last(n)])]
    BY DEF InitialValues, NamesOf
  <1> HIDE DEF last
  <1> QED BY <1>1, <1>2

LEMMA SettingsAre ==
    ASSUME NEW fields, IsFields(fields), \A i \in DOMAIN fields : fields[i].value /= <<>>
    PROVE  SettingsFromFields(fields) = [n \in NamesOf(fields) |-> FieldAt(fields, n).value[1]]
  <1> DEFINE valued == {i \in DOMAIN fields : fields[i].value /= <<>>}
             last(n) == CHOOSE i \in valued :
                           fields[i].name = n /\ \A k \in valued : fields[k].name = n => k <= i
  <1>1. valued = DOMAIN fields
    OBVIOUS
  <1>2. SettingsFromFields(fields) = [n \in {fields[i].name : i \in valued} |-> fields[last(n)].value[1]]
    BY DEF SettingsFromFields
  <1>3. ASSUME NEW n \in NamesOf(fields) PROVE fields[last(n)] = FieldAt(fields, n)
    <2>1. PICK i \in DOMAIN fields : fields[i].name = n /\ FieldAt(fields, n) = fields[i] /\ i \in Int
      BY FieldIsAt
    <2>2. \A k \in DOMAIN fields : fields[k].name = n => k = i
      BY <2>1 DEF IsFields
    <2>3. last(n) = i
      BY <1>1, <2>1, <2>2
    <2> QED BY <2>1, <2>3
  <1> HIDE DEF last
  <1> QED BY <1>1, <1>2, <1>3 DEF NamesOf

LEMMA WithValue ==
    ASSUME NEW f, IsField(f), NEW v
    PROVE  LET g == [f EXCEPT !.value = v]
           IN IsField(g) /\ g.name = f.name /\ g.kind = f.kind /\ g.value = v
  BY DEF IsField, Field

\* Fields with other values: the same names and kinds, in the same order.
SameShape(other, fields) ==
    /\ DOMAIN other = DOMAIN fields
    /\ \A i \in DOMAIN fields : other[i].name = fields[i].name /\ other[i].kind = fields[i].kind

LEMMA ShapeKeeps ==
    ASSUME NEW fields, NEW other, IsFields(fields), SameShape(other, fields), \A i \in DOMAIN other : IsField(other[i])
    PROVE  /\ IsFields(other) /\ NamesOf(other) = NamesOf(fields)
           /\ \A n \in NamesOf(fields) : FieldAt(other, n).kind = FieldAt(fields, n).kind
  <1>1. IsFields(other)
    BY DEF IsFields, SameShape
  <1>2. NamesOf(other) = NamesOf(fields)
    BY DEF NamesOf, SameShape
  <1>3. ASSUME NEW n \in NamesOf(fields) PROVE FieldAt(other, n).kind = FieldAt(fields, n).kind
    <2>1. PICK i \in DOMAIN fields : fields[i].name = n /\ FieldAt(fields, n) = fields[i]
      BY FieldIsAt
    <2>2. FieldAt(other, other[i].name) = other[i]
      BY <1>1, FieldAtIs DEF SameShape
    <2> QED BY <2>1, <2>2 DEF SameShape
  <1> QED BY <1>1, <1>2, <1>3

\* What is read of a resource that was built from fields and texts.
LEMMA SavedAs ==
    ASSUME NEW fields, IsFields(fields), NEW values, NEW resource, NEW name, NEW enable, NEW priority
    PROVE  SettingsFromFields(BuildIndexerResource(resource, name, enable, priority, fields, values).fields)
             = [n \in NamesOf(fields) |-> ValueForField(FieldAt(fields, n).kind, Given(values, n))]
  <1> DEFINE value(i) == ValueForField(fields[i].kind, Given(values, fields[i].name))
             built == [i \in DOMAIN fields |-> [fields[i] EXCEPT !.value = <<value(i)>>]]
  <1>1. BuildIndexerResource(resource, name, enable, priority, fields, values).fields = built
    BY DEF BuildIndexerResource, IndexerResource
  <1> HIDE DEF value
  <1>2. \A i \in DOMAIN fields : IsField(built[i]) /\ built[i].name = fields[i].name /\ built[i].kind = fields[i].kind
                                 /\ built[i].value = <<value(i)>>
    BY WithValue DEF IsFields
  <1>3. DOMAIN built = DOMAIN fields
    OBVIOUS
  <1> HIDE DEF built
  <1>4. SameShape(built, fields)
    BY <1>2, <1>3 DEF SameShape
  <1>5. IsFields(built) /\ NamesOf(built) = NamesOf(fields)
    BY <1>2, <1>3, <1>4, ShapeKeeps
  <1>6. SettingsFromFields(built) = [n \in NamesOf(fields) |-> FieldAt(built, n).value[1]]
    <2>1. \A i \in DOMAIN built : built[i].value /= <<>>
      BY <1>2, <1>3
    <2> QED BY <1>5, <2>1, SettingsAre
  <1>7. ASSUME NEW n \in NamesOf(fields)
        PROVE  FieldAt(built, n).value[1] = ValueForField(FieldAt(fields, n).kind, Given(values, n))
    <2>1. PICK i \in DOMAIN fields : fields[i].name = n /\ FieldAt(fields, n) = fields[i]
      BY FieldIsAt
    <2>2. FieldAt(built, built[i].name) = built[i]
      BY <1>3, <1>5, FieldAtIs
    <2>3. FieldAt(built, n).value[1] = value(i)
      BY <1>2, <2>1, <2>2
    <2> QED BY <2>1, <2>3 DEF value
  <1> QED BY <1>1, <1>6, <1>7

-----------------------------------------------------------------------------
(***************************************************************************)
(* What a form sends.                                                      *)
(***************************************************************************)

\* What was typed, a blank secret aside; else what the field holds.
FormText(fields, typed, n) ==
    IF n \in DOMAIN typed /\ (FieldAt(fields, n).kind = "password" => typed[n] /= "") THEN typed[n]
    ELSE FieldValueAsString(FieldAt(fields, n))

LEMMA SecretIs ==
    ASSUME NEW schema, NEW fields, IsFields(schema), SameShape(fields, schema), NEW i \in DOMAIN fields
    PROVE  IsPasswordField(fields[i], schema) <=> fields[i].kind = "password"
  <1>1. ASSUME NEW k \in DOMAIN schema, schema[k].name = fields[i].name, schema[k].kind = "password"
        PROVE  fields[i].kind = "password"
    <2>1. k = i
      BY <1>1 DEF SameShape, IsFields
    <2> QED BY <1>1, <2>1 DEF SameShape
  <1> QED BY <1>1 DEF IsPasswordField

LEMMA ShownIs ==
    ASSUME NEW schema, NEW fields, IsFields(schema), IsFields(fields), SameShape(fields, schema), NEW n \in NamesOf(fields)
    PROVE  /\ n \in DOMAIN InitialFormValues(fields, schema)
           /\ InitialFormValues(fields, schema)[n] =
                IF FieldAt(fields, n).kind = "password" THEN "" ELSE FieldValueAsString(FieldAt(fields, n))
  <1> DEFINE initial == InitialValues(fields)
             secret == {fields[i].name : i \in {k \in DOMAIN fields : IsPasswordField(fields[k], schema)}}
  <1>1. initial = [m \in NamesOf(fields) |-> FieldValueAsString(FieldAt(fields, m))]
    BY InitialValuesAre
  <1>2. InitialFormValues(fields, schema) = [m \in DOMAIN initial |-> IF m \in secret THEN "" ELSE initial[m]]
    BY DEF InitialFormValues
  <1>3. n \in secret <=> FieldAt(fields, n).kind = "password"
    <2>1. PICK i \in DOMAIN fields : fields[i].name = n /\ FieldAt(fields, n) = fields[i]
      BY FieldIsAt
    <2>2. \A k \in DOMAIN fields : fields[k].name = n => k = i
      BY <2>1 DEF IsFields
    <2>3. n \in secret <=> IsPasswordField(fields[i], schema)
      BY <2>1, <2>2
    <2> QED BY <2>1, <2>3, SecretIs
  <1> HIDE DEF initial, secret
  <1> QED BY <1>1, <1>2, <1>3

LEMMA DraftIs ==
    ASSUME NEW schema, NEW fields, IsFields(schema), IsFields(fields), SameShape(fields, schema),
           NEW typed, NEW n \in NamesOf(fields)
    PROVE  Given(PreserveBlankPasswords(fields, Overlaid(typed, InitialFormValues(fields, schema))), n)
             = FormText(fields, typed, n)
  <1> DEFINE shown == InitialFormValues(fields, schema)
             draft == Overlaid(typed, shown)
             restored == {i \in DOMAIN fields : /\ IsPasswordField(fields[i], fields)
                                                /\ Given(draft, fields[i].name) = ""
                                                /\ FieldValueAsString(fields[i]) /= ""}
             back == [m \in {fields[i].name : i \in restored} |->
                         FieldValueAsString(First(fields, {i \in restored : fields[i].name = m}))]
             text == FieldValueAsString(FieldAt(fields, n))
             secret == FieldAt(fields, n).kind = "password"
  <1>1. PICK i \in DOMAIN fields : fields[i].name = n /\ FieldAt(fields, n) = fields[i] /\ i \in Int
    BY FieldIsAt
  <1>2. n \in DOMAIN shown /\ shown[n] = IF secret THEN "" ELSE text
    BY ShownIs
  <1>3. PreserveBlankPasswords(fields, draft) = Overlaid(back, draft)
    BY DEF PreserveBlankPasswords
  <1>4. SameShape(fields, fields)
    BY DEF SameShape
  <1>5. i \in restored <=> secret /\ Given(draft, n) = "" /\ text /= ""
    BY <1>1, <1>4, SecretIs
  <1>6. n \in DOMAIN back <=> i \in restored
    BY <1>1 DEF IsFields
  <1>7. ASSUME i \in restored PROVE back[n] = text
    <2>1. {k \in restored : fields[k].name = n} = {i}
      BY <1>1, <1>7 DEF IsFields
    <2>2. First(fields, {i}) = fields[i]
      <3>1. (CHOOSE p \in {i} : \A q \in {i} : p <= q) = i
        BY <1>1
      <3> QED BY <3>1 DEF First
    <2>3. n \in DOMAIN back
      BY <1>6, <1>7
    <2> HIDE DEF restored
    <2> QED BY <1>1, <2>1, <2>2, <2>3
  <1> HIDE DEF shown, restored, back
  <1>8. Given(draft, n) = IF n \in DOMAIN typed THEN typed[n] ELSE shown[n]
    BY <1>2 DEF Given, Overlaid
  <1>9. n \in DOMAIN draft /\ Given(draft, n) = draft[n]
    BY <1>2 DEF Given, Overlaid
  <1> HIDE DEF draft
  <1>10. Given(Overlaid(back, draft), n) = IF i \in restored THEN text ELSE draft[n]
    BY <1>6, <1>7, <1>9 DEF Given, Overlaid
  <1> HIDE DEF text, secret
  <1>11. FormText(fields, typed, n) = IF n \in DOMAIN typed /\ (secret => typed[n] /= "") THEN typed[n] ELSE text
    BY DEF FormText, text, secret
  <1>12. (IF i \in restored THEN text ELSE draft[n])
           = IF n \in DOMAIN typed /\ (secret => typed[n] /= "") THEN typed[n] ELSE text
    BY <1>2, <1>5, <1>8, <1>9, Zenon
  <1> QED BY <1>3, <1>10, <1>11, <1>12 DEF draft, shown

\* The schema's fields with what is stored.
LEMMA MergedIs ==
    ASSUME NEW schema, NEW stored, IsFields(schema), IsFields(stored),
           \A i \in DOMAIN stored : stored[i].value /= <<>>
    PROVE  LET merged == MergeFieldMetadata(schema, stored)
           IN /\ IsFields(merged) /\ SameShape(merged, schema)
              /\ \A n \in NamesOf(schema) : FieldAt(merged, n).value =
                    IF n \in NamesOf(stored) THEN FieldAt(stored, n).value ELSE FieldAt(schema, n).value
  <1> DEFINE merged == MergeFieldMetadata(schema, stored)
             value(i) == IF schema[i].name \in NamesOf(stored) THEN FieldAt(stored, schema[i].name).value ELSE schema[i].value
  <1>1. ASSUME NEW i \in DOMAIN schema
        PROVE  /\ IsField(merged[i]) /\ merged[i].name = schema[i].name /\ merged[i].kind = schema[i].kind
               /\ merged[i].value = value(i)
    <2> DEFINE own == Named(stored, schema[i].name)
               there == First(stored, own).value
    <2>1. merged[i] = IF own = {} \/ there = <<>> THEN schema[i] ELSE [schema[i] EXCEPT !.value = there]
      BY DEF MergeFieldMetadata
    <2>2. IsField(schema[i])
      BY DEF IsFields
    <2>3. /\ own = {} <=> schema[i].name \notin NamesOf(stored)
          /\ own # {} => there = FieldAt(stored, schema[i].name).value
      BY FirstNamed
    <2>4. own # {} => there /= <<>>
      <3>1. ASSUME own # {} PROVE FieldAt(stored, schema[i].name).value /= <<>>
        BY <2>3, <3>1, FieldIsAt
      <3> QED BY <2>3, <3>1
    <2> HIDE DEF own, there, merged
    <2>5. CASE own = {}
      BY <2>1, <2>2, <2>3, <2>5
    <2>6. CASE own # {}
      <3>1. merged[i] = [schema[i] EXCEPT !.value = there]
        BY <2>1, <2>4, <2>6
      <3>2. /\ IsField(merged[i]) /\ merged[i].name = schema[i].name /\ merged[i].kind = schema[i].kind
            /\ merged[i].value = there
        BY <2>2, <3>1, WithValue
      <3> QED BY <2>3, <2>6, <3>2
    <2> QED BY <2>5, <2>6
  <1>2. DOMAIN merged = DOMAIN schema
    BY DEF MergeFieldMetadata
  <1> HIDE DEF merged, value
  <1>3. SameShape(merged, schema)
    BY <1>1, <1>2 DEF SameShape
  <1>4. IsFields(merged)
    BY <1>1, <1>2, <1>3, ShapeKeeps
  <1>5. ASSUME NEW n \in NamesOf(schema)
        PROVE  FieldAt(merged, n).value =
                    IF n \in NamesOf(stored) THEN FieldAt(stored, n).value ELSE FieldAt(schema, n).value
    <2>1. PICK i \in DOMAIN schema : schema[i].name = n /\ FieldAt(schema, n) = schema[i]
      BY FieldIsAt
    <2>2. FieldAt(merged, merged[i].name) = merged[i]
      BY <1>2, <1>4, FieldAtIs
    <2>3. FieldAt(merged, n).value = value(i)
      BY <1>1, <2>1, <2>2
    <2> QED BY <2>1, <2>3 DEF value
  <1> QED BY <1>3, <1>4, <1>5 DEF merged

-----------------------------------------------------------------------------
(***************************************************************************)
(* A row's settings as the fields of its resource.                         *)
(***************************************************************************)
IsJson(v) == v = Str(v.is) \/ v = Bool(v.is = "true") \/ v = Num(v.is)

\* The order of a JSON map has every name of the settings, each once.
KeysAreOrdered(settings) ==
    /\ KeyOrder \in Seq(Texts)
    /\ \A i, k \in DOMAIN KeyOrder : KeyOrder[i] = KeyOrder[k] => i = k
    /\ \A n \in DOMAIN settings : \E i \in DOMAIN KeyOrder : KeyOrder[i] = n

LEMMA FieldsOfSettings ==
    ASSUME NEW settings, KeysAreOrdered(settings)
    PROVE  LET fields == FieldsFromSettings(settings)
           IN /\ IsFields(fields) /\ NamesOf(fields) = DOMAIN settings
              /\ \A i \in DOMAIN fields : fields[i].value /= <<>>
              /\ \A n \in DOMAIN settings :
                    /\ FieldAt(fields, n).value = <<settings[n]>>
                    /\ FieldAt(fields, n).kind = IF settings[n].json = "bool" THEN "checkbox" ELSE "textbox"
  <1> DEFINE places == {i \in DOMAIN KeyOrder : KeyOrder[i] \in DOMAIN settings}
             names == Picked(KeyOrder, places)
             kind(n) == IF settings[n].json = "bool" THEN "checkbox" ELSE "textbox"
             fields == FieldsFromSettings(settings)
             Held == {KeyOrder[p] : p \in places}
  <1>1. KeyOrder \in Seq(Texts)
    BY DEF KeysAreOrdered
  <1>2. \A i \in DOMAIN KeyOrder : i \in Int
    BY <1>1
  <1>3. /\ names \in Seq(Held)
        /\ DOMAIN names = 1..Cardinality(places)
        /\ \A p \in places : \E i \in DOMAIN names : names[i] = KeyOrder[p]
        /\ KeepsOrder(KeyOrder, places, names)
    <2>1. places \in SUBSET DOMAIN KeyOrder
      OBVIOUS
    <2> HIDE DEF places
    <2> QED BY <1>1, <2>1, PickedIs
  <1>4. fields = [i \in DOMAIN names |-> Field(names[i], names[i], kind(names[i]), <<settings[names[i]]>>, <<>>)]
    BY DEF FieldsFromSettings
  <1>5. \E n \in Nat : DOMAIN names = 1..n
    <2> HIDE DEF names, places, Held
    <2>1. DOMAIN names = 1..Len(names) /\ Len(names) \in Nat
      BY <1>3
    <2> QED BY <2>1
  <1>6. \A i \in DOMAIN names : names[i] \in DOMAIN settings
    <2>1. \A m \in Held : m \in DOMAIN settings
      OBVIOUS
    <2> HIDE DEF names, places, Held
    <2>2. names \in Seq(Held)
      BY <1>3
    <2>3. \A i \in DOMAIN names : names[i] \in Held
      BY <2>2
    <2> QED BY <2>1, <2>3
  <1>7. \A n \in DOMAIN settings : \E i \in DOMAIN names : names[i] = n
    <2>1. ASSUME NEW n \in DOMAIN settings PROVE \E p \in places : KeyOrder[p] = n
      BY DEF KeysAreOrdered
    <2> HIDE DEF places, names
    <2> QED BY <1>3, <2>1
  <1>8. \A i, k \in DOMAIN names : i < k => names[i] /= names[k]
    <2>1. \A i, k \in DOMAIN names : i < k => \E p, q \in places : p < q /\ names[i] = KeyOrder[p] /\ names[k] = KeyOrder[q]
      BY <1>3 DEF KeepsOrder
    <2>2. \A p, q \in places : p < q => KeyOrder[p] /= KeyOrder[q]
      BY <1>2 DEF KeysAreOrdered
    <2> HIDE DEF places, names
    <2> QED BY <2>1, <2>2
  <1> HIDE DEF names, fields, places, Held
  <1>9. \A i, k \in DOMAIN names : names[i] = names[k] => i = k
    <2>1. \A i \in DOMAIN names : i \in Int
      BY <1>5
    <2> QED BY <1>8, <2>1
  <1> HIDE DEF kind
  <1>10. \A i \in DOMAIN fields : /\ IsField(fields[i]) /\ fields[i].name = names[i] /\ fields[i].kind = kind(names[i])
                                  /\ fields[i].value = <<settings[names[i]]>>
    BY <1>4 DEF IsField, Field
  <1>11. DOMAIN fields = DOMAIN names
    BY <1>4
  <1>12. IsFields(fields)
    BY <1>5, <1>9, <1>10, <1>11 DEF IsFields
  <1>13. NamesOf(fields) = DOMAIN settings
    <2>1. \A i \in DOMAIN fields : fields[i].name \in DOMAIN settings
      BY <1>6, <1>10, <1>11
    <2>2. \A n \in DOMAIN settings : \E i \in DOMAIN fields : fields[i].name = n
      BY <1>7, <1>10, <1>11
    <2> QED BY <2>1, <2>2, Zenon DEF NamesOf
  <1>14. \A i \in DOMAIN fields : fields[i].value /= <<>>
    BY <1>10
  <1>15. ASSUME NEW n \in DOMAIN settings
         PROVE  FieldAt(fields, n).value = <<settings[n]>> /\ FieldAt(fields, n).kind = kind(n)
    <2>1. PICK i \in DOMAIN fields : fields[i].name = n /\ FieldAt(fields, n) = fields[i]
      BY <1>12, <1>13, FieldIsAt
    <2> QED BY <1>10, <2>1
  <1> QED BY <1>12, <1>13, <1>14, <1>15 DEF fields, kind

LEMMA JsonIs ==
    ASSUME NEW v, IsJson(v)
    PROVE  /\ v = [json |-> v.json, is |-> v.is]
           /\ v.json = "bool" => v.is \in {"true", "false"}
           /\ v.json \in {"bool", "string", "number"}
           /\ \A t : Str(t).is = t /\ Str(t).json = "string"
           /\ \A b : Bool(b).json = "bool" /\ Bool(b).is = IF b THEN "true" ELSE "false"
  BY DEF IsJson, Str, Bool, Num

LEMMA ValueShows ==
    ASSUME NEW field, NEW v, field.value = <<v>>
    PROVE  FieldValueAsString(field) = v.is
  <1>1. field.value /= <<>> /\ field.value[1] = v
    OBVIOUS
  <1> QED BY <1>1, Zenon DEF FieldValueAsString

\* A value that is shown by its own kind of control and taken back.
LEMMA BackAgain ==
    ASSUME NEW v, IsJson(v), NEW kind, kind = IF v.json = "bool" THEN "checkbox" ELSE "textbox"
    PROVE  /\ ValueForField(kind, v.is).is = v.is
           /\ v.json /= "number" => ValueForField(kind, v.is) = v
  <1>1. CASE v.json = "bool"
    <2>1. ValueForField(kind, v.is) = Bool(v.is = "true")
      BY <1>1 DEF ValueForField
    <2>2. v.is \in {"true", "false"} /\ v = [json |-> v.json, is |-> v.is]
      BY <1>1, JsonIs
    <2>3. Bool(v.is = "true") = [json |-> "bool", is |-> v.is]
      BY <2>2 DEF Bool
    <2> QED BY <1>1, <2>1, <2>2, <2>3
  <1>2. CASE v.json # "bool"
    <2>1. ValueForField(kind, v.is) = [json |-> "string", is |-> v.is]
      BY <1>2 DEF ValueForField, Str
    <2>2. v.json \in {"string", "number"} /\ v = [json |-> v.json, is |-> v.is]
      BY <1>2, JsonIs
    <2> QED BY <2>1, <2>2
  <1> QED BY <1>1, <1>2

\* A row of the tables, as the handlers hold it.
ConfiguredRow(row) ==
    /\ row = [ok |-> row.ok, id |-> row.id, name |-> row.name, definition_id |-> row.definition_id, kind |-> row.kind,
              enabled |-> row.enabled, settings |-> row.settings, priority |-> row.priority]
    /\ row.kind \in Implementations /\ row.enabled \in BOOLEAN
    /\ KeysAreOrdered(row.settings) /\ row.settings = [n \in DOMAIN row.settings |-> row.settings[n]]
    /\ \A n \in DOMAIN row.settings : IsJson(row.settings[n])

\* The list sends a row's own fields back.
LEMMA SentBack ==
    ASSUME NEW row, ConfiguredRow(row), NEW enable, NEW name, NEW priority
    PROVE  LET resource == RowToResource(row)
               sent == BuildIndexerResource(resource, name, enable, priority, resource.fields, InitialValues(resource.fields))
               settings == SettingsFromFields(sent.fields)
           IN /\ SettingsFromJson(settings) = SettingsFromJson(row.settings)
              /\ DOMAIN settings = DOMAIN row.settings
              /\ (\A n \in DOMAIN row.settings : row.settings[n].json /= "number") => settings = row.settings
  <1> DEFINE resource == RowToResource(row)
             fields == FieldsFromSettings(row.settings)
             sent == BuildIndexerResource(resource, name, enable, priority, resource.fields, InitialValues(resource.fields))
             settings == SettingsFromFields(sent.fields)
             stored == row.settings
             kind(n) == IF stored[n].json = "bool" THEN "checkbox" ELSE "textbox"
  <1>1. resource.fields = fields
    BY DEF RowToResource, IndexerResource
  <1>2. /\ IsFields(fields) /\ NamesOf(fields) = DOMAIN stored
        /\ \A n \in DOMAIN stored : FieldAt(fields, n).value = <<stored[n]>> /\ FieldAt(fields, n).kind = kind(n)
    BY FieldsOfSettings DEF ConfiguredRow
  <1> HIDE DEF fields, resource, kind
  <1>3. settings = [n \in DOMAIN stored |-> ValueForField(FieldAt(fields, n).kind, Given(InitialValues(fields), n))]
    BY <1>1, <1>2, SavedAs
  <1>4. ASSUME NEW n \in DOMAIN stored PROVE Given(InitialValues(fields), n) = stored[n].is
    <2>1. InitialValues(fields) = [m \in DOMAIN stored |-> FieldValueAsString(FieldAt(fields, m))]
      BY <1>2, InitialValuesAre
    <2>2. FieldValueAsString(FieldAt(fields, n)) = stored[n].is
      <3>1. FieldAt(fields, n).value = <<stored[n]>>
        BY <1>2
      <3> QED BY <3>1, ValueShows
    <2> QED BY <2>1, <2>2 DEF Given
  <1> HIDE DEF settings, sent
  <1>5. settings = [n \in DOMAIN stored |-> ValueForField(kind(n), stored[n].is)]
    BY <1>2, <1>3, <1>4
  <1>6. \A n \in DOMAIN stored : /\ ValueForField(kind(n), stored[n].is).is = stored[n].is
                                 /\ stored[n].json /= "number" => ValueForField(kind(n), stored[n].is) = stored[n]
    BY BackAgain DEF kind, ConfiguredRow
  <1>7. SettingsFromJson(settings) = SettingsFromJson(stored)
    BY <1>5, <1>6 DEF SettingsFromJson
  <1>8. (\A n \in DOMAIN stored : stored[n].json /= "number") => settings = stored
    BY <1>5, <1>6 DEF ConfiguredRow
  <1> QED BY <1>5, <1>7, <1>8 DEF settings, sent, resource

\* The members of a row, one by one.
RowOf(ok, id, name, definition, kind, enabled, settings, priority) ==
    [ok |-> ok, id |-> id, name |-> name, definition_id |-> definition, kind |-> kind, enabled |-> enabled,
     settings |-> settings, priority |-> priority]

LEMMA Enabling ==
    ASSUME NEW ok, NEW id, NEW name, NEW definition, NEW kind, NEW enabled, NEW settings, NEW priority, NEW e, NEW row,
           row = RowOf(ok, id, name, definition, kind, enabled, settings, priority)
    PROVE  [row EXCEPT !.enabled = e] = RowOf(ok, id, name, definition, kind, e, settings, priority)
  BY DEF RowOf

LEMMA Resetting ==
    ASSUME NEW ok, NEW id, NEW name, NEW definition, NEW kind, NEW enabled, NEW settings, NEW priority, NEW s, NEW row,
           row = RowOf(ok, id, name, definition, kind, enabled, settings, priority)
    PROVE  [row EXCEPT !.settings = s] = RowOf(ok, id, name, definition, kind, enabled, s, priority)
  BY DEF RowOf

\* Whatever the settings of a row: its switch saves the row switched, each setting with the text it had, and the
\* Test of the list asks what a search of the row asks, a number in the settings of a feed row aside
\* (screens/indexers.rs, api/indexers.rs).
THEOREM ListActs ==
    ASSUME NEW row, ConfiguredRow(row), row.ok = TRUE, NEW defs
    PROVE  ListActsOnTheRow(row, defs)
  <1> DEFINE resource == RowToResource(row)
             initial == InitialValues(resource.fields)
             switched == BuildIndexerResource(resource, resource.name, ~resource.enable, resource.priority, resource.fields, initial)
             tested == BuildIndexerResource(resource, resource.name, resource.enable, resource.priority, resource.fields, initial)
             toggled == BuildNewIndexer(switched, defs)
             settings == SettingsFromFields(tested.fields)
             numbers == \E n \in DOMAIN row.settings : row.settings[n].json = "number"
  <1>1. /\ resource.name = row.name /\ resource.id = row.id /\ resource.enable = row.enabled /\ resource.priority = row.priority
        /\ resource.implementation = row.kind /\ resource.definition_name = row.definition_id
    BY DEF RowToResource, IndexerResource
  <1>2. ToggleEnable(resource) = switched /\ BuildResourceForTest(resource) = tested
    BY DEF ToggleEnable, BuildResourceForTest
  <1>3. /\ SettingsFromJson(SettingsFromFields(switched.fields)) = SettingsFromJson(row.settings)
        /\ SettingsFromJson(settings) = SettingsFromJson(row.settings)
        /\ ~numbers => settings = row.settings
    BY SentBack
  <1> HIDE DEF initial, settings, numbers
  <1>4. ASSUME toggled.ok
        PROVE  /\ SettingsFromJson(toggled.settings) = SettingsFromJson(row.settings)
               /\ toggled = [row EXCEPT !.enabled = ~@, !.settings = toggled.settings]
    <2>1. toggled = RowOf(row.ok, row.id, row.name, row.definition_id, row.kind, ~row.enabled,
                          SettingsFromFields(switched.fields), row.priority)
      <3>1. /\ switched.id = row.id /\ switched.name = row.name /\ switched.definition_name = row.definition_id
            /\ switched.implementation = row.kind /\ switched.enable = ~row.enabled /\ switched.priority = row.priority
        BY <1>1 DEF BuildIndexerResource, IndexerResource
      <3> HIDE DEF switched
      <3>2. toggled # Rejected
        BY <1>4 DEF Rejected
      <3> QED BY <3>1, <3>2 DEF BuildNewIndexer, RowOf
    <2> HIDE DEF toggled, switched
    <2>2. row = RowOf(row.ok, row.id, row.name, row.definition_id, row.kind, row.enabled, row.settings, row.priority)
      BY DEF ConfiguredRow, RowOf
    <2>3. toggled.settings = SettingsFromFields(switched.fields)
      BY <2>1 DEF RowOf
    <2>4. toggled = [row EXCEPT !.enabled = ~@, !.settings = toggled.settings]
      <3>1. [row EXCEPT !.enabled = ~row.enabled, !.settings = toggled.settings]
              = RowOf(row.ok, row.id, row.name, row.definition_id, row.kind, ~row.enabled, toggled.settings, row.priority)
        <4> DEFINE ok == row.ok   id == row.id   name == row.name   definition == row.definition_id   kind == row.kind
                   enabled == row.enabled   stored == row.settings   priority == row.priority   new == toggled.settings
                   on == ~row.enabled
        <4>1. row = RowOf(ok, id, name, definition, kind, enabled, stored, priority)
          BY <2>2
        <4> HIDE DEF ok, id, name, definition, kind, enabled, stored, priority, new, on
        <4> DEFINE turned == [row EXCEPT !.enabled = on]
        <4>2. turned = RowOf(ok, id, name, definition, kind, on, stored, priority)
          BY <4>1, Enabling
        <4>3. [row EXCEPT !.enabled = on, !.settings = new] = [turned EXCEPT !.settings = new]
          OBVIOUS
        <4> HIDE DEF turned
        <4>4. [turned EXCEPT !.settings = new] = RowOf(ok, id, name, definition, kind, on, new, priority)
          BY <4>2, Resetting
        <4> QED BY <4>3, <4>4, Zenon DEF ok, id, name, definition, kind, enabled, stored, priority, new, on
      <3> QED BY <2>1, <2>3, <3>1, Zenon
    <2> QED BY <1>3, <2>3, <2>4
  <1>5. ASSUME ~(row.kind /= "Cardigann" /\ numbers)
        PROVE  RunTest(tested, defs) = SearchRow(row, defs)
    <2>1. tested.implementation = row.kind /\ tested.definition_name = row.definition_id
      BY <1>1 DEF BuildIndexerResource, IndexerResource
    <2>2. row.kind \in Implementations
      BY DEF ConfiguredRow
    <2> HIDE DEF tested
    <2>3. RunTest(tested, defs) =
            IF row.kind /= "Cardigann" THEN Api(row.kind, settings)
            ELSE IF row.definition_id \in defs THEN Engine(row.definition_id, settings) ELSE Rejected
      BY <2>1, <2>2 DEF RunTest, settings
    <2>4. SearchRow(row, defs) =
            IF row.kind /= "Cardigann" THEN Api(row.kind, row.settings)
            ELSE IF row.definition_id \in defs THEN Engine(row.definition_id, row.settings) ELSE Rejected
      BY DEF SearchRow
    <2>5. Engine(row.definition_id, settings) = Engine(row.definition_id, row.settings)
      BY <1>3 DEF Engine
    <2> QED BY <1>3, <1>5, <2>3, <2>4, <2>5
  <1> QED BY <1>2, <1>4, <1>5 DEF ListActsOnTheRow, numbers

-----------------------------------------------------------------------------
(***************************************************************************)
(* The form of an application.                                             *)
(***************************************************************************)

BothFields(base, key) == <<TextField("baseUrl", base), TextField("apiKey", key)>>
\* What is read of a field, the empty text being none.
TextRead(v) == IF v = "" THEN <<>> ELSE <<v>>

LEMMA TextReadIs ==
    ASSUME NEW v
    PROVE  /\ TextRead(v) = <<>> <=> v = ""
           /\ v # "" => TextRead(v)[1] = v /\ ToSet(TextRead(v)) = {v}
  <1>1. CASE v = ""
    BY <1>1 DEF TextRead
  <1>2. CASE v # ""
    <2>1. TextRead(v) = <<v>>
      BY <1>2 DEF TextRead
    <2>2. <<v>> # <<>> /\ <<v>>[1] = v /\ DOMAIN <<v>> = 1..1
      OBVIOUS
    <2>3. {<<v>>[i] : i \in 1..1} = {v}
      BY <2>2
    <2>4. ToSet(<<v>>) = {v}
      BY <2>2, <2>3, Zenon DEF ToSet
    <2> QED BY <1>2, <2>1, <2>2, <2>4
  <1> QED BY <1>1, <1>2

\* What the server and the form read of the two fields.
LEMMA TwoFields ==
    ASSUME NEW base, NEW key, NEW fields, fields = BothFields(base, key)
    PROVE  /\ RequiredField(fields, "baseUrl") = TextRead(base) /\ FieldOf(fields, "baseUrl") = base
           /\ RequiredField(fields, "apiKey") = TextRead(key) /\ FieldOf(fields, "apiKey") = key
  <1>1. /\ DOMAIN fields = 1..2 /\ fields[1] = TextField("baseUrl", base) /\ fields[2] = TextField("apiKey", key)
    BY DEF BothFields
  <1>2. \A n, v : /\ TextField(n, v).name = n /\ TextField(n, v).value = <<Str(v)>>
                  /\ IsField(TextField(n, v))
    BY DEF TextField, Field, IsField
  <1>3. IsFields(fields)
    <2>1. "baseUrl" # "apiKey"
      OBVIOUS
    <2>2. \A i \in DOMAIN fields : i = 1 \/ i = 2
      BY <1>1
    <2>3. \A i, k \in DOMAIN fields : fields[i].name = fields[k].name => i = k
      BY <1>1, <1>2, <2>1, <2>2
    <2>4. \A i \in DOMAIN fields : IsField(fields[i])
      BY <1>1, <1>2, <2>2
    <2> QED BY <1>1, <2>3, <2>4 DEF IsFields
  <1>4. \A i \in 1..2 : fields[i].name \in NamesOf(fields) /\ FieldAt(fields, fields[i].name) = fields[i]
    BY <1>1, <1>3, FieldAtIs
  <1>5. ASSUME NEW i \in 1..2
        PROVE  Named(fields, fields[i].name) # {} /\ First(fields, Named(fields, fields[i].name)) = fields[i]
    BY <1>3, <1>4, FirstNamed
  <1>6. ASSUME NEW n, NEW v, NEW i \in 1..2, fields[i] = TextField(n, v)
        PROVE  RequiredField(fields, n) = TextRead(v) /\ FieldOf(fields, n) = v
    <2>1. Named(fields, n) # {} /\ First(fields, Named(fields, n)) = TextField(n, v)
      BY <1>2, <1>5, <1>6
    <2>2. <<Str(v)>> /= <<>> /\ <<Str(v)>>[1] = Str(v) /\ Str(v).json = "string" /\ Str(v).is = v
      BY DEF Str
    <2>3. RequiredField(fields, n) = TextRead(v)
      <3> DEFINE value == IF Named(fields, n) = {} THEN <<>> ELSE First(fields, Named(fields, n)).value
      <3>1. value = <<Str(v)>>
        BY <1>2, <2>1
      <3>2. RequiredField(fields, n)
              = IF value = <<>> \/ value[1].json /= "string" \/ value[1].is = "" THEN <<>> ELSE <<value[1].is>>
        BY DEF RequiredField
      <3> HIDE DEF value
      <3> QED BY <2>2, <3>1, <3>2 DEF TextRead
    <2>4. FieldOf(fields, n) = v
      <3>1. FieldOf(fields, n) = FieldValueAsString(TextField(n, v))
        BY <2>1 DEF FieldOf
      <3> QED BY <1>2, <2>2, <3>1, ValueShows
    <2> QED BY <2>3, <2>4
  <1>7. RequiredField(fields, "baseUrl") = TextRead(base) /\ FieldOf(fields, "baseUrl") = base
    BY <1>1, <1>6
  <1>8. RequiredField(fields, "apiKey") = TextRead(key) /\ FieldOf(fields, "apiKey") = key
    BY <1>1, <1>6
  <1> QED BY <1>7, <1>8

\* An application row, and what its form holds.
ApplicationRow(row) == row = [id |-> row.id, name |-> row.name, kind |-> row.kind, base_url |-> row.base_url,
                              api_key |-> row.api_key, sync_level |-> row.sync_level]
ApplicationDraft(draft) ==
    /\ draft = [ok |-> draft.ok, id |-> draft.id, name |-> draft.name, kind |-> draft.kind, base_url |-> draft.base_url,
                api_key |-> draft.api_key, sync_level |-> draft.sync_level]
    /\ draft.ok = TRUE /\ draft.kind \in {"Sonarr", "Radarr"} /\ draft.sync_level \in {"Disabled", "AddOnly", "FullSync"}

\* The members of an application, one by one.
ApplicationMade(ok, id, name, kind, base, key, level) ==
    [ok |-> ok, id |-> id, name |-> name, kind |-> kind, base_url |-> base, api_key |-> key, sync_level |-> level]

LEMMA Numbered ==
    ASSUME NEW ok, NEW id, NEW name, NEW kind, NEW base, NEW key, NEW level, NEW i, NEW row,
           row = ApplicationMade(ok, id, name, kind, base, key, level)
    PROVE  [row EXCEPT !.id = i] = ApplicationMade(ok, i, name, kind, base, key, level)
  BY DEF ApplicationMade

LEMMA Rekeyed ==
    ASSUME NEW ok, NEW id, NEW name, NEW kind, NEW base, NEW key, NEW level, NEW k, NEW row,
           row = ApplicationMade(ok, id, name, kind, base, key, level)
    PROVE  [row EXCEPT !.api_key = k] = ApplicationMade(ok, id, name, kind, base, k, level)
  BY DEF ApplicationMade

LEMMA Messages ==
    ASSUME NEW T, NEW a \in Seq(T), NEW b \in Seq(T), NEW c \in Seq(T)
    PROVE  a \o b \o c = <<>> <=> a = <<>> /\ b = <<>> /\ c = <<>>
  OBVIOUS

\* Whatever a row holds and its form says: the form lets through exactly what the server takes, a name aside,
\* what is saved is what it said, with the stored key where none was typed, and both Tests probe that base
\* under that key (screens/applications.rs, api/applications.rs).
THEOREM ApplicationForms ==
    ASSUME NEW row, ApplicationRow(row), NEW draft, ApplicationDraft(draft)
    PROVE  ApplicationFormAgrees(row, draft)
  <1> DEFINE key == IF draft.api_key = "" THEN row.api_key ELSE draft.api_key
             sent == BuildApplicationResource(row.id, draft.name, draft.kind, draft.sync_level, draft.base_url, key)
             fields == BothFields(draft.base_url, key)
             saved == BuildNewApplication(sent)
             good == draft.base_url /= "" /\ draft.base_url \in Urls /\ key /= ""
             probe == [ok |-> TRUE, base |-> draft.base_url, api_key |-> key]
  <1>1. ResolveApiKey(AppRowToResource(row).fields, draft.api_key) = key
    <2>1. AppRowToResource(row).fields = BothFields(row.base_url, row.api_key)
      BY DEF AppRowToResource, ApplicationResource, RowToFields, BothFields
    <2>2. FieldOf(AppRowToResource(row).fields, "apiKey") = row.api_key
      BY <2>1, TwoFields
    <2> QED BY <2>2 DEF ResolveApiKey
  <1>2. SyncLevelFromWire[SyncLevelWire[draft.sync_level]] = draft.sync_level
    BY DEF ApplicationDraft, SyncLevelFromWire, SyncLevelWire
  <1> HIDE DEF key
  <1>3. ASSUME NEW r, r.fields = fields, r.implementation \in {"Sonarr", "Radarr"}
        PROVE  /\ AppAccepts(r) <=> good
               /\ good => RequiredField(r.fields, "baseUrl")[1] = draft.base_url /\ RequiredField(r.fields, "apiKey")[1] = key
    <2>1. RequiredField(r.fields, "baseUrl") = TextRead(draft.base_url) /\ RequiredField(r.fields, "apiKey") = TextRead(key)
      BY <1>3, TwoFields
    <2> HIDE DEF fields
    <2>2. AppAccepts(r) <=> /\ TextRead(draft.base_url) /= <<>> /\ ToSet(TextRead(draft.base_url)) \subseteq Urls
                            /\ TextRead(key) /= <<>>
      BY <1>3, <2>1 DEF AppAccepts
    <2>3. draft.base_url # "" => (ToSet(TextRead(draft.base_url)) \subseteq Urls <=> draft.base_url \in Urls)
      BY TextReadIs
    <2> QED BY <2>1, <2>2, <2>3, TextReadIs
  <1>4. /\ sent.fields = fields /\ sent.implementation = draft.kind /\ sent.id = row.id /\ sent.name = draft.name
        /\ sent.sync_level = draft.sync_level
    BY DEF BuildApplicationResource, ApplicationResource, BothFields
  <1>5. draft.kind \in {"Sonarr", "Radarr"} /\ draft.ok = TRUE
    BY DEF ApplicationDraft
  <1>6. ValidateApplicationForm(draft.name, draft.base_url, key) = <<>> <=> good /\ draft.name /= ""
    <2> DEFINE first == IF draft.name = "" THEN <<"no name">> ELSE <<>>
               second == IF draft.base_url = "" THEN <<"no base">> ELSE IF draft.base_url \notin Urls THEN <<"bad base">> ELSE <<>>
               third == IF key = "" THEN <<"no key">> ELSE <<>>
               Told == {"no name", "no base", "bad base", "no key"}
    <2>1. first \in Seq(Told) /\ second \in Seq(Told) /\ third \in Seq(Told)
      <3>1. <<>> \in Seq(Told) /\ \A m \in Told : <<m>> \in Seq(Told)
        <4> HIDE DEF Told
        <4> QED OBVIOUS
      <3> QED BY <3>1, Zenon
    <2>2. /\ first = <<>> <=> draft.name # ""
          /\ second = <<>> <=> draft.base_url /= "" /\ draft.base_url \in Urls
          /\ third = <<>> <=> key # ""
      OBVIOUS
    <2>3. ValidateApplicationForm(draft.name, draft.base_url, key) = first \o second \o third
      BY DEF ValidateApplicationForm
    <2> HIDE DEF first, second, third, Told
    <2>4. first \o second \o third = <<>> <=> first = <<>> /\ second = <<>> /\ third = <<>>
      BY <2>1, Messages
    <2> QED BY <2>2, <2>3, <2>4
  <1> HIDE DEF sent, fields
  <1>7. /\ AppAccepts(sent) <=> good
        /\ good => RequiredField(sent.fields, "baseUrl")[1] = draft.base_url /\ RequiredField(sent.fields, "apiKey")[1] = key
    BY <1>3, <1>4, <1>5
  <1>8. saved.ok <=> good
    BY <1>7 DEF BuildNewApplication, Rejected
  <1>9. ASSUME good
        PROVE  /\ saved = ApplicationMade(draft.ok, row.id, draft.name, draft.kind, draft.base_url, key, draft.sync_level)
               /\ saved.base_url = draft.base_url /\ saved.api_key = key /\ saved.kind = draft.kind
    <2>1. saved = ApplicationMade(draft.ok, row.id, draft.name, draft.kind, draft.base_url, key, draft.sync_level)
      BY <1>4, <1>5, <1>7, <1>9 DEF BuildNewApplication, ApplicationMade
    <2> HIDE DEF saved
    <2>2. saved.base_url = draft.base_url /\ saved.api_key = key /\ saved.kind = draft.kind
      BY <2>1 DEF ApplicationMade
    <2> QED BY <2>1, <2>2
  <1>10. ASSUME good PROVE RunAppTest(sent) = probe
    BY <1>7, <1>10 DEF RunAppTest
  <1>11. ASSUME good PROVE RunAppTest(BuildAppResourceForTest(AppRowToResource(saved))) = probe
    <2> DEFINE resource == AppRowToResource(saved)
               again == BuildAppResourceForTest(resource)
    <2> HIDE DEF saved
    <2>1. saved.base_url = draft.base_url /\ saved.api_key = key /\ saved.kind = draft.kind
      BY <1>9, <1>11
    <2>2. resource.fields = fields /\ resource.implementation = draft.kind
      BY <2>1 DEF AppRowToResource, ApplicationResource, RowToFields, fields, BothFields
    <2> HIDE DEF resource
    <2>3. FieldOf(resource.fields, "baseUrl") = draft.base_url /\ FieldOf(resource.fields, "apiKey") = key
      <3> DEFINE held == resource.fields
      <3>1. held = BothFields(draft.base_url, key)
        BY <2>2 DEF fields
      <3> HIDE DEF held
      <3>2. FieldOf(held, "baseUrl") = draft.base_url /\ FieldOf(held, "apiKey") = key
        BY <3>1, TwoFields
      <3> QED BY <3>2 DEF held
    <2>4. again.fields = fields /\ again.implementation = draft.kind
      BY <2>2, <2>3 DEF BuildAppResourceForTest, BuildApplicationResource, ApplicationResource, fields, BothFields
    <2> HIDE DEF again
    <2>5. /\ AppAccepts(again)
          /\ RequiredField(again.fields, "baseUrl")[1] = draft.base_url /\ RequiredField(again.fields, "apiKey")[1] = key
      BY <1>3, <1>5, <1>11, <2>4
    <2>6. RunAppTest(again) = probe
      BY <2>5 DEF RunAppTest
    <2> QED BY <2>6 DEF again, resource
  <1>12. ASSUME good PROVE saved = [draft EXCEPT !.id = row.id, !.api_key = IF @ = "" THEN row.api_key ELSE @]
    <2>1. draft = ApplicationMade(draft.ok, draft.id, draft.name, draft.kind, draft.base_url, draft.api_key, draft.sync_level)
      BY DEF ApplicationDraft, ApplicationMade
    <2>2. [draft EXCEPT !.id = row.id, !.api_key = key]
            = ApplicationMade(draft.ok, row.id, draft.name, draft.kind, draft.base_url, key, draft.sync_level)
      <3> DEFINE ok == draft.ok   id == draft.id   name == draft.name   kind == draft.kind   base == draft.base_url
                 typed == draft.api_key   level == draft.sync_level   number == row.id
      <3>1. draft = ApplicationMade(ok, id, name, kind, base, typed, level)
        BY <2>1
      <3> HIDE DEF ok, id, name, kind, base, typed, level, number
      <3> DEFINE numbered == [draft EXCEPT !.id = number]
      <3>2. numbered = ApplicationMade(ok, number, name, kind, base, typed, level)
        BY <3>1, Numbered
      <3>3. [draft EXCEPT !.id = number, !.api_key = key] = [numbered EXCEPT !.api_key = key]
        OBVIOUS
      <3> HIDE DEF numbered
      <3>4. [numbered EXCEPT !.api_key = key] = ApplicationMade(ok, number, name, kind, base, key, level)
        BY <3>2, Rekeyed
      <3> QED BY <3>3, <3>4, Zenon DEF ok, id, name, kind, base, typed, level, number
    <2> HIDE DEF saved
    <2>3. saved = [draft EXCEPT !.id = row.id, !.api_key = key]
      BY <1>9, <1>12, <2>2, Zenon
    <2> QED BY <2>3, Zenon DEF key
  <1> HIDE DEF saved, good
  <1>13. good => saved.base_url = draft.base_url /\ saved.api_key = key
    BY <1>9
  <1> QED BY <1>1, <1>2, <1>6, <1>8, <1>10, <1>11, <1>12, <1>13 DEF ApplicationFormAgrees, saved, sent

-----------------------------------------------------------------------------
(***************************************************************************)
(* The form of an indexer: what is said of a setting is what is saved.     *)
(***************************************************************************)

\* The fields a definition's settings become.
SettingsFields(definition) == [i \in DOMAIN definition.settings |-> FromSetting(definition.settings[i])]

\* A definition whose settings have each name once; KeyOrder places every name.
FormDefinition(definition) ==
    /\ \E n \in Nat : DOMAIN definition.settings = 1..n
    /\ \A i, k \in DOMAIN definition.settings : definition.settings[i].name = definition.settings[k].name => i = k
    /\ KeysAreOrdered([n \in NamesOf(SettingsFields(definition)) |-> ""])

LEMMA SettingsFieldsAre ==
    ASSUME NEW definition, FormDefinition(definition)
    PROVE  IsFields(SettingsFields(definition))
  <1>1. \A s : IsField(FromSetting(s)) /\ FromSetting(s).name = s.name
    BY DEF IsField, FromSetting, Field
  <1> QED BY <1>1 DEF IsFields, FormDefinition, SettingsFields

LEMMA OneLoaded ==
    ASSUME NEW id
    PROVE  SetToSeq({id}) = <<id>>
  <1>1. Cardinality({id}) = 1
    BY FS_Singleton
  <1>2. \A f \in [1..1 -> {id}] : f = <<id>>
    <2>1. ASSUME NEW f \in [1..1 -> {id}] PROVE f = <<id>>
      <3>1. DOMAIN f = 1..1 /\ f[1] = id
        OBVIOUS
      <3>2. DOMAIN <<id>> = 1..1 /\ <<id>>[1] = id
        OBVIOUS
      <3>3. f = [i \in 1..1 |-> f[i]] /\ <<id>> = [i \in 1..1 |-> <<id>>[i]]
        OBVIOUS
      <3> QED BY <3>1, <3>2, <3>3
    <2> QED BY <2>1
  <1>3. \E f \in [1..1 -> {id}] : IsInjective(f)
    <2>1. [i \in 1..1 |-> id] \in [1..1 -> {id}]
      OBVIOUS
    <2>2. IsInjective([i \in 1..1 |-> id])
      BY DEF IsInjective
    <2> QED BY <2>1, <2>2
  <1>4. SetToSeq({id}) = CHOOSE f \in [1..1 -> {id}] : IsInjective(f)
    BY <1>1 DEF SetToSeq
  <1> QED BY <1>2, <1>3, <1>4

\* The answer of the schema's route where one definition loads.
OneEntry(id, definition) == <<Schema([d \in {id} |-> <<definition>>])>>

\* The schema of the one definition that loads, and the entry an edit finds in it.
LEMMA EntryOf ==
    ASSUME NEW id, NEW definition, NEW entries, entries = OneEntry(id, definition)
    PROVE  LET entry == entries[1][1]
           IN /\ entry.fields = SettingsFields(definition)
              /\ entry.implementation = "Cardigann" /\ entry.definition_name = id
              /\ ResolveSchemaEntryForEdit(entries, id) = <<entry>>
  <1> DEFINE defs == [d \in {id} |-> <<definition>>]
             made == ToResource(id, definition)
  <1>1. {d \in DOMAIN defs : defs[d] /= <<>>} = {id} /\ defs[id] = <<definition>> /\ <<definition>>[1] = definition
    OBVIOUS
  <1>2. Schema(defs) = [i \in DOMAIN <<id>> |-> ToResource(<<id>>[i], defs[<<id>>[i]][1])]
    <2> DEFINE there == {d \in DOMAIN defs : defs[d] /= <<>>}
    <2>1. SetToSeq(there) = <<id>>
      BY <1>1, OneLoaded, Zenon
    <2> HIDE DEF defs
    <2>2. \A loaded : loaded = SetToSeq(there) => Schema(defs) = [i \in DOMAIN loaded |-> ToResource(loaded[i], defs[loaded[i]][1])]
      BY Zenon DEF Schema
    <2> HIDE DEF there
    <2> QED BY <2>1, <2>2, Zenon
  <1>3. DOMAIN <<id>> = 1..1 /\ <<id>>[1] = id
    OBVIOUS
  <1> HIDE DEF made
  <1>4. Schema(defs) = [i \in 1..1 |-> made]
    <2>1. \A i \in 1..1 : ToResource(<<id>>[i], defs[<<id>>[i]][1]) = made
      BY <1>1, <1>3 DEF made
    <2> QED BY <1>2, <1>3, <2>1
  <1>5. entries /= <<>> /\ entries[1] = [i \in 1..1 |-> made] /\ entries[1][1] = made
    <2>1. entries = <<Schema(defs)>>
      BY DEF OneEntry
    <2> HIDE DEF defs
    <2> QED BY <1>4, <2>1
  <1>6. /\ made.fields = SettingsFields(definition)
        /\ made.implementation = "Cardigann" /\ made.definition_name = id
    <2> DEFINE fields == SettingsFields(definition)
               plain == IndexerResource(0, definition.name, "Cardigann", id, FALSE, DefaultPriority, fields)
    <2>1. \E d, l, c : made = [plain EXCEPT !.description = d, !.language = l, !.categories = c]
      BY DEF made, ToResource, SettingsFields
    <2>2. PICK d, l, c : made = [plain EXCEPT !.description = d, !.language = l, !.categories = c]
      BY <2>1
    <2> HIDE DEF fields, made
    <2>3. made.fields = plain.fields /\ made.implementation = plain.implementation /\ made.definition_name = plain.definition_name
      BY <2>2 DEF IndexerResource
    <2>4. plain.fields = fields /\ plain.implementation = "Cardigann" /\ plain.definition_name = id
      BY DEF IndexerResource
    <2> QED BY <2>3, <2>4 DEF fields
  <1>7. ResolveSchemaEntryForEdit(entries, id) = <<made>>
    <2> DEFINE found == entries[1]
               matching == {i \in DOMAIN found : found[i].definition_name = id}
    <2>1. found = [i \in 1..1 |-> made] /\ DOMAIN found = 1..1 /\ found[1] = made
      BY <1>5
    <2> HIDE DEF found
    <2>2. matching = {1}
      BY <1>6, <2>1
    <2>3. First(found, {1}) = made
      <3>1. (CHOOSE p \in {1} : \A q \in {1} : p <= q) = 1
        OBVIOUS
      <3> QED BY <2>1, <3>1 DEF First
    <2> HIDE DEF matching
    <2>4. ResolveSchemaEntryForEdit(entries, id) = IF matching = {} THEN <<>> ELSE <<First(found, matching)>>
      BY <1>5 DEF ResolveSchemaEntryForEdit, matching, found
    <2> QED BY <2>2, <2>3, <2>4
  <1> QED BY <1>5, <1>6, <1>7

\* The text a form has of a setting: what was typed, a blank secret aside; else what is stored; else the default.
TextFor(fields, stored, typed, n) ==
    LET field == FieldAt(fields, n)
    IN IF n \in DOMAIN typed /\ (field.kind = "password" => typed[n] /= "") THEN typed[n]
       ELSE IF n \in DOMAIN stored THEN stored[n].is
       ELSE FieldValueAsString(field)

\* The settings that are made of it.
SettingsOf(fields, stored, typed) ==
    [n \in NamesOf(fields) |-> ValueForField(FieldAt(fields, n).kind, TextFor(fields, stored, typed, n))]

\* It is what the form says.
LEMMA SaidOf ==
    ASSUME NEW fields, IsFields(fields), NEW stored, NEW typed
    PROVE  Said(fields, stored, typed)
             = [n \in NamesOf(fields) |-> ValueForField(FieldAt(fields, n).kind, TextFor(fields, stored, typed, n)).is]
  <1>1. ASSUME NEW n \in NamesOf(fields)
        PROVE  Says(FieldAt(fields, n), stored, typed)
                 = ValueForField(FieldAt(fields, n).kind, TextFor(fields, stored, typed, n)).is
    <2> DEFINE field == FieldAt(fields, n)
               text == TextFor(fields, stored, typed, n)
               typedin == n \in DOMAIN typed /\ (field.kind = "password" => typed[n] /= "")
               says == IF typedin THEN typed[n]
                       ELSE IF n \in DOMAIN stored THEN stored[n].is
                       ELSE IF field.value /= <<>> THEN field.value[1].is ELSE ""
    <2>1. field.name = n
      <3>1. PICK i \in DOMAIN fields : fields[i].name = n /\ FieldAt(fields, n) = fields[i]
        BY FieldIsAt
      <3> QED BY <3>1
    <2>2. Says(field, stored, typed) = IF field.kind = "checkbox" THEN Bool(says = "true").is ELSE says
      BY <2>1 DEF Says
    <2>3. text = says \/ (field.kind = "checkbox" /\ text = "false" /\ says = "")
      BY DEF FieldValueAsString, TextFor
    <2> HIDE DEF field, says, text
    <2>4. ValueForField(field.kind, text).is = IF field.kind = "checkbox" THEN Bool(text = "true").is ELSE text
      BY DEF ValueForField, Str
    <2>5. CASE text = says
      <3>1. Says(field, stored, typed) = ValueForField(field.kind, text).is
        BY <2>2, <2>4, <2>5
      <3> QED BY <3>1 DEF field, text
    <2>6. CASE field.kind = "checkbox" /\ text = "false" /\ says = ""
      <3>1. Bool(says = "true").is = "false" /\ Bool(text = "true").is = "false"
        BY <2>6 DEF Bool
      <3>2. Says(field, stored, typed) = ValueForField(field.kind, text).is
        BY <2>2, <2>4, <2>6, <3>1
      <3> QED BY <3>2 DEF field, text
    <2> QED BY <2>3, <2>5, <2>6
  <1>2. Said(fields, stored, typed) = [n \in NamesOf(fields) |-> Says(FieldAt(fields, n), stored, typed)]
    BY DEF Said, NamesOf, FieldAt
  <1> QED BY <1>1, <1>2

\* What an edit saves of the settings.
LEMMA EditedIs ==
    ASSUME NEW schema, IsFields(schema), NEW settings, KeysAreOrdered(settings), NEW typed, NEW merged, NEW sent,
           merged = MergeFieldMetadata(schema, FieldsFromSettings(settings)),
           NEW resource, NEW name, NEW enable, NEW priority,
           sent = BuildIndexerResource(resource, name, enable, priority, merged,
                      PreserveBlankPasswords(merged, Overlaid(typed, InitialFormValues(merged, schema))))
    PROVE  SettingsFromFields(sent.fields) = SettingsOf(schema, settings, typed)
  <1> DEFINE stored == FieldsFromSettings(settings)
             values == PreserveBlankPasswords(merged, Overlaid(typed, InitialFormValues(merged, schema)))
  <1>1. /\ IsFields(stored) /\ NamesOf(stored) = DOMAIN settings
        /\ \A i \in DOMAIN stored : stored[i].value /= <<>>
        /\ \A n \in DOMAIN settings : FieldAt(stored, n).value = <<settings[n]>>
    BY FieldsOfSettings
  <1> HIDE DEF stored
  <1>2. /\ IsFields(merged) /\ SameShape(merged, schema)
        /\ \A n \in NamesOf(schema) : FieldAt(merged, n).value =
              IF n \in NamesOf(stored) THEN FieldAt(stored, n).value ELSE FieldAt(schema, n).value
    BY <1>1, MergedIs DEF stored
  <1>3. NamesOf(merged) = NamesOf(schema) /\ \A n \in NamesOf(schema) : FieldAt(merged, n).kind = FieldAt(schema, n).kind
    BY <1>2, ShapeKeeps DEF IsFields
  <1>4. ASSUME NEW n \in NamesOf(schema)
        PROVE  FieldValueAsString(FieldAt(merged, n)) =
                  IF n \in DOMAIN settings THEN settings[n].is ELSE FieldValueAsString(FieldAt(schema, n))
    <2>1. CASE n \in DOMAIN settings
      <3>1. FieldAt(merged, n).value = <<settings[n]>>
        BY <1>1, <1>2, <2>1
      <3> QED BY <2>1, <3>1, ValueShows
    <2>2. CASE n \notin DOMAIN settings
      <3>1. FieldAt(merged, n).value = FieldAt(schema, n).value /\ FieldAt(merged, n).kind = FieldAt(schema, n).kind
        BY <1>1, <1>2, <1>3, <2>2
      <3> QED BY <2>2, <3>1 DEF FieldValueAsString
    <2> QED BY <2>1, <2>2
  <1>5. ASSUME NEW n \in NamesOf(schema)
        PROVE  Given(values, n) = TextFor(schema, settings, typed, n)
    <2>1. Given(values, n) = FormText(merged, typed, n)
      BY <1>2, <1>3, DraftIs
    <2>2. FormText(merged, typed, n) = TextFor(schema, settings, typed, n)
      BY <1>3, <1>4 DEF FormText, TextFor
    <2> QED BY <2>1, <2>2
  <1>6. SettingsFromFields(sent.fields) = [n \in NamesOf(merged) |-> ValueForField(FieldAt(merged, n).kind, Given(values, n))]
    BY <1>2, SavedAs
  <1> HIDE DEF values
  <1> QED BY <1>3, <1>5, <1>6 DEF SettingsOf

\* What an addition saves of the settings.
LEMMA AddedIs ==
    ASSUME NEW schema, IsFields(schema), NEW typed, NEW sent, NEW resource, NEW name, NEW enable, NEW priority,
           sent = BuildIndexerResource(resource, name, enable, priority, schema,
                      PreserveBlankPasswords(schema, Overlaid(typed, InitialFormValues(schema, schema))))
    PROVE  SettingsFromFields(sent.fields) = SettingsOf(schema, NothingTyped, typed)
  <1> DEFINE values == PreserveBlankPasswords(schema, Overlaid(typed, InitialFormValues(schema, schema)))
  <1>1. SettingsFromFields(sent.fields) = [n \in NamesOf(schema) |-> ValueForField(FieldAt(schema, n).kind, Given(values, n))]
    BY SavedAs
  <1>2. SameShape(schema, schema)
    BY DEF SameShape
  <1>3. ASSUME NEW n \in NamesOf(schema)
        PROVE  Given(values, n) = TextFor(schema, NothingTyped, typed, n)
    <2>1. Given(values, n) = FormText(schema, typed, n)
      BY <1>2, DraftIs
    <2> QED BY <2>1 DEF FormText, TextFor, NothingTyped
  <1> HIDE DEF values
  <1> QED BY <1>1, <1>3 DEF SettingsOf

\* A value that was saved is shown and taken back as it is.
LEMMA SavedStays ==
    ASSUME NEW kind, NEW text
    PROVE  /\ ValueForField(kind, ValueForField(kind, text).is) = ValueForField(kind, text)
           /\ IsJson(ValueForField(kind, text))
  <1>1. CASE kind = "checkbox"
    <2>1. ValueForField(kind, text) = Bool(text = "true") /\ ValueForField(kind, Bool(text = "true").is) = Bool(Bool(text = "true").is = "true")
      BY <1>1 DEF ValueForField
    <2>2. Bool(Bool(text = "true").is = "true") = Bool(text = "true")
      BY DEF Bool
    <2> QED BY <2>1, <2>2 DEF IsJson
  <1>2. CASE kind # "checkbox"
    <2>1. \A t : ValueForField(kind, t) = Str(t)
      BY <1>2 DEF ValueForField
    <2>2. Str(text).is = text
      BY DEF Str
    <2> QED BY <2>1, <2>2 DEF IsJson
  <1> QED BY <1>1, <1>2

\* A row of that definition.
CardigannRow(row, id) == ConfiguredRow(row) /\ row.ok = TRUE /\ row.kind = "Cardigann" /\ row.definition_id = id

LEMMA PutBack ==
    ASSUME NEW ok, NEW id, NEW name, NEW definition, NEW kind, NEW enabled, NEW settings, NEW priority, NEW others, NEW row, NEW other,
           row = RowOf(ok, id, name, definition, kind, enabled, settings, priority),
           other = RowOf(ok, id, name, definition, kind, enabled, others, priority)
    PROVE  [other EXCEPT !.settings = settings] = row
  BY DEF RowOf

\* What is built of what is sent, and what its Test asks.
Builds(sent, id, row, settings) ==
    /\ BuildNewIndexer(sent, {id}) = RowOf(row.ok, row.id, row.name, row.definition_id, row.kind, row.enabled, settings, row.priority)
    /\ RunTest(sent, {id}) = Engine(id, settings)

\* An edit that is sent and built again.
LEMMA EditOf ==
    ASSUME NEW id, NEW definition, FormDefinition(definition), IsPlainStem(id),
           NEW entries, entries = OneEntry(id, definition),
           NEW row, CardigannRow(row, id), NEW typed,
           NEW sent, sent = EditSent(entries, RowToResource(row), typed)[1],
           NEW settings, settings = SettingsOf(SettingsFields(definition), row.settings, typed)
    PROVE  Builds(sent, id, row, settings)
  <1> DEFINE schema == SettingsFields(definition)
             resource == RowToResource(row)
             stored == FieldsFromSettings(row.settings)
             merged == MergeFieldMetadata(schema, stored)
             values == PreserveBlankPasswords(merged, Overlaid(typed, InitialFormValues(merged, schema)))
             built == BuildIndexerResource(resource, resource.name, resource.enable, resource.priority, merged, values)
  <1>1. /\ resource.name = row.name /\ resource.id = row.id /\ resource.enable = row.enabled /\ resource.priority = row.priority
        /\ resource.implementation = row.kind /\ resource.definition_name = row.definition_id /\ resource.fields = stored
    BY DEF RowToResource, IndexerResource
  <1>2. entries[1][1].fields = schema /\ ResolveSchemaEntryForEdit(entries, id) = <<entries[1][1]>>
    BY EntryOf
  <1> HIDE DEF schema, resource
  <1>3. EditSent(entries, resource, typed) = <<built>>
    <2> DEFINE entry == ResolveSchemaEntryForEdit(entries, id)
    <2>1. entry /= <<>> /\ entry[1].fields = schema
      BY <1>2
    <2> HIDE DEF entry
    <2>2. resource.definition_name = id
      BY <1>1 DEF CardigannRow
    <2> QED BY <1>1, <2>1, <2>2 DEF EditSent, entry
  <1>4. SettingsFromFields(built.fields) = settings
    <2>1. IsFields(schema) /\ KeysAreOrdered(row.settings)
      BY SettingsFieldsAre DEF CardigannRow, ConfiguredRow, schema
    <2> HIDE DEF stored, merged, values, built
    <2>2. merged = MergeFieldMetadata(schema, FieldsFromSettings(row.settings))
      BY DEF merged, stored
    <2>3. built = BuildIndexerResource(resource, resource.name, resource.enable, resource.priority, merged,
                      PreserveBlankPasswords(merged, Overlaid(typed, InitialFormValues(merged, schema))))
      BY DEF built, values
    <2> QED BY <2>1, <2>2, <2>3, EditedIs DEF schema
  <1>5. /\ built.id = row.id /\ built.name = row.name /\ built.definition_name = id
        /\ built.implementation = "Cardigann" /\ built.enable = row.enabled /\ built.priority = row.priority
    BY <1>1 DEF CardigannRow, BuildIndexerResource, IndexerResource
  <1> HIDE DEF built
  <1>6. "Cardigann" \in Implementations
    BY DEF Implementations
  <1>7. BuildNewIndexer(built, {id})
          = RowOf(row.ok, row.id, row.name, row.definition_id, row.kind, row.enabled, settings, row.priority)
    BY <1>4, <1>5, <1>6 DEF CardigannRow, BuildNewIndexer, RowOf
  <1>8. RunTest(built, {id}) = Engine(id, settings)
    BY <1>4, <1>5, <1>6 DEF RunTest
  <1>9. sent = built
    BY <1>3 DEF resource
  <1> QED BY <1>7, <1>8, <1>9 DEF Builds

\* Whatever a definition asks, a row holds and a user types: an edit is saved as its form says, setting by setting,
\* a secret left blank as it was, and nothing else of the row changes; an addition starts from the defaults; a row that
\* is opened and saved once more stays as it is; and the form's Test probes what the saved row will be searched with
\* (screens/indexers.rs, api/indexers.rs).
THEOREM FormSaves ==
    ASSUME NEW id, IsPlainStem(id), NEW definition, FormDefinition(definition),
           NEW row, CardigannRow(row, id), NEW typed
    PROVE  FormSavesWhatItSays(id, definition, row, typed)
  <1> DEFINE schema == SettingsFields(definition)
             entries == OneEntry(id, definition)
             entry == entries[1][1]
             resource == RowToResource(row)
             sent == EditSent(entries, resource, typed)[1]
             saved == BuildNewIndexer(sent, {id})
             text(n) == TextFor(schema, row.settings, typed, n)
             settings == SettingsOf(schema, row.settings, typed)
             again == EditSent(entries, RowToResource(saved), NothingTyped)[1]
             added == AddSent(entry, typed)
             built == BuildNewIndexer(added, {id})
  <1> HIDE DEF entries
  <1>0. entries = OneEntry(id, definition)
    BY DEF entries
  <1> HIDE DEF schema, resource, sent, saved, settings
  <1>1. /\ entry.fields = schema /\ entry.implementation = "Cardigann" /\ entry.definition_name = id
        /\ ResolveSchemaEntryForEdit(entries, id) = <<entry>>
    BY <1>0, EntryOf DEF schema
  <1>2. IsFields(schema)
    BY SettingsFieldsAre DEF schema
  <1>3. /\ saved = RowOf(row.ok, row.id, row.name, row.definition_id, row.kind, row.enabled, settings, row.priority)
        /\ RunTest(sent, {id}) = Engine(id, settings)
    <2>1. sent = EditSent(entries, RowToResource(row), typed)[1] /\ settings = SettingsOf(SettingsFields(definition), row.settings, typed)
      BY DEF sent, resource, settings, schema
    <2>2. Builds(sent, id, row, settings)
      BY <1>0, <2>1, EditOf
    <2> QED BY <2>2 DEF Builds, saved
  <1> HIDE DEF sent, saved, entries, settings, text, schema, again, built, added, entry
  <1>4. /\ saved.ok = row.ok /\ saved.kind = row.kind /\ saved.definition_id = row.definition_id
        /\ saved.settings = settings
        /\ saved = [ok |-> saved.ok, id |-> saved.id, name |-> saved.name, definition_id |-> saved.definition_id,
                    kind |-> saved.kind, enabled |-> saved.enabled, settings |-> saved.settings, priority |-> saved.priority]
        /\ saved.id = row.id /\ saved.name = row.name /\ saved.enabled = row.enabled /\ saved.priority = row.priority
    BY <1>3 DEF RowOf
  <1>5. [saved EXCEPT !.settings = row.settings] = [row EXCEPT !.ok = TRUE]
    <2>1. row = RowOf(row.ok, row.id, row.name, row.definition_id, row.kind, row.enabled, row.settings, row.priority)
      BY DEF CardigannRow, ConfiguredRow, RowOf
    <2>2. [saved EXCEPT !.settings = row.settings] = row
      BY <1>3, <2>1, PutBack
    <2>3. [row EXCEPT !.ok = row.ok] = row
      BY DEF CardigannRow, ConfiguredRow
    <2> QED BY <2>2, <2>3 DEF CardigannRow
  <1>6. SettingsFromJson(saved.settings) = Said(entry.fields, row.settings, typed)
    <2>1. Said(schema, row.settings, typed) = [n \in NamesOf(schema) |-> ValueForField(FieldAt(schema, n).kind, text(n)).is]
      BY <1>2, SaidOf DEF text
    <2>2. SettingsFromJson(settings) = [n \in NamesOf(schema) |-> ValueForField(FieldAt(schema, n).kind, text(n)).is]
      BY DEF SettingsFromJson, settings, SettingsOf, text
    <2> QED BY <1>1, <1>4, <2>1, <2>2
  <1>7. SettingsFromJson(built.settings) = Said(entry.fields, NothingTyped, typed)
    <2> DEFINE values == PreserveBlankPasswords(schema, Overlaid(typed, InitialFormValues(schema, schema)))
               first(n) == TextFor(schema, NothingTyped, typed, n)
    <2>1. added = BuildIndexerResource(entry, entry.name, entry.enable, entry.priority, schema,
                      PreserveBlankPasswords(schema, Overlaid(typed, InitialFormValues(schema, schema))))
      BY <1>1 DEF AddSent, added
    <2>2. SettingsFromFields(added.fields) = SettingsOf(schema, NothingTyped, typed)
      <3> DEFINE name == entry.name   enable == entry.enable   priority == entry.priority
      <3>1. added = BuildIndexerResource(entry, name, enable, priority, schema,
                        PreserveBlankPasswords(schema, Overlaid(typed, InitialFormValues(schema, schema))))
        BY <2>1
      <3> HIDE DEF name, enable, priority, values
      <3> QED BY <1>2, <3>1, AddedIs
    <2>3. added.implementation = "Cardigann" /\ added.definition_name = id
      BY <1>1, <2>1 DEF BuildIndexerResource, IndexerResource
    <2>4. built.settings = SettingsFromFields(added.fields)
      BY <2>3 DEF BuildNewIndexer, built, Implementations
    <2>5. Said(schema, NothingTyped, typed) = [n \in NamesOf(schema) |-> ValueForField(FieldAt(schema, n).kind, first(n)).is]
      BY <1>2, SaidOf
    <2> HIDE DEF first
    <2>6. SettingsFromJson(built.settings) = [n \in NamesOf(schema) |-> ValueForField(FieldAt(schema, n).kind, first(n)).is]
      BY <2>2, <2>4 DEF SettingsFromJson, SettingsOf, first
    <2> QED BY <1>1, <2>5, <2>6
  <1>8. BuildNewIndexer(again, {id}) = saved
    <2> DEFINE kept(n) == TextFor(schema, settings, NothingTyped, n)
               shown == SettingsOf(schema, settings, NothingTyped)
    <2>1. DOMAIN settings = NamesOf(schema) /\ settings = [n \in DOMAIN settings |-> settings[n]]
      BY DEF settings, SettingsOf
    <2>2. KeysAreOrdered(settings)
      BY <2>1 DEF FormDefinition, KeysAreOrdered, schema
    <2>3. \A n \in DOMAIN settings : IsJson(settings[n])
      BY SavedStays DEF settings, SettingsOf
    <2>4. row.kind \in Implementations /\ row.enabled \in BOOLEAN
      BY DEF CardigannRow, ConfiguredRow
    <2>5. ConfiguredRow(saved)
      BY <1>4, <2>1, <2>2, <2>3, <2>4 DEF ConfiguredRow
    <2>6. CardigannRow(saved, id)
      BY <1>4, <2>5 DEF CardigannRow
    <2>7. BuildNewIndexer(again, {id})
            = RowOf(saved.ok, saved.id, saved.name, saved.definition_id, saved.kind, saved.enabled,
                    shown, saved.priority)
      <3> DEFINE none == NothingTyped
      <3> HIDE DEF none
      <3>1. again = EditSent(entries, RowToResource(saved), none)[1]
        BY DEF again, none
      <3>2. shown = SettingsOf(SettingsFields(definition), saved.settings, none)
        BY <1>4 DEF schema, none
      <3> HIDE DEF shown
      <3>3. Builds(again, id, saved, shown)
        BY <1>0, <2>6, <3>1, <3>2, EditOf
      <3> QED BY <3>3 DEF Builds
    <2>8. BuildNewIndexer(again, {id})
            = RowOf(row.ok, row.id, row.name, row.definition_id, row.kind, row.enabled, shown, row.priority)
      BY <1>4, <2>7
    <2>9. ASSUME NEW n \in NamesOf(schema) PROVE ValueForField(FieldAt(schema, n).kind, kept(n)) = settings[n]
      <3>1. kept(n) = settings[n].is
        BY <2>1 DEF TextFor, NothingTyped
      <3>2. settings[n] = ValueForField(FieldAt(schema, n).kind, text(n))
        BY DEF settings, SettingsOf, text
      <3> QED BY <3>1, <3>2, SavedStays
    <2> HIDE DEF kept
    <2>10. shown = settings
      <3>1. shown = [n \in NamesOf(schema) |-> ValueForField(FieldAt(schema, n).kind, kept(n))]
        BY DEF SettingsOf, kept
      <3> HIDE DEF shown
      <3> QED BY <2>1, <2>9, <3>1
    <2> QED BY <1>3, <2>8, <2>10
  <1>9. RunTest(sent, {id}) = SearchRow(saved, {id})
    BY <1>3, <1>4 DEF CardigannRow, SearchRow
  <1>10. EditSent(<<>>, resource, typed) = <<>>
    <2>1. ResolveSchemaEntryForEdit(<<>>, resource.definition_name) = <<>>
      BY DEF ResolveSchemaEntryForEdit
    <2> HIDE DEF resource
    <2> QED BY <2>1 DEF EditSent
  <1>11. saved.ok
    BY <1>4 DEF CardigannRow
  <1> QED BY <1>5, <1>6, <1>7, <1>8, <1>9, <1>10, <1>11, Zenon
          DEF FormSavesWhatItSays, sent, saved, entries, entry, resource, again, added, built, OneEntry
-----------------------------------------------------------------------------
(***************************************************************************)
(* The migrations: what a file lacks, in the order of the binary, is what  *)
(* the next run applies, from the first on.                                *)
(***************************************************************************)
VersionsDiffer ==
    /\ Versions \in Seq(Nat)
    /\ \A i, j \in DOMAIN Versions : Versions[i] = Versions[j] => i = j

LEMMA PlacesAre ==
    ASSUME VersionsDiffer, NEW places \in SUBSET DOMAIN Versions
    PROVE  /\ places \in SUBSET Nat /\ IsFiniteSet(places) /\ Cardinality(places) \in Nat
           /\ Picked(Versions, places) \in Seq(Nat)
           /\ Picked(Versions, places) = <<>> <=> places = {}
  <1>1. DOMAIN Versions = 1..Len(Versions) /\ Len(Versions) \in Nat /\ Versions \in Seq(Nat)
    BY DEF VersionsDiffer
  <1>2. places \in SUBSET Nat /\ IsFiniteSet(places)
    <2>1. IsFiniteSet(1..Len(Versions))
      BY <1>1, FS_Interval
    <2>2. IsFiniteSet(places)
      BY <1>1, <2>1, FS_Subset
    <2> QED BY <1>1, <2>2
  <1>3. Cardinality(places) \in Nat /\ (Cardinality(places) = 0 <=> places = {})
    BY <1>2, FS_CardinalityType, FS_EmptySet
  <1>4. Picked(Versions, places) \in Seq(Nat)
    BY <1>1, PickedSet
  <1>5. DOMAIN Picked(Versions, places) = 1..Cardinality(places)
    BY <1>1, PickedIs
  <1>6. Picked(Versions, places) = <<>> <=> Cardinality(places) = 0
    <2> DEFINE p == Picked(Versions, places)
               n == Cardinality(places)
    <2>1. p \in Seq(Nat) /\ DOMAIN p = 1..n /\ n \in Nat
      BY <1>3, <1>4, <1>5
    <2> HIDE DEF p, n
    <2>2. Len(p) = n
      BY <2>1
    <2>3. p = <<>> <=> Len(p) = 0
      BY <2>1
    <2> QED BY <2>2, <2>3 DEF p, n
  <1> QED BY <1>2, <1>3, <1>4, <1>6

\* Two elements with as many below them are one.
LEMMA SameBelow ==
    ASSUME NEW S \in SUBSET Nat, IsFiniteSet(S), NEW j \in S, NEW k \in S,
           Cardinality(Below(S, j)) = Cardinality(Below(S, k))
    PROVE  j = k
  <1>1. Cardinality(Below(S, j)) \in Int /\ Cardinality(Below(S, k)) \in Int
    <2>1. Cardinality(S) \in Nat /\ \A x \in S : Cardinality(Below(S, x)) \in 0..(Cardinality(S) - 1)
      BY BelowIs
    <2> QED BY <2>1
  <1>2. (j < k => Cardinality(Below(S, j)) < Cardinality(Below(S, k)))
        /\ (k < j => Cardinality(Below(S, k)) < Cardinality(Below(S, j)))
    BY BelowIs
  <1>3. ~(j < k) /\ ~(k < j)
    BY <1>1, <1>2
  <1>4. j \in Nat /\ k \in Nat
    OBVIOUS
  <1> QED BY <1>3, <1>4

\* Each place of the order is taken: as many are below some element.
LEMMA CountBelow ==
    ASSUME NEW S \in SUBSET Nat, IsFiniteSet(S), NEW i \in 1..Cardinality(S)
    PROVE  \E k \in S : Cardinality(Below(S, k)) = i - 1
  <1> DEFINE n == Cardinality(S)
             P == [k \in S |-> Cardinality(Below(S, k)) + 1]
  <1>1. n \in Nat /\ \A k \in S : Cardinality(Below(S, k)) \in 0..(n - 1)
    BY BelowIs
  <1>2. IsFiniteSet(1..n) /\ Cardinality(1..n) = n
    BY <1>1, FS_Interval
  <1> HIDE DEF n
  <1>3. \A k \in S : P[k] = Cardinality(Below(S, k)) + 1
    OBVIOUS
  <1>4. P \in [S -> 1..n]
    <2>1. \A k \in S : Cardinality(Below(S, k)) + 1 \in 1..n
      BY <1>1
    <2> QED BY <2>1
  <1> HIDE DEF P
  <1>5. ASSUME NEW j \in S, NEW k \in S, P[j] = P[k] PROVE j = k
    <2>1. Cardinality(Below(S, j)) \in Int /\ Cardinality(Below(S, k)) \in Int
      BY <1>1
    <2>2. Cardinality(Below(S, j)) = Cardinality(Below(S, k))
      BY <1>3, <1>5, <2>1
    <2> QED BY <2>2, SameBelow
  <1>6. P \in Injection(S, 1..n)
    BY <1>4, <1>5 DEF Injection, IsInjective
  <1>7. P \in Surjection(S, 1..n)
    BY <1>2, <1>6, FS_Injection DEF n
  <1>8. i \in 1..n
    BY DEF n
  <1>9. PICK k \in S : P[k] = i
    BY <1>7, <1>8 DEF Surjection
  <1>10. Cardinality(Below(S, k)) \in Int
    BY <1>1
  <1>11. Cardinality(Below(S, k)) = i - 1
    BY <1>3, <1>9, <1>10
  <1> QED BY <1>11

\* The order of what stays when the first of a set go is the order it had.
LEMMA AscendingTail ==
    ASSUME NEW S \in SUBSET Nat, IsFiniteSet(S), NEW W \in SUBSET S,
           \A w \in W, x \in S \ W : w < x
    PROVE  /\ Cardinality(S) = Cardinality(W) + Cardinality(S \ W)
           /\ \A i \in 1..Cardinality(S \ W) : Ascending(S)[Cardinality(W) + i] = Ascending(S \ W)[i]
  <1> DEFINE R == S \ W
             n == Cardinality(S)
             w == Cardinality(W)
             r == Cardinality(R)
             A == Ascending(S)
             B == Ascending(R)
  <1>1. IsFiniteSet(W) /\ IsFiniteSet(R) /\ R \in SUBSET Nat /\ W \in SUBSET Nat
    BY FS_Subset
  <1>2. n \in Nat /\ w \in Nat /\ r \in Nat
    BY <1>1, FS_CardinalityType
  <1>3. n = w + r
    <2>1. S = W \cup R /\ W \cap R = {}
      OBVIOUS
    <2>2. Cardinality(W \cup R) = w + r - Cardinality(W \cap R) /\ Cardinality({}) = 0
      BY <1>1, FS_Union, FS_EmptySet
    <2> HIDE DEF R, n, w, r
    <2> QED BY <1>2, <2>1, <2>2 DEF n
  <1>4. /\ DOMAIN A = 1..n /\ \A i \in 1..n : A[i] \in S
        /\ \A i, j \in 1..n : i < j => A[i] < A[j]
        /\ \A k \in S : \E i \in 1..n : A[i] = k
    BY AscendingIs
  <1>5. /\ A = [i \in 1..n |-> CHOOSE k \in S : Cardinality(Below(S, k)) = i - 1]
        /\ B = [i \in 1..r |-> CHOOSE k \in R : Cardinality(Below(R, k)) = i - 1]
    BY DEF Ascending, Below
  <1>6. \A i \in 1..r : B[i] \in R
    BY <1>1, AscendingIs
  <1>7. ASSUME NEW k \in R PROVE Cardinality(Below(S, k)) = w + Cardinality(Below(R, k)) /\ Cardinality(Below(R, k)) \in Nat
    <2>1. Below(S, k) = W \cup Below(R, k) /\ W \cap Below(R, k) = {}
      BY DEF Below
    <2>2. IsFiniteSet(Below(R, k))
      <3>1. Below(R, k) \in SUBSET R
        BY DEF Below
      <3> QED BY <1>1, <3>1, FS_Subset
    <2>3. Cardinality(W \cup Below(R, k)) = w + Cardinality(Below(R, k)) - Cardinality(W \cap Below(R, k))
          /\ Cardinality({}) = 0 /\ Cardinality(Below(R, k)) \in Nat
      BY <1>1, <2>2, FS_Union, FS_EmptySet, FS_CardinalityType
    <2>4. Cardinality(W \cap Below(R, k)) = 0
      BY <2>1, <2>3, Zenon
    <2>5. Cardinality(Below(S, k)) = Cardinality(W \cup Below(R, k))
      BY <2>1, Zenon
    <2> HIDE DEF R, w
    <2> QED BY <1>2, <2>3, <2>4, <2>5
  <1>8. ASSUME NEW i \in 1..n PROVE Cardinality(Below(S, A[i])) = i - 1
    <2>1. \E k \in S : Cardinality(Below(S, k)) = i - 1
      BY CountBelow DEF n
    <2> HIDE DEF n, A
    <2> QED BY <1>5, <2>1
  <1>9. ASSUME NEW i \in 1..r PROVE Cardinality(Below(R, B[i])) = i - 1
    <2>1. \E k \in R : Cardinality(Below(R, k)) = i - 1
      BY <1>1, CountBelow DEF r
    <2> HIDE DEF r, R, B
    <2> QED BY <1>5, <2>1
  <1>10. ASSUME NEW i \in 1..r PROVE A[w + i] = B[i]
    <2>1. B[i] \in R /\ Cardinality(Below(S, B[i])) = w + (i - 1)
      BY <1>6, <1>7, <1>9
    <2>2. w + i \in 1..n
      <3> HIDE DEF n, w, r
      <3> QED BY <1>2, <1>3
    <2>3. Cardinality(Below(S, A[w + i])) = (w + i) - 1
      BY <1>8, <2>2
    <2>4. A[w + i] \in S /\ B[i] \in S
      BY <1>4, <2>1, <2>2
    <2>5. Cardinality(Below(S, A[w + i])) = Cardinality(Below(S, B[i]))
      <3> HIDE DEF n, w, r, A, B, R
      <3> QED BY <1>2, <2>1, <2>3
    <2> HIDE DEF n, w, r, A, B, R
    <2> QED BY <2>4, <2>5, SameBelow
  <1> HIDE DEF n, w, r, A, B
  <1>11. \A i \in 1..r : A[w + i] = B[i]
    BY <1>10
  <1> QED BY <1>3, <1>11 DEF n, w, r, A, B, R

LEMMA SuffixIs ==
    ASSUME NEW T, NEW s \in Seq(T), NEW t \in Seq(T), NEW n \in Nat, Len(t) = n + Len(s),
           \A i \in 1..Len(s) : s[i] = t[n + i]
    PROVE  IsSuffix(s, t)
  <1> DEFINE l == Len(s)
             m == Len(t)
             rs == Reverse(s)
             rt == Reverse(t)
  <1>1. l \in Nat /\ m \in Nat /\ m = n + l
    OBVIOUS
  <1>2. rs = [i \in 1..l |-> s[(l - i) + 1]] /\ rt = [i \in 1..m |-> t[(m - i) + 1]]
    BY DEF Reverse
  <1>3. \A i \in 1..l : s[i] = t[n + i]
    OBVIOUS
  <1>4. s \in [1..l -> T] /\ t \in [1..m -> T]
    OBVIOUS
  <1> HIDE DEF l, m
  <1>5. rs \in Seq(T) /\ Len(rs) = l /\ rt \in Seq(T) /\ Len(rt) = m
    <2>1. \A i \in 1..l : (l - i) + 1 \in 1..l
      BY <1>1
    <2>2. \A i \in 1..m : (m - i) + 1 \in 1..m
      BY <1>1
    <2>3. rs \in [1..l -> T] /\ rt \in [1..m -> T]
      BY <1>2, <1>4, <2>1, <2>2
    <2> HIDE DEF rs, rt
    <2> QED BY <1>1, <2>3
  <1>6. ASSUME NEW i \in 1..l PROVE rs[i] = rt[i]
    <2>1. i \in 1..m /\ (l - i) + 1 \in 1..l /\ (m - i) + 1 = n + ((l - i) + 1)
      BY <1>1
    <2>2. rs[i] = s[(l - i) + 1] /\ rt[i] = t[(m - i) + 1]
      BY <1>2, <2>1
    <2>3. s[(l - i) + 1] = t[n + ((l - i) + 1)]
      BY <1>3, <2>1
    <2> QED BY <2>1, <2>2, <2>3
  <1> HIDE DEF rs, rt
  <1>7. SubSeq(rs, 1, Len(rs)) = SubSeq(rt, 1, Len(rs)) /\ Len(rs) <= Len(rt)
    <2>1. l <= m
      BY <1>1
    <2>2. SubSeq(rs, 1, l) = [i \in 1..l |-> rs[i]] /\ SubSeq(rt, 1, l) = [i \in 1..l |-> rt[i]]
      BY <1>1, <1>5, <2>1
    <2> QED BY <1>5, <1>6, <2>1, <2>2
  <1> QED BY <1>7 DEF IsSuffix, IsPrefix, rs, rt

\* What stays to apply ends what was to apply.
LEMMA TailIsPicked ==
    ASSUME VersionsDiffer, NEW P \in SUBSET DOMAIN Versions, NEW W \in SUBSET P,
           \A w \in W, x \in P \ W : w < x
    PROVE  IsSuffix(Picked(Versions, P \ W), Picked(Versions, P))
  <1> DEFINE s == Picked(Versions, P \ W)
             t == Picked(Versions, P)
             n == Cardinality(W)
             r == Cardinality(P \ W)
  <1>1. /\ P \in SUBSET Nat /\ IsFiniteSet(P) /\ Cardinality(P) \in Nat /\ n \in Nat /\ r \in Nat
        /\ s \in Seq(Nat) /\ t \in Seq(Nat)
    BY PlacesAre
  <1>2. Cardinality(P) = n + r /\ \A i \in 1..r : Ascending(P)[n + i] = Ascending(P \ W)[i]
    BY <1>1, AscendingTail
  <1>3. DOMAIN Ascending(P) = 1..Cardinality(P) /\ DOMAIN Ascending(P \ W) = 1..r
    BY DEF Ascending
  <1>4. /\ s = [i \in DOMAIN Ascending(P \ W) |-> Versions[Ascending(P \ W)[i]]]
        /\ t = [i \in DOMAIN Ascending(P) |-> Versions[Ascending(P)[i]]]
    BY DEF Picked
  <1> HIDE DEF s, t, n, r
  <1>5. Len(s) = r /\ Len(t) = n + r
    <2>1. DOMAIN s = 1..r /\ DOMAIN t = 1..(n + r)
      BY <1>2, <1>3, <1>4
    <2> QED BY <1>1, <2>1
  <1>6. \A i \in 1..r : s[i] = t[n + i]
    <2>1. \A i \in 1..r : n + i \in 1..(n + r)
      BY <1>1
    <2> QED BY <1>2, <1>3, <1>4, <2>1
  <1>7. IsSuffix(s, t)
    BY <1>1, <1>5, <1>6, SuffixIs
  <1> QED BY <1>7 DEF s, t

LEMMA CalledPendingIs ==
    ASSUME VersionsDiffer, NEW file
    PROVE  CalledPending(file) = Picked(Versions, Pending(file)) /\ Pending(file) \in SUBSET DOMAIN Versions
  <1> DEFINE lines == [i \in DOMAIN Versions |-> [version |-> Versions[i], applied |-> Versions[i] \in AppliedVersions(file)]]
  <1>1. ReportStatus(file).prints = lines
    BY DEF ReportStatus
  <1>2. DOMAIN lines = DOMAIN Versions /\ \A i \in DOMAIN Versions : lines[i].version = Versions[i]
                                       /\ (lines[i].applied <=> Versions[i] \in AppliedVersions(file))
    OBVIOUS
  <1>3. Versions = [i \in DOMAIN Versions |-> Versions[i]]
    BY DEF VersionsDiffer
  <1> HIDE DEF lines
  <1>4. {i \in DOMAIN lines : ~lines[i].applied} = Pending(file)
    BY <1>2 DEF Pending
  <1>5. [i \in DOMAIN lines |-> lines[i].version] = Versions
    BY <1>2, <1>3
  <1> QED BY <1>1, <1>4, <1>5 DEF CalledPending, Pending

\* Db::open on a file applies the pending versions at W, and leaves the others.
OpensWith(file, breaks, W) ==
    /\ \A w \in W, x \in Pending(file) \ W : w < x
    /\ breaks = {} => W = Pending(file)
    /\ DbOpen(file, breaks) = [ok |-> W = Pending(file), file |-> file \cup {Versions[i] : i \in W}]
    /\ DbOpen(file, breaks).file \ ToSet(Versions) = {}
    /\ Pending(DbOpen(file, breaks).file) = Pending(file) \ W
    /\ {i \in DOMAIN Versions : Versions[i] \in DbOpen(file, breaks).file \ file} = W

\* A run on a file this binary knows applies the pending versions up to the first
\* that fails.
LEMMA OpenIs ==
    ASSUME VersionsDiffer, NEW file, NEW breaks, file \ ToSet(Versions) = {}
    PROVE  \E W \in SUBSET Pending(file) : OpensWith(file, breaks, W)
  <1> DEFINE P == Pending(file)
             W == {i \in P : \A k \in P : k <= i => Versions[k] \notin breaks}
             after == file \cup {Versions[i] : i \in W}
             db == DbOpen(file, breaks)
  <1>1. DOMAIN Versions = 1..Len(Versions) /\ Len(Versions) \in Nat
        /\ \A i, j \in DOMAIN Versions : Versions[i] = Versions[j] => i = j
    BY DEF VersionsDiffer
  <1>2. P = {i \in DOMAIN Versions : Versions[i] \notin file}
    BY DEF Pending, AppliedVersions
  <1>3. db = [ok |-> W = P, file |-> after]
    BY Zenon DEF DbOpen, AppliedVersions
  <1>4. db.file = after
    BY <1>3
  <1> HIDE DEF P, db
  <1>5. ASSUME NEW w \in W, NEW x \in P \ W PROVE w < x
    <2>1. w \in Nat /\ x \in Nat
      BY <1>1, <1>2
    <2>2. PICK k \in P : k <= x /\ Versions[k] \in breaks
      OBVIOUS
    <2>3. k \in Nat /\ ~(k <= w)
      BY <1>1, <1>2, <2>2
    <2> QED BY <2>1, <2>2, <2>3
  <1>6. breaks = {} => W = P
    OBVIOUS
  <1>7. W \in SUBSET P
    OBVIOUS
  <1> HIDE DEF W
  <1>8. after \ ToSet(Versions) = {}
    BY <1>2, <1>7 DEF ToSet
  <1>9. {i \in DOMAIN Versions : Versions[i] \notin after} = P \ W
    BY <1>1, <1>2, <1>7
  <1>10. {i \in DOMAIN Versions : Versions[i] \in after \ file} = W
    BY <1>1, <1>2, <1>7
  <1>11. Pending(after) = P \ W
    BY <1>9 DEF Pending, AppliedVersions
  <1> HIDE DEF after
  <1>12. \A w \in W, x \in P \ W : w < x
    BY <1>5
  <1>13. W \in SUBSET Pending(file)
    BY <1>7 DEF P
  <1> QED BY <1>3, <1>4, <1>6, <1>8, <1>10, <1>11, <1>12, <1>13 DEF OpensWith, P, db, after

RunsWith(file, breaks, W) ==
    LET done == Migrate(file, breaks)
    IN /\ \A w \in W, x \in Pending(file) \ W : w < x
       /\ breaks = {} => W = Pending(file)
       /\ W = Pending(file) => done.code = 0 /\ done.prints = CalledPending(file)
       /\ W # Pending(file) => done.code = 1 /\ done.prints = <<>>
       /\ done.file \ ToSet(Versions) = {}
       /\ CalledPending(done.file) = Picked(Versions, Pending(file) \ W)
       /\ Pending(done.file) = Pending(file) \ W

LEMMA MigrateIs ==
    ASSUME VersionsDiffer, NEW file, NEW breaks, file \ ToSet(Versions) = {}
    PROVE  \E W \in SUBSET Pending(file) : RunsWith(file, breaks, W)
  <1> DEFINE P == Pending(file)
             db == DbOpen(file, breaks)
             done == Migrate(file, breaks)
  <1>0. PICK W \in SUBSET P : OpensWith(file, breaks, W)
    BY OpenIs
  <1>1. /\ \A w \in W, x \in P \ W : w < x
        /\ breaks = {} => W = P
        /\ db = [ok |-> W = P, file |-> file \cup {Versions[i] : i \in W}]
        /\ db.file \ ToSet(Versions) = {}
        /\ Pending(db.file) = P \ W
        /\ {i \in DOMAIN Versions : Versions[i] \in db.file \ file} = W
    BY <1>0 DEF OpensWith
  <1>2. done = IF ~db.ok THEN [code |-> 1, file |-> db.file, prints |-> <<>>]
               ELSE [code |-> 0, file |-> db.file, prints |-> Picked(Versions, {i \in DOMAIN Versions : Versions[i] \in db.file \ file})]
    BY Zenon DEF Migrate, AppliedVersions
  <1>3. CalledPending(file) = Picked(Versions, P) /\ CalledPending(db.file) = Picked(Versions, Pending(db.file))
    BY CalledPendingIs
  <1> HIDE DEF P, db, done
  <1>4. (db.ok <=> W = P) /\ db.file = file \cup {Versions[i] : i \in W}
    BY <1>1
  <1>5. done.file = db.file /\ (W = P => done.code = 0 /\ done.prints = Picked(Versions, W))
        /\ (W # P => done.code = 1 /\ done.prints = <<>>)
    <2>1. CASE db.ok
      <3>1. done = [code |-> 0, file |-> db.file, prints |-> Picked(Versions, W)]
        BY <1>1, <1>2, <2>1
      <3> QED BY <1>4, <2>1, <3>1
    <2>2. CASE ~db.ok
      <3>1. done = [code |-> 1, file |-> db.file, prints |-> <<>>]
        BY <1>2, <2>2
      <3> QED BY <1>4, <2>2, <3>1
    <2> QED BY <2>1, <2>2
  <1>6. done.prints = CalledPending(file) \/ W # P
    BY <1>3, <1>5
  <1>7. CalledPending(done.file) = Picked(Versions, P \ W) /\ Pending(done.file) = P \ W
        /\ done.file \ ToSet(Versions) = {}
    BY <1>1, <1>3, <1>5
  <1>8. W = P => done.code = 0 /\ done.prints = CalledPending(file)
    BY <1>4, <1>5, <1>6
  <1>9. W # P => done.code = 1 /\ done.prints = <<>>
    BY <1>5
  <1>10. W \in SUBSET Pending(file)
    BY DEF P
  <1> QED BY <1>1, <1>7, <1>8, <1>9, <1>10 DEF RunsWith, P, done

\* For any list of different migrations, any file and any versions that fail to
\* apply, MigrationsCatchUp: what status calls pending is what the next run
\* applies and prints, in that order; a run that breaks off leaves the rest
\* pending, and the one after the repair applies and prints exactly that rest; a
\* further run does nothing; a file of a newer binary is left as it was (migrate,
\* report_status, Db::open).
THEOREM MigrationsCatch ==
    ASSUME VersionsDiffer, NEW file, NEW breaks
    PROVE  MigrationsCatchUp(file, breaks)
  <1> DEFINE first == Migrate(file, breaks)
             mended == Migrate(first.file, {})
             last == Migrate(mended.file, breaks)
             P == Pending(file)
  <1>1. CASE AppliedVersions(file) \ ToSet(Versions) # {}
    <2>1. DbOpen(file, breaks) = [ok |-> FALSE, file |-> file]
      BY <1>1 DEF DbOpen
    <2>2. first = [code |-> 1, file |-> file, prints |-> <<>>]
      BY <2>1 DEF Migrate
    <2>3. first.code = 1 /\ first.file = file
      BY <2>2
    <2> QED BY <1>1, <2>3, Zenon DEF MigrationsCatchUp
  <1>2. CASE AppliedVersions(file) \ ToSet(Versions) = {}
    <2>1. file \ ToSet(Versions) = {}
      BY <1>2 DEF AppliedVersions
    <2>2. P \in SUBSET DOMAIN Versions
      BY DEF Pending
    <2>0. PICK W \in SUBSET P : RunsWith(file, breaks, W)
      BY <2>1, MigrateIs
    <2>3. /\ \A w \in W, x \in P \ W : w < x
          /\ W = P => first.code = 0 /\ first.prints = CalledPending(file)
          /\ W # P => first.code = 1 /\ first.prints = <<>>
          /\ first.file \ ToSet(Versions) = {}
          /\ CalledPending(first.file) = Picked(Versions, P \ W)
          /\ Pending(first.file) = P \ W
      BY <2>0 DEF RunsWith
    <2>4. CalledPending(first.file) = <<>> <=> W = P
      <3>1. CalledPending(first.file) = <<>> <=> P \ W = {}
        BY <2>2, <2>3, PlacesAre
      <3>2. P \ W = {} <=> W = P
        OBVIOUS
      <3> QED BY <3>1, <3>2
    <2>5. IsSuffix(CalledPending(first.file), CalledPending(file))
      <3>1. CalledPending(file) = Picked(Versions, P)
        BY CalledPendingIs
      <3>2. IsSuffix(Picked(Versions, P \ W), Picked(Versions, P))
        BY <2>2, <2>3, TailIsPicked
      <3> QED BY <2>3, <3>1, <3>2
    <2> HIDE DEF first, P
    <2>6. /\ mended.code = 0 /\ mended.prints = CalledPending(first.file)
          /\ mended.file \ ToSet(Versions) = {} /\ Pending(mended.file) = {}
      <3> DEFINE Q == Pending(first.file)
      <3>1. PICK X \in SUBSET Q : RunsWith(first.file, {}, X)
        BY <2>3, MigrateIs
      <3>2. /\ X = Q
            /\ X = Q => mended.code = 0 /\ mended.prints = CalledPending(first.file)
            /\ mended.file \ ToSet(Versions) = {}
            /\ Pending(mended.file) = Q \ X
        BY <3>1 DEF RunsWith
      <3> HIDE DEF Q, mended
      <3> QED BY <3>2
    <2> HIDE DEF mended
    <2>7. last = [code |-> 0, file |-> mended.file, prints |-> <<>>]
      <3>1. DbOpen(mended.file, breaks).ok /\ DbOpen(mended.file, breaks).file = mended.file
        <4> DEFINE db == DbOpen(mended.file, breaks)
        <4>0. PICK X \in SUBSET Pending(mended.file) : OpensWith(mended.file, breaks, X)
          BY <2>6, OpenIs
        <4>1. db = [ok |-> X = Pending(mended.file), file |-> mended.file \cup {Versions[i] : i \in X}]
          BY <4>0 DEF OpensWith
        <4> HIDE DEF db
        <4>2. X = {} /\ Pending(mended.file) = {} /\ {Versions[i] : i \in X} = {}
          BY <2>6, <4>1
        <4>3. db.ok <=> X = Pending(mended.file)
          BY <4>1
        <4>4. db.file = mended.file \cup {Versions[i] : i \in X}
          BY <4>1
        <4> QED BY <4>2, <4>3, <4>4 DEF db
      <3>2. {i \in DOMAIN Versions : Versions[i] \in mended.file \ mended.file} = {}
        OBVIOUS
      <3>3. Picked(Versions, {}) = <<>>
        BY PlacesAre
      <3>4. last = IF ~DbOpen(mended.file, breaks).ok
                   THEN [code |-> 1, file |-> DbOpen(mended.file, breaks).file, prints |-> <<>>]
                   ELSE [code |-> 0, file |-> DbOpen(mended.file, breaks).file,
                         prints |-> Picked(Versions, {i \in DOMAIN Versions : Versions[i] \in DbOpen(mended.file, breaks).file \ mended.file})]
        BY Zenon DEF Migrate, AppliedVersions
      <3> HIDE DEF last
      <3> QED BY <3>1, <3>2, <3>3, <3>4
    <2>8. first.code = 0 <=> CalledPending(first.file) = <<>>
      BY <2>3, <2>4
    <2>9. first.code = 0 => first.prints = CalledPending(file)
      BY <2>3
    <2>10. first.code = 1 => first.prints = <<>>
      BY <2>3
    <2> HIDE DEF last
    <2> QED BY <1>2, <2>5, <2>6, <2>7, <2>8, <2>9, <2>10, Zenon DEF MigrationsCatchUp, first, mended, last
  <1> QED BY <1>1, <1>2
-----------------------------------------------------------------------------
(***************************************************************************)
(* What an instance starts from.                                           *)
(***************************************************************************)
OptionOf(V) == {<<>>} \cup {<<v>> : v \in V}

\* An option in the environment or else in the file.
Told(said, env, option) == I!Or(env[option], said[option])

TextOptions == {"bind", "external_url", "data_dir", "proxy", "log", "definitions_url"}

Loaded(bind, external, update, seconds, data, proxy, log, url) ==
    IF bind \notin Addresses THEN I!Fails("bind")
    ELSE IF external \notin Urls THEN I!Fails("external_url")
    ELSE IF update = I!None THEN I!Fails("auto_update")
    ELSE IF seconds = I!None \/ seconds[1] = 0 THEN I!Fails("interval")
    ELSE [ok |-> TRUE, bind |-> bind, data_dir |-> data, external_url |-> external,
          proxy |-> proxy, log |-> log, definitions_auto_update |-> update[1],
          definitions_interval |-> seconds[1], definitions_url |-> url]

BindOf(said, env) == I!Or(Told(said, env, "bind"), <<I!DEFAULT_BIND>>)[1]

LEMMA FileIsRead ==
    ASSUME NEW said
    PROVE  I!ReadFileConfig(I!Holding(said)) = [ok |-> TRUE, config |-> said]
  <1>1. I!Holding(said).is = "read" /\ I!Holding(said).says = said
    BY DEF I!Holding
  <1> QED BY <1>1 DEF I!ReadFileConfig

LEMMA LoadedIs ==
    ASSUME NEW said, NEW env
    PROVE  I!LoadConfig(I!Holding(said), env) =
             Loaded(BindOf(said, env),
                    I!Or(Told(said, env, "external_url"), <<I!Url(BindOf(said, env))>>)[1],
                    I!AutoUpdate(env["definitions_auto_update"], said["definitions_auto_update"]),
                    I!Interval(env["definitions_interval"], said["definitions_interval"]),
                    I!Or(Told(said, env, "data_dir"), <<I!DEFAULT_DATA_DIR>>)[1],
                    I!Or(Told(said, env, "proxy"), I!None),
                    I!Or(Told(said, env, "log"), <<I!DEFAULT_LOG>>)[1],
                    I!Or(Told(said, env, "definitions_url"), <<I!DEFAULT_DEFINITIONS_URL>>)[1])
  <1> DEFINE read == I!ReadFileConfig(I!Holding(said))
  <1>1. read.ok /\ read.config = said
    BY FileIsRead
  <1> HIDE DEF read
  <1> QED BY <1>1, Zenon DEF I!LoadConfig, I!FirstOf, Loaded, BindOf, Told, read

LEMMA LoadsAlike ==
    ASSUME NEW said, NEW env, NEW told, NEW heard,
           \A option \in TextOptions : Told(told, heard, option) = Told(said, env, option),
           I!AutoUpdate(heard["definitions_auto_update"], told["definitions_auto_update"])
             = I!AutoUpdate(env["definitions_auto_update"], said["definitions_auto_update"]),
           I!Interval(heard["definitions_interval"], told["definitions_interval"])
             = I!Interval(env["definitions_interval"], said["definitions_interval"])
    PROVE  I!LoadConfig(I!Holding(told), heard) = I!LoadConfig(I!Holding(said), env)
  <1>1. /\ Told(told, heard, "bind") = Told(said, env, "bind")
        /\ Told(told, heard, "external_url") = Told(said, env, "external_url")
        /\ Told(told, heard, "data_dir") = Told(said, env, "data_dir")
        /\ Told(told, heard, "proxy") = Told(said, env, "proxy")
        /\ Told(told, heard, "log") = Told(said, env, "log")
        /\ Told(told, heard, "definitions_url") = Told(said, env, "definitions_url")
    BY DEF TextOptions
  <1>2. BindOf(told, heard) = BindOf(said, env)
    BY <1>1 DEF BindOf
  <1> QED BY <1>1, <1>2, LoadedIs

LEMMA SomethingOrNothing ==
    /\ \A v : <<v>> # I!None /\ <<v>>[1] = v
    /\ \A o : I!Or(I!None, o) = o
    /\ \A v, o : I!Or(<<v>>, o) = <<v>>
  <1>1. \A v : <<v>> # <<>>
    <2>1. \A v : Len(<<v>>) = 1
      OBVIOUS
    <2>2. Len(<<>>) = 0
      OBVIOUS
    <2> QED BY <2>1, <2>2
  <1> QED BY <1>1 DEF I!None, I!Or

LEMMA OptionIs ==
    ASSUME NEW V, NEW o \in OptionOf(V), o # I!None
    PROVE  \E v : o = <<v>> /\ o[1] = v
  <1> QED BY SomethingOrNothing DEF OptionOf, I!None

\* What the default binds and announces is an address and a URL.
DefaultsParse == I!DEFAULT_BIND \in Addresses /\ I!Url(I!DEFAULT_BIND) \in Urls

\* Where an option stands in a file as it says in the environment, it has moved.
LEMMA OptionMoves ==
    ASSUME NEW V, NEW said \in [I!Options -> OptionOf(V)], NEW env \in [I!Options -> OptionOf(V)],
           NEW option \in I!Options, env[option] # I!None, NEW value, value # I!None,
           option \in TextOptions => value = env[option],
           option = "definitions_auto_update" => value = I!ParseBoolFlag(env[option][1]),
           option = "definitions_interval" => value = I!Seconds(env[option][1])
    PROVE  I!LoadConfig(I!Holding([said EXCEPT ![option] = value]), [env EXCEPT ![option] = I!None])
             = I!LoadConfig(I!Holding(said), env)
  <1> DEFINE told == [said EXCEPT ![option] = value]
             heard == [env EXCEPT ![option] = I!None]
  <1>1. /\ told[option] = value /\ heard[option] = I!None
        /\ \A other \in I!Options \ {option} : told[other] = said[other] /\ heard[other] = env[other]
    OBVIOUS
  <1>2. TextOptions \cup {"definitions_auto_update", "definitions_interval"} \subseteq I!Options
        /\ "definitions_auto_update" \notin TextOptions /\ "definitions_interval" \notin TextOptions
    BY DEF TextOptions, I!Options
  <1> HIDE DEF told, heard
  <1>3. \A o : I!Or(env[option], o) = env[option] /\ I!Or(value, o) = value /\ I!Or(I!None, o) = o
    BY SomethingOrNothing, OptionIs DEF I!Or
  <1>4. ASSUME NEW text \in TextOptions PROVE Told(told, heard, text) = Told(said, env, text)
    <2>1. CASE text = option
      BY <1>1, <1>3, <2>1 DEF Told
    <2>2. CASE text # option
      BY <1>1, <1>2, <2>2 DEF Told
    <2> QED BY <2>1, <2>2
  <1>5. I!AutoUpdate(heard["definitions_auto_update"], told["definitions_auto_update"])
          = I!AutoUpdate(env["definitions_auto_update"], said["definitions_auto_update"])
    <2>1. CASE option = "definitions_auto_update"
      BY <1>1, <1>3, <2>1 DEF I!AutoUpdate
    <2>2. CASE option # "definitions_auto_update"
      BY <1>1, <1>2, <2>2
    <2> QED BY <2>1, <2>2
  <1>6. I!Interval(heard["definitions_interval"], told["definitions_interval"])
          = I!Interval(env["definitions_interval"], said["definitions_interval"])
    <2>1. CASE option = "definitions_interval"
      BY <1>1, <1>3, <2>1 DEF I!Interval
    <2>2. CASE option # "definitions_interval"
      BY <1>1, <1>2, <2>2
    <2> QED BY <2>1, <2>2
  <1>7. I!LoadConfig(I!Holding(told), heard) = I!LoadConfig(I!Holding(said), env)
    BY <1>4, <1>5, <1>6, LoadsAlike
  <1> QED BY <1>7 DEF told, heard

\* A text that is no truth value, or no number of seconds, fails the start.
LEMMA WrongIsNotIgnored ==
    ASSUME NEW V, NEW said \in [I!Options -> OptionOf(V)], NEW env \in [I!Options -> OptionOf(V)]
    PROVE  /\ env["definitions_auto_update"] # I!None /\ I!ParseBoolFlag(env["definitions_auto_update"][1]) = I!None
                => ~I!LoadConfig(I!Holding(said), env).ok
           /\ env["definitions_interval"] # I!None /\ I!Seconds(env["definitions_interval"][1]) = I!None
                => ~I!LoadConfig(I!Holding(said), env).ok
  <1> DEFINE update == I!AutoUpdate(env["definitions_auto_update"], said["definitions_auto_update"])
             seconds == I!Interval(env["definitions_interval"], said["definitions_interval"])
             external == I!Or(Told(said, env, "external_url"), <<I!Url(BindOf(said, env))>>)[1]
  <1>1. \A error : ~I!Fails(error).ok
    BY DEF I!Fails
  <1>2. I!LoadConfig(I!Holding(said), env).ok =>
          update # I!None /\ seconds # I!None
    <2>1. PICK data, proxy, log, url :
            I!LoadConfig(I!Holding(said), env)
              = Loaded(BindOf(said, env), external, update, seconds, data, proxy, log, url)
      BY LoadedIs
    <2> HIDE DEF update, seconds, external
    <2> QED BY <1>1, <2>1 DEF Loaded
  <1> QED BY <1>2 DEF I!AutoUpdate, I!Interval

\* What is said nowhere does not fail the start.
LEMMA SilenceLoads ==
    ASSUME NEW V, NEW said \in [I!Options -> OptionOf(V)], NEW env \in [I!Options -> OptionOf(V)],
           DefaultsParse,
           \A option \in I!Options \ {"data_dir", "proxy", "log", "definitions_url"} :
              I!Or(env[option], said[option]) = I!None
    PROVE  I!LoadConfig(I!Holding(said), env).ok
  <1>1. /\ I!Or(env["bind"], said["bind"]) = I!None
        /\ I!Or(env["external_url"], said["external_url"]) = I!None
        /\ I!Or(env["definitions_auto_update"], said["definitions_auto_update"]) = I!None
        /\ I!Or(env["definitions_interval"], said["definitions_interval"]) = I!None
    BY DEF I!Options
  <1>2. \A a, b : I!Or(a, b) = I!None => a = I!None /\ b = I!None
    BY DEF I!Or
  <1>3. BindOf(said, env) = I!DEFAULT_BIND
    BY <1>1, SomethingOrNothing DEF BindOf, Told
  <1>4. I!Or(Told(said, env, "external_url"), <<I!Url(BindOf(said, env))>>)[1] = I!Url(I!DEFAULT_BIND)
    BY <1>1, <1>3, SomethingOrNothing DEF Told
  <1> DEFINE yes == TRUE
             update == I!AutoUpdate(env["definitions_auto_update"], said["definitions_auto_update"])
             seconds == I!Interval(env["definitions_interval"], said["definitions_interval"])
  <1>5. update = <<yes>>
    BY <1>1, <1>2, SomethingOrNothing DEF I!AutoUpdate
  <1>6. seconds = <<86400>>
    BY <1>1, <1>2, SomethingOrNothing DEF I!Interval, I!DEFAULT_DEFINITIONS_INTERVAL
  <1> HIDE DEF yes, update, seconds
  <1>7. update # I!None /\ seconds # I!None /\ seconds[1] = 86400
    BY <1>5, <1>6, SomethingOrNothing
  <1>8. PICK data, proxy, log, url :
          I!LoadConfig(I!Holding(said), env)
            = Loaded(I!DEFAULT_BIND, I!Url(I!DEFAULT_BIND), update, seconds, data, proxy, log, url)
    BY <1>3, <1>4, LoadedIs DEF update, seconds
  <1> QED BY <1>7, <1>8 DEF Loaded, DefaultsParse

\* Whatever file and environment say: an option means the same in both, the one in
\* the environment makes the one in the file of no account, right or wrong, and
\* nothing fails that nobody said (config.rs, load_config).
THEOREM OptionsLayered ==
    ASSUME NEW V, NEW said \in [I!Options -> OptionOf(V)], NEW env \in [I!Options -> OptionOf(V)],
           DefaultsParse
    PROVE  I!OptionsAreLayered(said, env)
  <1> DEFINE loaded == I!LoadConfig(I!Holding(said), env)
             silent(option) == [env EXCEPT ![option] = I!None]
             inFile(option) ==
                CASE option = "definitions_auto_update" -> I!ParseBoolFlag(env[option][1])
                  [] option = "definitions_interval" -> I!Seconds(env[option][1])
                  [] OTHER -> env[option]
  <1>1. ASSUME NEW option \in I!Options, env[option] # I!None
        PROVE  IF inFile(option) = I!None THEN ~loaded.ok
               ELSE loaded = I!LoadConfig(I!Holding([said EXCEPT ![option] = inFile(option)]), silent(option))
    <2>1. /\ option \in TextOptions => inFile(option) = env[option]
          /\ option = "definitions_auto_update" => inFile(option) = I!ParseBoolFlag(env[option][1])
          /\ option = "definitions_interval" => inFile(option) = I!Seconds(env[option][1])
          /\ option \in TextOptions \/ option = "definitions_auto_update" \/ option = "definitions_interval"
      BY DEF TextOptions, I!Options
    <2> DEFINE value == inFile(option)
    <2>2. CASE value = I!None
      <3> HIDE DEF value
      <3>1. option = "definitions_auto_update" \/ option = "definitions_interval"
        BY <1>1, <2>1, <2>2 DEF value
      <3>2. ~loaded.ok
        BY <1>1, <2>1, <2>2, <3>1, WrongIsNotIgnored DEF value
      <3> QED BY <2>2, <3>2 DEF value
    <2>3. CASE value # I!None
      <3> HIDE DEF value
      <3>0. /\ option \in TextOptions => value = env[option]
            /\ option = "definitions_auto_update" => value = I!ParseBoolFlag(env[option][1])
            /\ option = "definitions_interval" => value = I!Seconds(env[option][1])
        BY <2>1 DEF value
      <3>1. I!LoadConfig(I!Holding([said EXCEPT ![option] = value]), silent(option)) = loaded
        BY <1>1, <2>3, <3>0, OptionMoves
      <3> QED BY <2>3, <3>1 DEF value
    <2> QED BY <2>2, <2>3
  <1>2. (\A option \in I!Options \ {"data_dir", "proxy", "log", "definitions_url"} : I!Or(env[option], said[option]) = I!None)
          => loaded.ok
    BY SilenceLoads
  <1> HIDE DEF loaded
  <1> QED BY <1>1, <1>2, Zenon DEF I!OptionsAreLayered, loaded

LEMMA LastFlagCounts ==
    ASSUME NEW A, NEW args \in Seq(A), NEW value
    PROVE  LET parsed == I!ParseArgs(args \o <<"--config", value>>)
           IN IF I!ParseArgs(args).ok THEN parsed = [ok |-> TRUE, config |-> <<value>>]
              ELSE parsed = I!Fails("usage")
  <1> DEFINE more == args \o <<"--config", value>>
             n == Len(args)
             wrong(s) == Len(s) % 2 = 1 \/ \E i \in DOMAIN s : i % 2 = 1 /\ s[i] # "--config"
  <1>1. /\ n \in Nat /\ DOMAIN args = 1..n /\ Len(more) = n + 2 /\ DOMAIN more = 1..n + 2
        /\ \A i \in 1..n : more[i] = args[i]
        /\ more[n + 1] = "--config" /\ more[n + 2] = value
    <2>1. <<"--config", value>> \in Seq({"--config", value}) /\ Len(<<"--config", value>>) = 2
      OBVIOUS
    <2>2. args \in Seq(A \cup {"--config", value}) /\ <<"--config", value>> \in Seq(A \cup {"--config", value})
      BY <2>1
    <2> QED BY <2>1, <2>2
  <1>2. more # <<>>
    <2>1. Len(more) # 0
      BY <1>1
    <2> QED BY <2>1
  <1>3. wrong(more) <=> wrong(args)
    <2> HIDE DEF more, n
    <2>1. ASSUME wrong(args) PROVE wrong(more)
      <3>1. Len(args) = n
        BY DEF n
      <3>2. CASE Len(args) % 2 = 1
        BY <1>1, <3>1, <3>2
      <3>3. CASE \E i \in DOMAIN args : i % 2 = 1 /\ args[i] # "--config"
        BY <1>1, <3>3
      <3> QED BY <2>1, <3>2, <3>3
    <2>2. ASSUME wrong(more), ~wrong(args) PROVE FALSE
      <3>1. Len(args) = n
        BY DEF n
      <3>2. n % 2 = 0 /\ (n + 2) % 2 = 0
        BY <1>1, <2>2, <3>1
      <3>3. PICK i \in 1..n + 2 : i % 2 = 1 /\ more[i] # "--config"
        BY <1>1, <2>2, <3>2
      <3>4. i \in 1..n
        BY <1>1, <3>2, <3>3
      <3> QED BY <1>1, <2>2, <3>3, <3>4
    <2> QED BY <2>1, <2>2
  <1>4. \A s : wrong(s) => I!ParseArgs(s) = I!Fails("usage")
    BY DEF I!ParseArgs
  <1>5. \A s : ~wrong(s) => I!ParseArgs(s) = [ok |-> TRUE, config |-> IF s = <<>> THEN I!None ELSE <<s[Len(s)]>>]
    BY DEF I!ParseArgs
  <1>6. ~I!Fails("usage").ok
    BY DEF I!Fails
  <1>7. ~wrong(args) => I!ParseArgs(args).ok
    BY <1>5
  <1> HIDE DEF more, wrong
  <1>8. ~wrong(more) => I!ParseArgs(more) = [ok |-> TRUE, config |-> <<value>>]
    BY <1>1, <1>2, <1>5
  <1> QED BY <1>3, <1>4, <1>6, <1>7, <1>8 DEF more

\* Whatever arguments, file and environment: the file is found where the last flag
\* says, else where the environment says, else below the data directory of the
\* environment, and says the same in each of these places (main.rs).
THEOREM ConfigFound ==
    ASSUME NEW A, NEW args \in Seq(A), NEW file, NEW env
    PROVE  I!ConfigIsFound(args, file, env)
  <1> DEFINE at(path) == [p \in {path} |-> file]
             found == I!LoadConfig(file, env)
             below == I!In(I!Or(env["data_dir"], <<I!DEFAULT_DATA_DIR>>)[1], "config.toml")
  <1>1. \A path : at(path)[path] = file /\ path \in DOMAIN at(path)
    OBVIOUS
  <1>2. I!ParseArgs(<<>>) = [ok |-> TRUE, config |-> I!None]
    <2>1. Len(<<>>) = 0 /\ DOMAIN <<>> = {}
      OBVIOUS
    <2>2. 0 % 2 # 1
      OBVIOUS
    <2> QED BY <2>1, <2>2 DEF I!ParseArgs
  <1>3. I!ResolveConfigPath(I!None, <<"e">>, env["data_dir"]) = "e"
    <2> DEFINE e == "e"
               under == I!In(I!Or(env["data_dir"], <<I!DEFAULT_DATA_DIR>>)[1], "config.toml")
    <2> HIDE DEF e, under
    <2>1. I!Or(I!None, I!Or(<<e>>, <<under>>))[1] = e
      BY SomethingOrNothing
    <2> QED BY <2>1 DEF I!ResolveConfigPath, e, under
  <1>4. I!ResolveConfigPath(I!None, I!None, env["data_dir"]) = below
    <2> HIDE DEF below
    <2>1. I!Or(I!None, I!Or(I!None, <<below>>))[1] = below
      BY SomethingOrNothing
    <2> QED BY <2>1 DEF I!ResolveConfigPath, below
  <1>5. I!LoadConfigured(<<>>, <<"e">>, env, at("e")) = found
    BY <1>1, <1>2, <1>3 DEF I!LoadConfigured
  <1>6. I!LoadConfigured(<<>>, I!None, env, at(below)) = found
    <2> HIDE DEF below
    <2> QED BY <1>1, <1>2, <1>4 DEF I!LoadConfigured
  <1>7. ASSUME NEW first \in {"e", "f"}
        PROVE  I!LoadConfigured(args \o <<"--config", first>>, <<"e">>, env, at(first))
                 = IF I!ParseArgs(args).ok THEN found ELSE I!Fails("usage")
    <2> DEFINE parsed == I!ParseArgs(args \o <<"--config", first>>)
    <2>1. IF I!ParseArgs(args).ok THEN parsed = [ok |-> TRUE, config |-> <<first>>] ELSE parsed = I!Fails("usage")
      BY LastFlagCounts
    <2>2. I!ResolveConfigPath(<<first>>, <<"e">>, env["data_dir"]) = first
      <3> DEFINE others == I!Or(<<"e">>, <<I!In(I!Or(env["data_dir"], <<I!DEFAULT_DATA_DIR>>)[1], "config.toml")>>)
      <3> HIDE DEF others
      <3>1. I!Or(<<first>>, others)[1] = first
        BY SomethingOrNothing
      <3> QED BY <3>1 DEF I!ResolveConfigPath, others
    <2>3. ~I!Fails("usage").ok
      BY DEF I!Fails
    <2>4. I!LoadConfigured(args \o <<"--config", first>>, <<"e">>, env, at(first))
            = IF ~parsed.ok THEN parsed
              ELSE I!LoadConfig(IF I!ResolveConfigPath(parsed.config, <<"e">>, env["data_dir"]) \in DOMAIN at(first)
                                THEN at(first)[I!ResolveConfigPath(parsed.config, <<"e">>, env["data_dir"])] ELSE I!Missing, env)
      BY Zenon DEF I!LoadConfigured
    <2> HIDE DEF parsed
    <2>5. CASE I!ParseArgs(args).ok
      <3>1. parsed.ok /\ parsed.config = <<first>>
        BY <2>1, <2>5
      <3> QED BY <1>1, <2>2, <2>4, <2>5, <3>1
    <2>6. CASE ~I!ParseArgs(args).ok
      BY <2>1, <2>3, <2>4, <2>6
    <2> QED BY <2>5, <2>6
  <1> HIDE DEF at, found, below
  <1> QED BY <1>5, <1>6, <1>7, Zenon DEF I!ConfigIsFound, at, found, below, I!None

LEMMA NamedIs ==
    ASSUME NEW S, NEW path \in Seq(S)
    PROVE  /\ I!Named(path) \in Seq(S)
           /\ Len(path) >= 2 /\ path[1] # I!Blank /\ path[2] # I!Blank =>
                 Len(I!Named(path)) >= 2 /\ I!Named(path)[2] = path[2]
  <1> DEFINE places == {i \in DOMAIN path : path[i] # I!Blank}
             named == I!Named(path)
             order == Ascending(places)
             n == Cardinality(places)
  <1>1. DOMAIN path = 1..Len(path) /\ Len(path) \in Nat
    OBVIOUS
  <1>2. places \in SUBSET DOMAIN path /\ places \in SUBSET Nat /\ IsFiniteSet(places) /\ n \in Nat
    <2>1. IsFiniteSet(1..Len(path))
      BY <1>1, FS_Interval
    <2>2. IsFiniteSet(places)
      BY <1>1, <2>1, FS_Subset
    <2> QED BY <1>1, <2>2, FS_CardinalityType
  <1>3. named = Picked(path, places)
    <2>2. I!O!Ascending(places) = Ascending(places)
      BY Zenon DEF I!O!Ascending, Ascending, I!O!Cardinality, Cardinality
    <2> QED BY <2>2, Zenon DEF I!Named, I!O!Picked, Picked
  <1>4. /\ DOMAIN order = 1..n
        /\ \A i \in DOMAIN order : order[i] \in places
        /\ \A k \in places : \E i \in DOMAIN order : order[i] = k
        /\ \A i, j \in DOMAIN order : i < j => order[i] < order[j]
    <2> HIDE DEF places
    <2> QED BY <1>2, AscendingIs
  <1>5. named = [i \in DOMAIN order |-> path[order[i]]]
    BY <1>3 DEF Picked
  <1>6. named \in Seq(S)
    <2> HIDE DEF places, named
    <2> QED BY <1>2, <1>3, PickedSet
  <1>7. ASSUME Len(path) >= 2, path[1] # I!Blank, path[2] # I!Blank
        PROVE  Len(named) >= 2 /\ named[2] = path[2]
    <2>1. 1 \in places /\ 2 \in places
      BY <1>1, <1>7
    <2> HIDE DEF places, order, n, named
    <2>2. PICK i \in 1..n, j \in 1..n : order[i] = 1 /\ order[j] = 2
      BY <1>4, <2>1
    <2>3. i \in Nat /\ j \in Nat /\ i # j /\ n >= 2
      BY <1>2, <2>2
    <2>4. \A k \in 1..n : order[k] \in Nat /\ order[k] >= 1
      BY <1>1, <1>2, <1>4
    <2>5. j >= 2
      BY <1>4, <2>2, <2>3
    <2>6. j <= 2
      <3>1. SUFFICES ASSUME j > 2 PROVE FALSE
        BY <2>3
      <3>2. 1 \in 1..n /\ 2 \in 1..n /\ j \in 1..n
        BY <1>2, <2>2, <2>3
      <3>3. order[1] < order[2] /\ order[2] < order[j]
        BY <1>4, <3>1, <3>2
      <3>4. order[1] \in Nat /\ order[2] \in Nat /\ order[1] >= 1 /\ order[j] = 2
        BY <2>2, <2>4, <3>2
      <3> QED BY <3>3, <3>4
    <2>7. j = 2
      BY <2>3, <2>5, <2>6
    <2>8. DOMAIN named = 1..n
      BY <1>4, <1>5
    <2> QED BY <1>2, <1>4, <1>5, <1>6, <2>2, <2>3, <2>7, <2>8
  <1> QED BY <1>6, <1>7

\* A path of the UI itself: not of the API, of no asset, of no file.
IsPageOf(dir, p) == ~I!IsReservedPath(p) /\ ~I!LooksLikeAnAssetPath(p) /\ I!Named(p) \notin dir

\* Whatever bundle is embedded and path asked for: the answer is the path's own file
\* or, for what can be a path of the UI, the page; below a route, and for an asset
\* that is not there, never the page (ui.rs, serve).
THEOREM BundleAnswers ==
    ASSUME NEW S, NEW dir, NEW path \in Seq(S), path # <<>>, NEW pages, \A p \in pages : IsPageOf(dir, p)
    PROVE  I!BundleAnswersForItself(dir, path, pages)
  <1> DEFINE answer == I!Serve(dir, "GET", path)
             own == I!Named(path)
             api == I!Segment("api", "")
             route == path[1] = api \/ (Len(path) >= 2 /\ path[1] # I!Blank /\ path[2] = api)
  <1>1. api # I!Blank
    <2>1. api.stem = "api" /\ I!Blank.stem = ""
      BY DEF I!Segment, I!Blank
    <2> QED BY <2>1
  <1>2. route => I!IsReservedPath(path)
    BY <1>1, NamedIs DEF I!IsReservedPath
  <1>3. /\ I!NotFound.status = 404
        /\ \A file : I!FileResponse(file).status = 200 /\ I!FileResponse(file).file = file
        /\ \A file : I!FileResponse(file).type = I!ContentTypeFor(file)
    BY DEF I!NotFound, I!FileResponse
  <1>4. I!ContentTypeFor(I!IndexHtml) = "text/html"
    <2>1. I!IndexHtml[Len(I!IndexHtml)].extension = "html"
      BY DEF I!IndexHtml, I!Segment
    <2> QED BY <2>1 DEF I!ContentTypeFor
  <1>5. answer = IF I!IsReservedPath(path) THEN I!NotFound
                 ELSE IF own \in dir THEN I!FileResponse(own)
                 ELSE IF I!LooksLikeAnAssetPath(path) \/ I!IndexHtml \notin dir THEN I!NotFound
                 ELSE I!FileResponse(I!IndexHtml)
    BY DEF I!Serve
  <1> HIDE DEF answer, own, route
  <1>6. answer.status = 200 => answer.file \in {own, I!IndexHtml} \cap dir /\ ~route
    BY <1>2, <1>3, <1>5
  <1>7. answer.status = 200 /\ answer.file # own => path[Len(path)].extension = "" /\ path[1] # I!Segment("assets", "")
    <2>1. answer.status = 200 /\ answer.file # own => ~I!LooksLikeAnAssetPath(path)
      BY <1>3, <1>5
    <2> QED BY <2>1, Zenon DEF I!LooksLikeAnAssetPath
  <1>8. path \in pages /\ I!IndexHtml \in dir => answer.status = 200 /\ answer.type = "text/html"
    BY <1>3, <1>4, <1>5 DEF IsPageOf, own
  <1> QED BY <1>6, <1>7, <1>8, Zenon DEF I!BundleAnswersForItself, answer, own, route

-----------------------------------------------------------------------------
(***************************************************************************)
(* A feed read event by event.                                             *)
(***************************************************************************)
IsList(s) == s \in Seq(ToSet(s))

\* The states of the loop over `events`, from `begun`.
Reading(begun, events, at, n) == at = [i \in 0..n |-> IF i = 0 THEN begun ELSE Read(at[i - 1], events[i])]

LEMMA ListIs ==
    ASSUME NEW s
    PROVE  /\ \A T : s \in Seq(T) => IsList(s)
           /\ IsList(s) => Len(s) \in Nat /\ DOMAIN s = 1..Len(s)
  <1>1. ASSUME NEW T, s \in Seq(T) PROVE IsList(s)
    <2>1. s \in [1..Len(s) -> T] /\ Len(s) \in Nat /\ DOMAIN s = 1..Len(s)
      BY <1>1
    <2>2. ToSet(s) = {s[i] : i \in DOMAIN s}
      BY DEF ToSet
    <2>3. s \in [1..Len(s) -> ToSet(s)]
      BY <2>1, <2>2
    <2> QED BY <2>1, <2>3 DEF IsList
  <1>2. IsList(s) => Len(s) \in Nat /\ DOMAIN s = 1..Len(s)
    BY DEF IsList
  <1> QED BY <1>1, <1>2

LEMMA ListsJoin ==
    ASSUME NEW a, NEW b, IsList(a), IsList(b)
    PROVE  /\ IsList(a \o b) /\ Len(a \o b) = Len(a) + Len(b)
           /\ \A i \in 1..Len(a) : (a \o b)[i] = a[i]
           /\ \A i \in 1..Len(b) : (a \o b)[Len(a) + i] = b[i]
  <1> DEFINE T == ToSet(a) \cup ToSet(b)
  <1>1. ToSet(a) \subseteq T /\ ToSet(b) \subseteq T
    OBVIOUS
  <1>2. a \in Seq(T) /\ b \in Seq(T)
    <2> HIDE DEF T
    <2>1. \A A, B, x : A \subseteq B /\ x \in Seq(A) => x \in Seq(B)
      OBVIOUS
    <2> QED BY <1>1, <2>1 DEF IsList
  <1> HIDE DEF T
  <1>3. a \o b \in Seq(T)
    BY <1>2
  <1>4. IsList(a \o b)
    BY <1>3, ListIs
  <1>5. /\ Len(a \o b) = Len(a) + Len(b)
        /\ \A i \in 1..Len(a) : (a \o b)[i] = a[i]
        /\ \A i \in 1..Len(b) : (a \o b)[Len(a) + i] = b[i]
    BY <1>2
  <1> QED BY <1>4, <1>5

LEMMA ListOfOne ==
    ASSUME NEW e
    PROVE  IsList(<<e>>) /\ Len(<<e>>) = 1 /\ <<e>>[1] = e
  <1>1. <<e>> \in Seq({e})
    OBVIOUS
  <1> QED BY <1>1, ListIs

LEMMA ListOfNone == IsList(<<>>) /\ Len(<<>>) = 0
  <1>1. <<>> \in Seq({})
    OBVIOUS
  <1> QED BY <1>1, ListIs

LEMMA ReadingGoesOn ==
    ASSUME NEW begun, NEW events, NEW n \in Nat, NEW at, Reading(begun, events, at, n)
    PROVE  \E more : Reading(begun, events, more, n + 1)
  <1> DEFINE g == [i \in 0..(n + 1) |-> IF i <= n THEN at[i] ELSE Read(at[n], events[n + 1])]
  <1>1. at[0] = begun /\ \A i \in 1..n : at[i] = Read(at[i - 1], events[i])
    BY DEF Reading
  <1>2. DOMAIN g = 0..(n + 1) /\ \A i \in 0..n : g[i] = at[i]
    OBVIOUS
  <1>3. g[n + 1] = Read(at[n], events[n + 1])
    OBVIOUS
  <1>4. ASSUME NEW i \in 0..(n + 1)
        PROVE  g[i] = IF i = 0 THEN begun ELSE Read(g[i - 1], events[i])
    <2> HIDE DEF g
    <2>1. CASE i = 0
      BY <1>1, <1>2, <2>1
    <2>2. CASE i \in 1..n
      <3>1. i - 1 \in 0..n /\ i \in 0..n /\ i # 0
        BY <2>2
      <3> QED BY <1>1, <1>2, <2>2, <3>1
    <2>3. CASE i = n + 1
      <3>1. i - 1 = n /\ n \in 0..n /\ i # 0
        BY <2>3
      <3> QED BY <1>2, <1>3, <2>3, <3>1
    <2> QED BY <2>1, <2>2, <2>3
  <1>5. g = [i \in 0..(n + 1) |-> g[i]]
    BY <1>2
  <1> HIDE DEF g
  <1>6. [i \in 0..(n + 1) |-> g[i]] = [i \in 0..(n + 1) |-> IF i = 0 THEN begun ELSE Read(g[i - 1], events[i])]
    BY <1>4
  <1>7. Reading(begun, events, g, n + 1)
    BY <1>5, <1>6 DEF Reading
  <1> QED BY <1>7

LEMMA ReadingExists ==
    ASSUME NEW begun, NEW events
    PROVE  \A n \in Nat : \E at : Reading(begun, events, at, n)
  <1> DEFINE S == {n \in Nat : \E at : Reading(begun, events, at, n)}
  <1>1. 0 \in S
    <2> DEFINE g == [i \in 0..0 |-> begun]
    <2>1. g = [i \in 0..0 |-> IF i = 0 THEN begun ELSE Read(g[i - 1], events[i])]
      OBVIOUS
    <2> HIDE DEF g
    <2>2. Reading(begun, events, g, 0)
      BY <2>1 DEF Reading
    <2> QED BY <2>2
  <1>2. \A n \in Nat : n \in S => n + 1 \in S
    BY ReadingGoesOn
  <1>3. Nat \subseteq S
    <2> HIDE DEF S
    <2> QED BY <1>1, <1>2, Inductively
  <1> QED BY <1>3

Along(begun, events, at) ==
    /\ ReadAll(begun, events) = at[Len(events)]
    /\ at[0] = begun
    /\ \A i \in 1..Len(events) : at[i] = Read(at[i - 1], events[i])

LEMMA ReadAllIs ==
    ASSUME NEW begun, NEW events, Len(events) \in Nat
    PROVE  \E at : Along(begun, events, at)
  <1> DEFINE f == CHOOSE f : f = [i \in 0..Len(events) |-> IF i = 0 THEN begun ELSE Read(f[i - 1], events[i])]
  <1>1. \E g : g = [i \in 0..Len(events) |-> IF i = 0 THEN begun ELSE Read(g[i - 1], events[i])]
    <2>1. \A n \in Nat : \E at : Reading(begun, events, at, n)
      BY ReadingExists
    <2>2. PICK at : Reading(begun, events, at, Len(events))
      BY <2>1
    <2> QED BY <2>2 DEF Reading
  <1>2. f = [i \in 0..Len(events) |-> IF i = 0 THEN begun ELSE Read(f[i - 1], events[i])]
    BY <1>1, Zenon
  <1>3. ReadAll(begun, events) = f[Len(events)]
    BY Zenon DEF ReadAll
  <1> HIDE DEF f
  <1>4. f[0] = begun /\ \A i \in 1..Len(events) : f[i] = Read(f[i - 1], events[i])
    BY <1>2
  <1>5. Along(begun, events, f)
    BY <1>3, <1>4 DEF Along
  <1> QED BY <1>5

\* Any states that follow from one another by Read are those of the loop.
LEMMA ReadAllAlong ==
    ASSUME NEW begun, NEW events, Len(events) \in Nat, NEW at,
           at[0] = begun, \A i \in 1..Len(events) : at[i] = Read(at[i - 1], events[i])
    PROVE  ReadAll(begun, events) = at[Len(events)]
  <1>1. PICK f : /\ ReadAll(begun, events) = f[Len(events)]
                 /\ f[0] = begun
                 /\ \A i \in 1..Len(events) : f[i] = Read(f[i - 1], events[i])
    <2>1. PICK f : Along(begun, events, f)
      BY ReadAllIs
    <2> QED BY <2>1 DEF Along
  <1> DEFINE S == {n \in Nat : n <= Len(events) => f[n] = at[n]}
  <1>2. 0 \in S
    BY <1>1
  <1>3. ASSUME NEW n \in Nat, n \in S PROVE n + 1 \in S
    <2>1. CASE n + 1 <= Len(events)
      <3>1. n + 1 \in 1..Len(events) /\ (n + 1) - 1 = n /\ n <= Len(events)
        BY <2>1
      <3>2. f[n] = at[n]
        BY <1>3, <3>1
      <3>3. f[n + 1] = Read(f[(n + 1) - 1], events[n + 1]) /\ at[n + 1] = Read(at[(n + 1) - 1], events[n + 1])
        BY <1>1, <3>1
      <3> QED BY <3>1, <3>2, <3>3
    <2>2. CASE ~(n + 1 <= Len(events))
      BY <2>2
    <2> QED BY <2>1, <2>2
  <1>4. Nat \subseteq S
    <2> HIDE DEF S
    <2> QED BY <1>2, <1>3, Inductively
  <1> QED BY <1>1, <1>4

LEMMA ReadOne ==
    ASSUME NEW begun, NEW e
    PROVE  ReadAll(begun, <<e>>) = Read(begun, e)
  <1> DEFINE at == [i \in 0..1 |-> IF i = 0 THEN begun ELSE Read(begun, e)]
  <1>1. at[0] = begun /\ at[1] = Read(begun, e)
    OBVIOUS
  <1> HIDE DEF at
  <1>2. Len(<<e>>) = 1 /\ <<e>>[1] = e
    BY ListOfOne
  <1>3. ASSUME NEW i \in 1..Len(<<e>>) PROVE at[i] = Read(at[i - 1], <<e>>[i])
    <2>1. i = 1 /\ i - 1 = 0
      BY <1>2
    <2> QED BY <1>1, <1>2, <2>1
  <1>4. ReadAll(begun, <<e>>) = at[Len(<<e>>)]
    BY <1>1, <1>2, <1>3, ReadAllAlong
  <1> QED BY <1>1, <1>2, <1>4

LEMMA ReadNone ==
    ASSUME NEW begun
    PROVE  ReadAll(begun, <<>>) = begun
  <1> DEFINE at == [i \in 0..0 |-> begun]
  <1>1. at[0] = begun
    OBVIOUS
  <1> HIDE DEF at
  <1>2. Len(<<>>) = 0
    BY ListOfNone
  <1>3. ReadAll(begun, <<>>) = at[Len(<<>>)]
    BY <1>1, <1>2, ReadAllAlong
  <1> QED BY <1>1, <1>2, <1>3

LEMMA ReadBoth ==
    ASSUME NEW begun, NEW a, NEW b, IsList(a), IsList(b)
    PROVE  ReadAll(begun, a \o b) = ReadAll(ReadAll(begun, a), b)
  <1> DEFINE m == Len(a)
             n == Len(b)
             half == ReadAll(begun, a)
  <1>1. m \in Nat /\ n \in Nat /\ Len(a \o b) = m + n
        /\ (\A i \in 1..m : (a \o b)[i] = a[i]) /\ (\A i \in 1..n : (a \o b)[m + i] = b[i])
    BY ListIs, ListsJoin
  <1>2. PICK f : /\ half = f[m] /\ f[0] = begun
                 /\ \A i \in 1..m : f[i] = Read(f[i - 1], a[i])
    <2>1. Len(a) \in Nat
      BY <1>1
    <2>2. PICK f : Along(begun, a, f)
      BY <2>1, ReadAllIs
    <2> QED BY <2>2 DEF Along
  <1> HIDE DEF half
  <1>3. PICK g : /\ ReadAll(half, b) = g[n] /\ g[0] = half
                 /\ \A i \in 1..n : g[i] = Read(g[i - 1], b[i])
    <2>1. Len(b) \in Nat
      BY <1>1
    <2>2. PICK g : Along(half, b, g)
      BY <2>1, ReadAllIs
    <2> QED BY <2>2 DEF Along
  <1> DEFINE at == [i \in 0..(m + n) |-> IF i <= m THEN f[i] ELSE g[i - m]]
  <1> HIDE DEF m, n
  <1>4. (\A i \in 0..m : at[i] = f[i]) /\ \A i \in 0..n : at[m + i] = g[i]
    <2>1. \A i \in 0..m : at[i] = f[i]
      BY <1>1
    <2>2. ASSUME NEW i \in 0..n PROVE at[m + i] = g[i]
      <3>1. CASE i = 0
        <4>1. m + i = m /\ m \in 0..m
          BY <1>1, <3>1
        <4> QED BY <1>2, <1>3, <2>1, <3>1, <4>1
      <3>2. CASE i # 0
        <4>1. m + i \in 0..(m + n) /\ ~(m + i <= m) /\ (m + i) - m = i
          BY <1>1, <3>2
        <4> QED BY <4>1
      <3> QED BY <3>1, <3>2
    <2> QED BY <2>1, <2>2
  <1> HIDE DEF at
  <1>5. ASSUME NEW i \in 1..(m + n) PROVE at[i] = Read(at[i - 1], (a \o b)[i])
    <2>1. CASE i <= m
      <3>1. i \in 1..m /\ i \in 0..m /\ i - 1 \in 0..m
        BY <1>1, <2>1
      <3> QED BY <1>1, <1>2, <1>4, <3>1
    <2>2. CASE ~(i <= m)
      <3> DEFINE k == i - m
      <3>1. k \in 1..n /\ k \in 0..n /\ k - 1 \in 0..n /\ i = m + k /\ i - 1 = m + (k - 1)
        BY <1>1, <2>2
      <3> HIDE DEF k
      <3>2. at[i] = g[k] /\ at[i - 1] = g[k - 1] /\ (a \o b)[i] = b[k]
        BY <1>1, <1>4, <3>1
      <3> QED BY <1>3, <3>1, <3>2
    <2> QED BY <2>1, <2>2
  <1>6. at[0] = begun /\ at[m + n] = g[n]
    BY <1>1, <1>2, <1>4
  <1>7. ReadAll(begun, a \o b) = at[m + n]
    <2> DEFINE both == a \o b
    <2>1. Len(both) = m + n /\ Len(both) \in Nat
      BY <1>1
    <2>2. \A i \in 1..Len(both) : at[i] = Read(at[i - 1], both[i])
      BY <1>5, <2>1
    <2> HIDE DEF both
    <2>3. ReadAll(begun, both) = at[Len(both)]
      BY <1>6, <2>1, <2>2, ReadAllAlong
    <2> QED BY <2>1, <2>3 DEF both
  <1> QED BY <1>3, <1>6, <1>7 DEF half

\* One after the other.
LEMMA ReadNext ==
    ASSUME NEW begun, NEW a, NEW b, NEW half, NEW full,
           IsList(a), IsList(b), ReadAll(begun, a) = half, ReadAll(half, b) = full
    PROVE  IsList(a \o b) /\ ReadAll(begun, a \o b) = full
  <1> QED BY ReadBoth, ListsJoin

-----------------------------------------------------------------------------
(***************************************************************************)
(* A number written in digits, and read.                                   *)
(***************************************************************************)
LEMMA DigitsAre ==
    /\ DOMAIN Digits = 1..10
    /\ \A i \in 1..10 : Digits[i] \in DigitChars /\ DigitValue(Digits[i]) = i - 1
    /\ \A c \in DigitChars : DigitValue(c) \in 0..9 /\ c \notin {"+", "-"} /\ c \notin Blanks
  <1>1. DOMAIN Digits = 1..10
    BY DEF Digits
  <1>2. \A i, j \in 1..10 : Digits[i] = Digits[j] => i = j
    BY DEF Digits
  <1>3. \A i \in 1..10 : Digits[i] \notin {"+", "-"} /\ Digits[i] \notin Blanks
    <2>1. \A i \in 1..10 : Digits[i] \in {"0", "1", "2", "3", "4", "5", "6", "7", "8", "9"}
      BY DEF Digits
    <2>2. \A c \in {"0", "1", "2", "3", "4", "5", "6", "7", "8", "9"} : c \notin {"+", "-"} /\ c \notin Blanks
      BY DEF Blanks
    <2> QED BY <2>1, <2>2
  <1>4. ASSUME NEW i \in 1..10 PROVE Digits[i] \in DigitChars /\ DigitValue(Digits[i]) = i - 1
    <2>1. Digits[i] \in DigitChars
      BY <1>1 DEF DigitChars
    <2>2. (CHOOSE j \in DOMAIN Digits : Digits[j] = Digits[i]) = i
      BY <1>1, <1>2
    <2> QED BY <2>1, <2>2 DEF DigitValue
  <1>5. ASSUME NEW c \in DigitChars PROVE DigitValue(c) \in 0..9 /\ c \notin {"+", "-"} /\ c \notin Blanks
    <2>1. PICK i \in 1..10 : c = Digits[i]
      BY <1>1 DEF DigitChars
    <2> QED BY <1>3, <1>4, <2>1
  <1> QED BY <1>1, <1>4, <1>5

\* The numbers read so far, digit after digit.
Counting(s, at, n) == at = [i \in 0..n |-> IF i = 0 THEN 0 ELSE 10 * at[i - 1] + DigitValue(s[i])]

LEMMA CountingGoesOn ==
    ASSUME NEW s, NEW n \in Nat, NEW at, Counting(s, at, n)
    PROVE  \E more : Counting(s, more, n + 1)
  <1> DEFINE g == [i \in 0..(n + 1) |-> IF i <= n THEN at[i] ELSE 10 * at[n] + DigitValue(s[n + 1])]
  <1>1. at[0] = 0 /\ \A i \in 1..n : at[i] = 10 * at[i - 1] + DigitValue(s[i])
    BY DEF Counting
  <1>2. DOMAIN g = 0..(n + 1) /\ \A i \in 0..n : g[i] = at[i]
    OBVIOUS
  <1>3. g[n + 1] = 10 * at[n] + DigitValue(s[n + 1])
    OBVIOUS
  <1>4. ASSUME NEW i \in 0..(n + 1)
        PROVE  g[i] = IF i = 0 THEN 0 ELSE 10 * g[i - 1] + DigitValue(s[i])
    <2> HIDE DEF g
    <2>1. CASE i = 0
      BY <1>1, <1>2, <2>1
    <2>2. CASE i \in 1..n
      <3>1. i - 1 \in 0..n /\ i \in 0..n /\ i # 0
        BY <2>2
      <3>2. g[i] = at[i] /\ g[i - 1] = at[i - 1]
        BY <1>2, <3>1
      <3>3. at[i] = 10 * at[i - 1] + DigitValue(s[i])
        BY <1>1, <2>2
      <3> QED BY <3>1, <3>2, <3>3, Zenon
    <2>3. CASE i = n + 1
      <3>1. i - 1 = n /\ n \in 0..n /\ i # 0
        BY <2>3
      <3> QED BY <1>2, <1>3, <2>3, <3>1, Zenon
    <2> QED BY <2>1, <2>2, <2>3
  <1>5. g = [i \in 0..(n + 1) |-> g[i]]
    BY <1>2
  <1> HIDE DEF g
  <1>6. [i \in 0..(n + 1) |-> g[i]] = [i \in 0..(n + 1) |-> IF i = 0 THEN 0 ELSE 10 * g[i - 1] + DigitValue(s[i])]
    BY <1>4, Zenon
  <1>7. Counting(s, g, n + 1)
    BY <1>5, <1>6, Zenon DEF Counting
  <1> QED BY <1>7

LEMMA CountingExists ==
    ASSUME NEW s
    PROVE  \A n \in Nat : \E at : Counting(s, at, n)
  <1> DEFINE S == {n \in Nat : \E at : Counting(s, at, n)}
  <1>1. 0 \in S
    <2> DEFINE g == [i \in 0..0 |-> 0]
    <2>1. g = [i \in 0..0 |-> IF i = 0 THEN 0 ELSE 10 * g[i - 1] + DigitValue(s[i])]
      OBVIOUS
    <2> HIDE DEF g
    <2>2. Counting(s, g, 0)
      BY <2>1 DEF Counting
    <2> QED BY <2>2
  <1>2. \A n \in Nat : n \in S => n + 1 \in S
    BY CountingGoesOn
  <1>3. Nat \subseteq S
    <2> HIDE DEF S
    <2> QED BY <1>1, <1>2, Inductively
  <1> QED BY <1>3

IsDigits(s) == s \in Seq(DigitChars) /\ Len(s) > 0

Counts(s, at) ==
    /\ Number(s) = at[Len(s)] /\ at[0] = 0
    /\ \A i \in 1..Len(s) : at[i] = 10 * at[i - 1] + DigitValue(s[i])

LEMMA NumberIs ==
    ASSUME NEW s, IsDigits(s)
    PROVE  /\ IsNumber(s) /\ s[1] # "-" /\ s[1] \notin Blanks
           /\ \E at : Counts(s, at)
  <1>1. Len(s) \in Nat /\ Len(s) > 0 /\ DOMAIN s = 1..Len(s) /\ 1 \in DOMAIN s /\ \A i \in DOMAIN s : s[i] \in DigitChars
    BY DEF IsDigits
  <1>2. s[1] \notin {"+", "-"} /\ s[1] \notin Blanks
    BY <1>1, DigitsAre
  <1>3. Unsigned(s) = s
    BY <1>2 DEF Unsigned
  <1>4. s # <<>>
    <2>1. Len(<<>>) = 0
      OBVIOUS
    <2> QED BY <1>1, <2>1
  <1>5. IsNumber(s)
    BY <1>1, <1>3, <1>4 DEF IsNumber
  <1> DEFINE f == CHOOSE f : f = [i \in 0..Len(s) |-> IF i = 0 THEN 0 ELSE 10 * f[i - 1] + DigitValue(s[i])]
  <1>6. \E g : g = [i \in 0..Len(s) |-> IF i = 0 THEN 0 ELSE 10 * g[i - 1] + DigitValue(s[i])]
    <2>1. \A n \in Nat : \E at : Counting(s, at, n)
      BY CountingExists
    <2>2. PICK at : Counting(s, at, Len(s))
      BY <1>1, <2>1
    <2> QED BY <2>2, Zenon DEF Counting
  <1>7. f = [i \in 0..Len(s) |-> IF i = 0 THEN 0 ELSE 10 * f[i - 1] + DigitValue(s[i])]
    BY <1>6, Zenon
  <1>8. Number(s) = f[Len(s)]
    BY <1>2, <1>3, Zenon DEF Number
  <1> HIDE DEF f
  <1>9. f[0] = 0 /\ \A i \in 1..Len(s) : f[i] = 10 * f[i - 1] + DigitValue(s[i])
    BY <1>1, <1>7
  <1>10. Counts(s, f)
    BY <1>8, <1>9 DEF Counts
  <1> QED BY <1>2, <1>5, <1>10

LEMMA NumberOfOne ==
    ASSUME NEW c \in DigitChars
    PROVE  IsDigits(<<c>>) /\ Number(<<c>>) = DigitValue(c)
  <1>1. <<c>> \in Seq(DigitChars) /\ Len(<<c>>) = 1 /\ <<c>>[1] = c
    OBVIOUS
  <1>2. IsDigits(<<c>>)
    BY <1>1 DEF IsDigits
  <1>3. PICK at : Counts(<<c>>, at)
    BY <1>2, NumberIs
  <1>4. 1 \in 1..Len(<<c>>) /\ 1 - 1 = 0
    BY <1>1
  <1>5. at[1] = 10 * at[1 - 1] + DigitValue(<<c>>[1])
    BY <1>3, <1>4 DEF Counts
  <1>6. DigitValue(c) \in 0..9
    BY DigitsAre
  <1>7. at[0] = 0 /\ Number(<<c>>) = at[1]
    BY <1>1, <1>3 DEF Counts
  <1>8. at[1] = 10 * 0 + DigitValue(c)
    BY <1>1, <1>4, <1>5, <1>7
  <1> QED BY <1>2, <1>6, <1>7, <1>8

LEMMA NumberGrows ==
    ASSUME NEW s, IsDigits(s), Number(s) \in Nat, NEW c \in DigitChars
    PROVE  IsDigits(s \o <<c>>) /\ Number(s \o <<c>>) = 10 * Number(s) + DigitValue(c)
  <1> DEFINE more == s \o <<c>>
             n == Len(s)
  <1>1. /\ n \in Nat /\ n > 0 /\ more \in Seq(DigitChars) /\ Len(more) = n + 1
        /\ (\A i \in 1..n : more[i] = s[i]) /\ more[n + 1] = c
    BY DEF IsDigits
  <1>2. IsDigits(more)
    BY <1>1 DEF IsDigits
  <1>3. PICK f : Counts(s, f)
    BY NumberIs
  <1> HIDE DEF more
  <1>4. PICK g : Counts(more, g)
    BY <1>2, NumberIs
  <1> DEFINE S == {i \in Nat : i <= n => f[i] = g[i]}
  <1> HIDE DEF n
  <1>5. f[0] = 0 /\ g[0] = 0 /\ Number(s) = f[n] /\ Number(more) = g[n + 1]
    BY <1>1, <1>3, <1>4 DEF Counts, n
  <1>6. \A i \in 1..n : f[i] = 10 * f[i - 1] + DigitValue(s[i])
    BY <1>3 DEF Counts, n
  <1>7. \A i \in 1..(n + 1) : g[i] = 10 * g[i - 1] + DigitValue(more[i])
    BY <1>1, <1>4 DEF Counts
  <1>8. 0 \in S
    BY <1>5
  <1>9. ASSUME NEW i \in Nat, i \in S PROVE i + 1 \in S
    <2>1. CASE i + 1 <= n
      <3>1. i + 1 \in 1..n /\ i + 1 \in 1..(n + 1) /\ (i + 1) - 1 = i /\ i <= n
        BY <1>1, <2>1
      <3>2. f[i + 1] = 10 * f[(i + 1) - 1] + DigitValue(s[i + 1]) /\ g[i + 1] = 10 * g[(i + 1) - 1] + DigitValue(more[i + 1])
        BY <1>6, <1>7, <3>1, Zenon
      <3>3. f[i] = g[i] /\ more[i + 1] = s[i + 1]
        BY <1>1, <1>9, <3>1
      <3>4. f[i + 1] = g[i + 1]
        BY <3>1, <3>2, <3>3, Zenon
      <3> QED BY <3>4
    <2>2. CASE ~(i + 1 <= n)
      BY <2>2
    <2> QED BY <2>1, <2>2
  <1>10. Nat \subseteq S
    <2> HIDE DEF S
    <2> QED BY <1>8, <1>9, Inductively
  <1>11. f[n] = g[n]
    BY <1>1, <1>10
  <1>12. n + 1 \in 1..(n + 1) /\ (n + 1) - 1 = n
    BY <1>1
  <1>13. g[n + 1] = 10 * g[(n + 1) - 1] + DigitValue(more[n + 1])
    BY <1>7, <1>12, Zenon
  <1>14. g[n + 1] = 10 * f[n] + DigitValue(c)
    BY <1>1, <1>11, <1>12, <1>13, Zenon
  <1> QED BY <1>2, <1>5, <1>14, Zenon DEF more

\* The decimals of the numbers up to n.
Writing(at, n) ==
    at = [k \in 0..n |-> IF k < 10 THEN <<Digits[k + 1]>> ELSE at[k \div 10] \o <<Digits[(k % 10) + 1]>>]

LEMMA WritingGoesOn ==
    ASSUME NEW n \in Nat, NEW at, Writing(at, n)
    PROVE  \E more : Writing(more, n + 1)
  <1> DEFINE e(f, k) == IF k < 10 THEN <<Digits[k + 1]>> ELSE f[k \div 10] \o <<Digits[(k % 10) + 1]>>
             g == [k \in 0..(n + 1) |-> IF k <= n THEN at[k] ELSE e(at, k)]
  <1>1. \A k \in 0..n : at[k] = e(at, k)
    BY DEF Writing
  <1>2. DOMAIN g = 0..(n + 1) /\ \A k \in 0..n : g[k] = at[k]
    OBVIOUS
  <1>3. g[n + 1] = e(at, n + 1)
    OBVIOUS
  <1>4. ASSUME NEW k \in 0..(n + 1) PROVE g[k] = e(at, k)
    <2> HIDE DEF g, e
    <2>1. CASE k \in 0..n
      BY <1>1, <1>2, <2>1
    <2>2. CASE k = n + 1
      BY <1>3, <2>2
    <2> QED BY <2>1, <2>2
  <1>5. ASSUME NEW k \in 0..(n + 1) PROVE e(at, k) = e(g, k)
    <2> HIDE DEF g
    <2>1. CASE k < 10
      BY <2>1
    <2>2. CASE ~(k < 10)
      <3>1. k \div 10 \in 0..n
        BY <2>2
      <3>2. g[k \div 10] = at[k \div 10]
        BY <1>2, <3>1
      <3> QED BY <3>2
    <2> QED BY <2>1, <2>2
  <1>6. g = [k \in 0..(n + 1) |-> g[k]]
    BY <1>2
  <1> HIDE DEF g
  <1>7. [k \in 0..(n + 1) |-> g[k]] = [k \in 0..(n + 1) |-> e(g, k)]
    BY <1>4, <1>5
  <1>8. Writing(g, n + 1)
    BY <1>6, <1>7 DEF Writing
  <1> QED BY <1>8

LEMMA WritingExists == \A n \in Nat : \E at : Writing(at, n)
  <1> DEFINE S == {n \in Nat : \E at : Writing(at, n)}
  <1>1. 0 \in S
    <2> DEFINE g == [k \in 0..0 |-> <<Digits[k + 1]>>]
    <2>1. g = [k \in 0..0 |-> IF k < 10 THEN <<Digits[k + 1]>> ELSE g[k \div 10] \o <<Digits[(k % 10) + 1]>>]
      OBVIOUS
    <2> HIDE DEF g
    <2>2. Writing(g, 0)
      BY <2>1 DEF Writing
    <2> QED BY <2>2
  <1>2. \A n \in Nat : n \in S => n + 1 \in S
    BY WritingGoesOn
  <1>3. Nat \subseteq S
    <2> HIDE DEF S
    <2> QED BY <1>1, <1>2, Inductively
  <1> QED BY <1>3

\* A number reads as what it was written for.
LEMMA DecimalIs ==
    ASSUME NEW n \in Nat
    PROVE  IsDigits(Decimal(n)) /\ Number(Decimal(n)) = n
  <1> DEFINE f == CHOOSE f : f = [k \in 0..n |-> IF k < 10 THEN <<Digits[k + 1]>> ELSE f[k \div 10] \o <<Digits[(k % 10) + 1]>>]
  <1>1. PICK at : Writing(at, n)
    BY WritingExists
  <1>2. \E g : g = [k \in 0..n |-> IF k < 10 THEN <<Digits[k + 1]>> ELSE g[k \div 10] \o <<Digits[(k % 10) + 1]>>]
    BY <1>1, Zenon DEF Writing
  <1>3. f = [k \in 0..n |-> IF k < 10 THEN <<Digits[k + 1]>> ELSE f[k \div 10] \o <<Digits[(k % 10) + 1]>>]
    BY <1>2, Zenon
  <1>4. Decimal(n) = f[n]
    BY Zenon DEF Decimal
  <1> HIDE DEF f
  <1>5. \A k \in 0..n : f[k] = IF k < 10 THEN <<Digits[k + 1]>> ELSE f[k \div 10] \o <<Digits[(k % 10) + 1]>>
    BY <1>3
  <1> DEFINE T == {k \in Nat : k <= n /\ ~(IsDigits(f[k]) /\ Number(f[k]) = k)}
  <1>6. ASSUME T # {} PROVE FALSE
    <2>1. PICK k \in T : \A j \in T : k <= j
      <3>1. T \in SUBSET Nat
        OBVIOUS
      <3> HIDE DEF T
      <3> QED BY <1>6, <3>1, LeastOf
    <2>2. k \in Nat /\ k <= n /\ k \in 0..n
      BY <2>1
    <2>3. CASE k < 10
      <3>1. k + 1 \in 1..10 /\ (k + 1) - 1 = k
        BY <2>2, <2>3
      <3>2. Digits[k + 1] \in DigitChars /\ DigitValue(Digits[k + 1]) = k
        BY <3>1, DigitsAre
      <3>3. f[k] = <<Digits[k + 1]>>
        BY <1>5, <2>2, <2>3
      <3> DEFINE c == Digits[k + 1]
      <3> HIDE DEF c
      <3>4. IsDigits(<<c>>) /\ Number(<<c>>) = DigitValue(c)
        BY <3>2, NumberOfOne DEF c
      <3> QED BY <2>1, <3>2, <3>3, <3>4 DEF c
    <2>4. CASE ~(k < 10)
      <3> DEFINE j == k \div 10
                 r == k % 10
      <3>1. j \in Nat /\ j < k /\ r \in 0..9 /\ k = 10 * j + r /\ r + 1 \in 1..10 /\ (r + 1) - 1 = r
        BY <2>2, <2>4
      <3>2. f[k] = f[j] \o <<Digits[r + 1]>>
        BY <1>5, <2>2, <2>4
      <3> HIDE DEF j, r
      <3>3. Digits[r + 1] \in DigitChars /\ DigitValue(Digits[r + 1]) = r
        BY <3>1, DigitsAre
      <3>4. IsDigits(f[j]) /\ Number(f[j]) = j
        BY <2>1, <2>2, <3>1
      <3> DEFINE c == Digits[r + 1]
                 s == f[j]
      <3> HIDE DEF c, s
      <3>5. IsDigits(s \o <<c>>) /\ Number(s \o <<c>>) = 10 * Number(s) + DigitValue(c)
        BY <3>1, <3>3, <3>4, NumberGrows DEF c, s
      <3>6. Number(f[k]) = k
        BY <3>1, <3>2, <3>3, <3>4, <3>5 DEF c, s
      <3>7. IsDigits(f[k])
        BY <3>2, <3>5 DEF c, s
      <3> QED BY <2>1, <3>6, <3>7
    <2> QED BY <2>3, <2>4
  <1>7. n \in Nat /\ n <= n /\ n \notin T
    BY <1>6
  <1> QED BY <1>4, <1>7

LEMMA DecimalReads ==
    ASSUME MaxCount \in Nat, NEW n \in 0..MaxCount
    PROVE  Parsed(Decimal(n)) = <<n>>
  <1>1. n \in Nat /\ n <= MaxCount
    OBVIOUS
  <1>2. IsDigits(Decimal(n)) /\ Number(Decimal(n)) = n
    BY <1>1, DecimalIs
  <1>3. IsNumber(Decimal(n)) /\ Decimal(n)[1] # "-"
    BY <1>2, NumberIs
  <1> QED BY <1>1, <1>2, <1>3 DEF Parsed


-----------------------------------------------------------------------------
(***************************************************************************)
(* The elements of a feed, each read from its first event to its last.     *)
(***************************************************************************)
State(ok, open, channel, items, field, buffer, releases) ==
    [ok |-> ok, open |-> open, channel |-> channel, item |-> items, field |-> field, buffer |-> buffer,
     releases |-> releases]

Yes == TRUE

\* Inside a child of an item whose text counts; `items` is what item holds.
Collecting(open, items, field, buffer, releases) == State(Yes, open, Yes, items, field, buffer, releases)

\* Where no element is being collected.
Between(open, items, releases) == Collecting(open, items, "", <<>>, releases)

\* more is open with the element opened whose full name is `tag`.
Opens(open, tag, more) == IsList(open) /\ more = Append(open, tag)

LEMMA OpeningIs ==
    ASSUME NEW open, NEW tag, NEW more, Opens(open, tag, more)
    PROVE  IsList(more) /\ more # <<>> /\ Last(more) = tag /\ Front(more) = open
  <1> DEFINE T == ToSet(open) \cup {tag}
  <1>1. open \in Seq(T) /\ tag \in T
    <2>1. ToSet(open) \subseteq T /\ tag \in T
      OBVIOUS
    <2> HIDE DEF T
    <2>2. \A A, B, x : A \subseteq B /\ x \in Seq(A) => x \in Seq(B)
      OBVIOUS
    <2> QED BY <2>1, <2>2 DEF IsList, Opens
  <1> HIDE DEF T
  <1>2. more \in Seq(T) /\ Len(more) = Len(open) + 1 /\ Len(open) \in Nat /\ more[Len(open) + 1] = tag
    BY <1>1 DEF Opens
  <1>3. SubSeq(more, 1, Len(open)) = open
    BY <1>1 DEF Opens
  <1>4. (Len(open) + 1) - 1 = Len(open)
    BY <1>2
  <1>5. more # <<>>
    BY <1>2
  <1>6. IsList(more)
    BY <1>2, ListIs
  <1>7. Last(more) = tag /\ Front(more) = open
    BY <1>2, <1>3, <1>4 DEF Last, Front
  <1> QED BY <1>5, <1>6, <1>7

LEMMA NamesAre ==
    /\ \A n : LocalName(<<n>>) = n
    /\ LocalName(<<"torznab", "attr">>) = "attr"
  BY DEF LocalName

LEMMA EventsAre ==
    /\ \A n, a : Start(n, a).e = "start" /\ Start(n, a).name = n /\ Start(n, a).attrs = a
    /\ \A n, a : Empty(n, a).e = "empty" /\ Empty(n, a).name = n /\ Empty(n, a).attrs = a
    /\ \A n : End(n).e = "end" /\ End(n).name = n
    /\ \A s : Chars(s).e = "text" /\ Chars(s).s = s
    /\ \A n : Ref(n).e = "ref" /\ Ref(n).name = n
  BY DEF Start, Empty, End, Chars, Ref

LEMMA StatesAre ==
    ASSUME NEW open, NEW items, NEW field, NEW buffer, NEW releases
    PROVE  /\ Collecting(open, items, field, buffer, releases).ok
           /\ Collecting(open, items, field, buffer, releases).open = open
           /\ Collecting(open, items, field, buffer, releases).item = items
           /\ Collecting(open, items, field, buffer, releases).field = field
           /\ Collecting(open, items, field, buffer, releases).buffer = buffer
           /\ Collecting(open, items, field, buffer, releases).releases = releases
  BY DEF Collecting, State, Yes

LEMMA StatesMove ==
    ASSUME NEW open, NEW items, NEW field, NEW buffer, NEW releases
    PROVE  /\ \A x : [Collecting(open, items, field, buffer, releases) EXCEPT !.open = x]
                        = Collecting(x, items, field, buffer, releases)
           /\ \A x : [Collecting(open, items, field, buffer, releases) EXCEPT !.item = x]
                        = Collecting(open, x, field, buffer, releases)
           /\ \A x : [Collecting(open, items, field, buffer, releases) EXCEPT !.field = x]
                        = Collecting(open, items, x, buffer, releases)
           /\ \A x : [Collecting(open, items, field, buffer, releases) EXCEPT !.buffer = x]
                        = Collecting(open, items, field, x, releases)
           /\ \A x : [Collecting(open, items, field, buffer, releases) EXCEPT !.releases = x]
                        = Collecting(open, items, field, buffer, x)
  <1>1. ASSUME NEW yes, NEW x
        PROVE  /\ [State(yes, open, yes, items, field, buffer, releases) EXCEPT !.open = x]
                     = State(yes, x, yes, items, field, buffer, releases)
               /\ [State(yes, open, yes, items, field, buffer, releases) EXCEPT !.item = x]
                     = State(yes, open, yes, x, field, buffer, releases)
               /\ [State(yes, open, yes, items, field, buffer, releases) EXCEPT !.field = x]
                     = State(yes, open, yes, items, x, buffer, releases)
               /\ [State(yes, open, yes, items, field, buffer, releases) EXCEPT !.buffer = x]
                     = State(yes, open, yes, items, field, x, releases)
               /\ [State(yes, open, yes, items, field, buffer, releases) EXCEPT !.releases = x]
                     = State(yes, open, yes, items, field, buffer, x)
    BY DEF State
  <1> QED BY <1>1, Zenon DEF Collecting

LEMMA OneThere ==
    ASSUME NEW x
    PROVE  <<x>> # None /\ <<x>>[1] = x
  BY DEF None

LEMMA FieldsAre ==
    ASSUME NEW name \in DOMAIN TextFields
    PROVE  name \notin {"channel", "item", "enclosure", "attr"} /\ TextFields[name] # ""
  <1>1. name \in {"title", "guid", "link", "comments", "pubDate", "size"}
    BY DEF TextFields
  <1>2. name \notin {"channel", "item", "enclosure", "attr"}
    BY <1>1
  <1>3. /\ TextFields["title"] # "" /\ TextFields["guid"] # "" /\ TextFields["link"] # ""
        /\ TextFields["comments"] # "" /\ TextFields["pubDate"] # "" /\ TextFields["size"] # ""
    BY DEF TextFields
  <1> QED BY <1>1, <1>2, <1>3

LEMMA FieldOpens ==
    ASSUME NEW open, NEW items, NEW releases, NEW name \in DOMAIN TextFields, NEW more,
           items # None, Opens(open, <<name>>, more)
    PROVE  Read(Between(open, items, releases), Start(<<name>>, NoAttrs))
             = Collecting(more, items, TextFields[name], <<>>, releases)
  <1> DEFINE event == Start(<<name>>, NoAttrs)
             tag == <<name>>
             before == Between(open, items, releases)
             st == Between(more, items, releases)
             field == TextFields[name]
             none == <<>>
             no == ""
  <1>1. event.e = "start" /\ event.name = tag /\ LocalName(tag) = name
    BY EventsAre, NamesAre
  <1>2. name \notin {"channel", "item", "enclosure", "attr"} /\ name \in DOMAIN TextFields
    BY FieldsAre
  <1>3. before = Collecting(open, items, no, none, releases) /\ st = Collecting(more, items, no, none, releases)
    BY Zenon DEF Between
  <1> HIDE DEF event, tag, before, st, field, no
  <1>4. before.ok /\ before.open = open /\ st.item = items
    <2> HIDE DEF none
    <2> QED BY <1>3, StatesAre
  <1>5. [before EXCEPT !.open = more] = st
    <2> HIDE DEF none
    <2>1. [Collecting(open, items, no, none, releases) EXCEPT !.open = more] = Collecting(more, items, no, none, releases)
      BY StatesMove
    <2> QED BY <1>3, <2>1, Zenon
  <1>6. [[st EXCEPT !.field = field] EXCEPT !.buffer = none] = Collecting(more, items, field, none, releases)
    <2> HIDE DEF none
    <2>1. [Collecting(more, items, no, none, releases) EXCEPT !.field = field] = Collecting(more, items, field, none, releases)
      BY StatesMove
    <2>2. [Collecting(more, items, field, none, releases) EXCEPT !.buffer = none] = Collecting(more, items, field, none, releases)
      BY StatesMove
    <2> QED BY <1>3, <2>1, <2>2, Zenon
  <1>7. Read(before, event) = Tagged([before EXCEPT !.open = Append(before.open, event.name)], event)
    BY <1>1, <1>4 DEF Read
  <1>8. Tagged(st, event) = [st EXCEPT !.field = field, !.buffer = <<>>]
    <2>1. event.e # "empty" /\ st.item # None
      BY <1>1, <1>4
    <2> QED BY <1>1, <1>2, <2>1 DEF Tagged, field
  <1>9. Append(before.open, event.name) = more
    BY <1>1, <1>4, Zenon DEF tag, Opens
  <1>10. Read(before, event) = Tagged(st, event)
    BY <1>5, <1>7, <1>9, Zenon
  <1> QED BY <1>6, <1>8, <1>10, Zenon DEF event, before, field

LEMMA FieldCloses ==
    ASSUME NEW open, NEW items, NEW releases, NEW name \in DOMAIN TextFields, NEW s, NEW more,
           items # None, Opens(open, <<name>>, more)
    PROVE  Read(Collecting(more, items, TextFields[name], s, releases), End(<<name>>))
             = Between(open, <<CommitField(items[1], TextFields[name], s)>>, releases)
  <1> DEFINE event == End(<<name>>)
             tag == <<name>>
             field == TextFields[name]
             st == Collecting(more, items, field, s, releases)
             back == Collecting(open, items, field, s, releases)
             next == <<CommitField(items[1], field, s)>>
             none == <<>>
             no == ""
  <1>1. event.e = "end" /\ event.name = tag /\ LocalName(tag) = name
    BY EventsAre, NamesAre
  <1>2. more # <<>> /\ Last(more) = tag /\ Front(more) = open
    BY OpeningIs
  <1>3. name # "item" /\ field # ""
    BY FieldsAre
  <1>4. Collecting(open, next, no, none, releases) = Between(open, next, releases)
    BY Zenon DEF Between
  <1> HIDE DEF event, field, tag, none, no
  <1>5. st.ok /\ st.open = more /\ back.field = field /\ back.item = items /\ back.buffer = s
    <2>1. st.ok /\ st.open = more
      BY StatesAre
    <2>2. back.field = field /\ back.item = items /\ back.buffer = s
      BY StatesAre
    <2> QED BY <2>1, <2>2, Zenon
  <1>6. [st EXCEPT !.open = open] = back
    BY StatesMove
  <1> HIDE DEF next
  <1>7. [[[back EXCEPT !.field = no] EXCEPT !.buffer = none] EXCEPT !.item = next] = Between(open, next, releases)
    <2>1. [back EXCEPT !.field = no] = Collecting(open, items, no, s, releases)
      BY StatesMove
    <2>2. [Collecting(open, items, no, s, releases) EXCEPT !.buffer = none] = Collecting(open, items, no, none, releases)
      BY StatesMove
    <2>3. [Collecting(open, items, no, none, releases) EXCEPT !.item = next] = Collecting(open, next, no, none, releases)
      BY StatesMove
    <2> QED BY <1>4, <2>1, <2>2, <2>3, Zenon
  <1> HIDE DEF st, back
  <1>8. Read(st, event) = Closed(back, tag)
    <2>1. Read(st, event) = Closed([st EXCEPT !.open = Front(st.open)], event.name)
      BY <1>1, <1>2, <1>5 DEF Read
    <2> QED BY <1>1, <1>2, <1>5, <1>6, <2>1, Zenon
  <1>9. Closed(back, tag) = [back EXCEPT !.field = "", !.buffer = <<>>, !.item = next]
    <2>1. next = <<CommitField(back.item[1], back.field, back.buffer)>>
      BY <1>5, Zenon DEF next
    <2> QED BY <1>1, <1>3, <1>5, <2>1 DEF Closed
  <1> QED BY <1>7, <1>8, <1>9, Zenon DEF event, st, field, tag, next, none, no

LEMMA PrefixesAre ==
    ASSUME NEW s, IsList(s)
    PROVE  /\ SubSeq(s, 1, 0) = <<>> /\ SubSeq(s, 1, Len(s)) = s
           /\ \A i \in 1..Len(s) : SubSeq(s, 1, i) = SubSeq(s, 1, i - 1) \o <<s[i]>>
  <1> DEFINE T == ToSet(s)
  <1>1. s \in Seq(T)
    BY DEF IsList
  <1> HIDE DEF T
  <1>2. SubSeq(s, 1, 0) = <<>> /\ SubSeq(s, 1, Len(s)) = s
    BY <1>1
  <1>3. ASSUME NEW i \in 1..Len(s) PROVE SubSeq(s, 1, i) = SubSeq(s, 1, i - 1) \o <<s[i]>>
    <2>1. i \in Nat /\ i - 1 \in Nat /\ s[i] \in T /\ Len(s) \in Nat /\ i <= Len(s)
      BY <1>1
    <2>2. SubSeq(s, 1, i) \in Seq(T) /\ SubSeq(s, 1, i - 1) \in Seq(T)
      BY <1>1, <2>1
    <2>3. Len(SubSeq(s, 1, i)) = i /\ Len(SubSeq(s, 1, i - 1)) = i - 1
      BY <1>1, <2>1
    <2>4. (\A k \in 1..i : SubSeq(s, 1, i)[k] = s[k]) /\ \A k \in 1..(i - 1) : SubSeq(s, 1, i - 1)[k] = s[k]
      BY <1>1, <2>1
    <2> DEFINE p == SubSeq(s, 1, i - 1)
               q == SubSeq(s, 1, i)
    <2> HIDE DEF p, q
    <2>5. p \o <<s[i]>> \in Seq(T) /\ Len(p \o <<s[i]>>) = i
      BY <2>1, <2>2, <2>3 DEF p
    <2>6. ASSUME NEW k \in 1..i PROVE (p \o <<s[i]>>)[k] = s[k]
      <3>1. CASE k = i
        BY <2>1, <2>2, <2>3, <3>1 DEF p
      <3>2. CASE k # i
        <4>1. k \in 1..(i - 1)
          BY <2>1, <3>2
        <4> QED BY <2>1, <2>2, <2>3, <2>4, <4>1 DEF p
      <3> QED BY <3>1, <3>2
    <2>7. q \in Seq(T) /\ Len(q) = i /\ \A k \in 1..i : q[k] = s[k]
      BY <2>2, <2>3, <2>4 DEF q
    <2> DEFINE r == p \o <<s[i]>>
    <2> HIDE DEF r
    <2>8. r \in Seq(T) /\ Len(r) = i /\ \A k \in 1..i : r[k] = s[k]
      BY <2>5, <2>6 DEF r
    <2>9. q = r
      BY <2>7, <2>8
    <2> QED BY <2>9 DEF q, r, p
  <1> QED BY <1>2, <1>3

\* Text is of some field of some item.
TextCounts(items, field) == items # None /\ field # ""

\* The event a character is written as.
WrittenChar(c) == IF \E n \in DOMAIN Predefined : Predefined[n] = c THEN Ref(EntityOf(c)) ELSE Chars(<<c>>)

LEMMA CharReads ==
    ASSUME NEW c, NEW open, NEW items, NEW field, NEW buffer, NEW releases, TextCounts(items, field)
    PROVE  Read(Collecting(open, items, field, buffer, releases), WrittenChar(c))
             = Collecting(open, items, field, buffer \o <<c>>, releases)
  <1> DEFINE st == Collecting(open, items, field, buffer, releases)
             event == WrittenChar(c)
             more == buffer \o <<c>>
             here == \E n \in DOMAIN Predefined : Predefined[n] = c
  <1>1. st.ok /\ st.item = items /\ st.field = field /\ st.buffer = buffer
    BY StatesAre
  <1>2. [st EXCEPT !.buffer = more] = Collecting(open, items, field, more, releases)
    <2> HIDE DEF more
    <2> QED BY StatesMove
  <1> HIDE DEF st
  <1>3. Text(st, <<c>>) = [st EXCEPT !.buffer = more]
    BY <1>1 DEF Text, TextCounts
  <1>4. Read(st, event) = Text(st, <<c>>)
    <2>1. CASE here
      <3> DEFINE name == EntityOf(c)
      <3>1. name \in DOMAIN Predefined /\ Predefined[name] = c
        BY <2>1, Zenon DEF EntityOf
      <3> HIDE DEF name
      <3>2. ResolveEntityRef(name) = <<c>>
        BY <3>1 DEF ResolveEntityRef
      <3>3. event = Ref(name)
        BY <2>1, Zenon DEF WrittenChar, name
      <3>4. event.e = "ref" /\ event.name = name
        BY <3>3, EventsAre
      <3> HIDE DEF event
      <3>5. Read(st, event) = Text(st, ResolveEntityRef(event.name))
        BY <1>1, <3>4 DEF Read
      <3> QED BY <3>2, <3>4, <3>5
    <2>2. CASE ~here
      <3>1. event = Chars(<<c>>)
        BY <2>2, Zenon DEF WrittenChar
      <3>2. event.e = "text" /\ event.s = <<c>>
        BY <3>1, EventsAre
      <3> HIDE DEF event
      <3>3. Read(st, event) = Text(st, event.s)
        BY <1>1, <3>2 DEF Read
      <3> QED BY <3>2, <3>3
    <2> QED BY <2>1, <2>2
  <1> QED BY <1>2, <1>3, <1>4, Zenon DEF st, event, more

LEMMA WrittenIs ==
    ASSUME NEW s, IsList(s)
    PROVE  /\ IsList(Written(s)) /\ Len(Written(s)) = Len(s)
           /\ \A i \in 1..Len(s) : Written(s)[i] = WrittenChar(s[i])
  <1> DEFINE w == Written(s)
             T == {WrittenChar(s[i]) : i \in DOMAIN s}
  <1>1. DOMAIN s = 1..Len(s) /\ Len(s) \in Nat
    BY ListIs
  <1>2. w = [i \in DOMAIN s |-> WrittenChar(s[i])]
    BY Zenon DEF Written, WrittenChar
  <1>3. w \in [1..Len(s) -> T]
    BY <1>1, <1>2
  <1> HIDE DEF w, T
  <1>4. w \in Seq(T) /\ Len(w) = Len(s)
    BY <1>1, <1>3
  <1>5. IsList(w)
    BY <1>4, ListIs
  <1>6. \A i \in 1..Len(s) : w[i] = WrittenChar(s[i])
    BY <1>1, <1>2
  <1> QED BY <1>4, <1>5, <1>6 DEF w

LEMMA TextReads ==
    ASSUME NEW s, IsList(s), NEW open, NEW items, NEW field, NEW releases, TextCounts(items, field)
    PROVE  ReadAll(Collecting(open, items, field, <<>>, releases), Written(s))
             = Collecting(open, items, field, s, releases)
  <1> DEFINE st(buffer) == Collecting(open, items, field, buffer, releases)
             at == [i \in 0..Len(s) |-> st(SubSeq(s, 1, i))]
             w == Written(s)
  <1>1. Len(s) \in Nat
    BY ListIs
  <1>2. Len(w) = Len(s) /\ \A i \in 1..Len(s) : w[i] = WrittenChar(s[i])
    BY WrittenIs
  <1>3. \A buffer, c : Read(st(buffer), WrittenChar(c)) = st(buffer \o <<c>>)
    <2> SUFFICES ASSUME NEW buffer, NEW c
                 PROVE  Read(st(buffer), WrittenChar(c)) = st(buffer \o <<c>>)
      OBVIOUS
    <2> QED BY CharReads
  <1>4. /\ SubSeq(s, 1, 0) = <<>> /\ SubSeq(s, 1, Len(s)) = s
        /\ \A i \in 1..Len(s) : SubSeq(s, 1, i) = SubSeq(s, 1, i - 1) \o <<s[i]>>
    BY PrefixesAre
  <1> HIDE DEF st, w
  <1>5. \A i \in 0..Len(s) : at[i] = st(SubSeq(s, 1, i))
    OBVIOUS
  <1> HIDE DEF at
  <1>6. ASSUME NEW i \in 1..Len(s) PROVE at[i] = Read(at[i - 1], w[i])
    <2>1. i \in 0..Len(s) /\ i - 1 \in 0..Len(s)
      BY <1>1
    <2>2. at[i] = st(SubSeq(s, 1, i - 1) \o <<s[i]>>) /\ at[i - 1] = st(SubSeq(s, 1, i - 1))
      BY <1>4, <1>5, <2>1
    <2> DEFINE before == SubSeq(s, 1, i - 1)
               c == s[i]
    <2>3. w[i] = WrittenChar(c)
      BY <1>2
    <2> HIDE DEF before, c
    <2>4. Read(st(before), WrittenChar(c)) = st(before \o <<c>>)
      BY <1>3, Zenon
    <2> QED BY <2>2, <2>3, <2>4, Zenon DEF before, c
  <1>7. 0 \in 0..Len(s) /\ Len(s) \in 0..Len(s)
    BY <1>1
  <1>8. at[0] = st(<<>>) /\ at[Len(s)] = st(s)
    BY <1>4, <1>5, <1>7, Zenon
  <1>9. ReadAll(st(<<>>), w) = at[Len(w)]
    <2> DEFINE begun == st(<<>>)
    <2> HIDE DEF begun
    <2>1. at[0] = begun
      BY <1>8 DEF begun
    <2>2. Len(w) \in Nat /\ \A i \in 1..Len(w) : at[i] = Read(at[i - 1], w[i])
      BY <1>1, <1>2, <1>6
    <2>3. ReadAll(begun, w) = at[Len(w)]
      BY <2>1, <2>2, ReadAllAlong
    <2> QED BY <2>3 DEF begun
  <1> QED BY <1>2, <1>8, <1>9, Zenon DEF st, w

\* An element whose text counts, opened, collected and committed.
LEMMA FieldReads ==
    ASSUME NEW s, IsList(s), NEW name \in DOMAIN TextFields, NEW open, IsList(open), NEW items, items # None,
           NEW releases
    PROVE  /\ IsList(Element(name, s))
           /\ ReadAll(Between(open, items, releases), Element(name, s))
                = Between(open, <<CommitField(items[1], TextFields[name], s)>>, releases)
  <1> DEFINE tag == <<name>>
             more == Append(open, tag)
             field == TextFields[name]
             start == Start(tag, NoAttrs)
             end == End(tag)
             begun == Between(open, items, releases)
             opened == Collecting(more, items, field, <<>>, releases)
             full == Collecting(more, items, field, s, releases)
             done == Between(open, <<CommitField(items[1], field, s)>>, releases)
             w == Written(s)
  <1>1. Opens(open, tag, more)
    BY DEF Opens
  <1> HIDE DEF more
  <1>2. Read(begun, start) = opened
    BY <1>1, FieldOpens
  <1>3. Read(full, end) = done
    BY <1>1, FieldCloses
  <1>4. TextCounts(items, field)
    BY FieldsAre DEF TextCounts
  <1> HIDE DEF field, tag
  <1>5. ReadAll(opened, w) = full
    BY <1>4, TextReads
  <1>6. IsList(w)
    BY WrittenIs
  <1> HIDE DEF w, begun, opened, full, done, start, end
  <1>7. ReadAll(begun, <<start>>) = opened /\ ReadAll(full, <<end>>) = done
    BY <1>2, <1>3, ReadOne
  <1>8. IsList(<<start>>) /\ IsList(<<end>>)
    BY ListOfOne
  <1> DEFINE a == <<start>>
             b == <<end>>
  <1> HIDE DEF a, b
  <1>9. IsList(a \o w) /\ ReadAll(begun, a \o w) = full
    BY <1>5, <1>6, <1>7, <1>8, ReadNext DEF a
  <1> DEFINE c == a \o w
  <1> HIDE DEF c
  <1>10. IsList(c \o b) /\ ReadAll(begun, c \o b) = done
    BY <1>7, <1>8, <1>9, ReadNext DEF b, c
  <1>11. Element(name, s) = c \o b
    BY Zenon DEF Element, a, b, c, w, start, end, tag
  <1> QED BY <1>10, <1>11 DEF begun, done, field
\* The two kinds of elements without text.
LEMMA AttrReads ==
    ASSUME NEW name, NEW value, NEW open, NEW items, items # None, NEW releases
    PROVE  /\ IsList(Attr(name, value))
           /\ ReadAll(Between(open, items, releases), Attr(name, value))
                = Between(open, <<ApplyTorznabAttr(items[1], name, value)>>, releases)
  <1> DEFINE tag == <<"torznab", "attr">>
             attrs == Attrs(name, value)
             event == Empty(tag, attrs)
             begun == Between(open, items, releases)
             next == <<ApplyTorznabAttr(items[1], name, value)>>
             none == <<>>
             no == ""
  <1>1. event.e = "empty" /\ event.name = tag /\ event.attrs = attrs
    BY EventsAre
  <1>2. LocalName(tag) = "attr"
    BY NamesAre
  <1>3. DOMAIN attrs = {"name", "value"} /\ attrs["name"][1] = name /\ attrs["value"] = value
    BY DEF Attrs
  <1>4. begun = Collecting(open, items, no, none, releases) /\ Between(open, next, releases) = Collecting(open, next, no, none, releases)
    BY Zenon DEF Between
  <1> HIDE DEF tag, attrs, event, next, none, no
  <1>5. [begun EXCEPT !.item = next] = Between(open, next, releases)
    <2>1. [Collecting(open, items, no, none, releases) EXCEPT !.item = next] = Collecting(open, next, no, none, releases)
      BY StatesMove
    <2> QED BY <1>4, <2>1, Zenon
  <1>6. begun.ok /\ begun.item = items
    <2>1. Collecting(open, items, no, none, releases).ok /\ Collecting(open, items, no, none, releases).item = items
      BY StatesAre
    <2> QED BY <1>4, <2>1, Zenon
  <1> HIDE DEF begun
  <1>7. ApplyAttrElement(items[1], attrs) = ApplyTorznabAttr(items[1], name, value)
    BY <1>3, Zenon DEF ApplyAttrElement
  <1>8. Tagged(begun, event) = [begun EXCEPT !.item = next]
    <2>1. next = <<ApplyAttrElement(begun.item[1], event.attrs)>>
      BY <1>1, <1>6, <1>7, Zenon DEF next
    <2> QED BY <1>1, <1>2, <1>6, <2>1 DEF Tagged
  <1>9. Read(begun, event) = Between(open, next, releases)
    BY <1>1, <1>5, <1>6, <1>8 DEF Read
  <1>10. Attr(name, value) = <<event>>
    BY Zenon DEF Attr, event, tag, attrs
  <1>11. IsList(<<event>>) /\ ReadAll(begun, <<event>>) = Between(open, next, releases)
    BY <1>9, ListOfOne, ReadOne
  <1> QED BY <1>10, <1>11 DEF begun, next

LEMMA EnclosureReads ==
    ASSUME NEW attrs, NEW open, NEW items, items # None, NEW releases
    PROVE  /\ IsList(<<Empty(<<"enclosure">>, attrs)>>)
           /\ ReadAll(Between(open, items, releases), <<Empty(<<"enclosure">>, attrs)>>)
                = Between(open, <<ApplyEnclosure(items[1], attrs)>>, releases)
  <1> DEFINE tag == <<"enclosure">>
             event == Empty(tag, attrs)
             begun == Between(open, items, releases)
             next == <<ApplyEnclosure(items[1], attrs)>>
             none == <<>>
             no == ""
  <1>1. event.e = "empty" /\ event.name = tag /\ event.attrs = attrs
    BY EventsAre
  <1>2. LocalName(tag) = "enclosure"
    BY NamesAre
  <1>4. begun = Collecting(open, items, no, none, releases) /\ Between(open, next, releases) = Collecting(open, next, no, none, releases)
    BY Zenon DEF Between
  <1> HIDE DEF tag, event, next, none, no
  <1>5. [begun EXCEPT !.item = next] = Between(open, next, releases)
    <2>1. [Collecting(open, items, no, none, releases) EXCEPT !.item = next] = Collecting(open, next, no, none, releases)
      BY StatesMove
    <2> QED BY <1>4, <2>1, Zenon
  <1>6. begun.ok /\ begun.item = items
    <2>1. Collecting(open, items, no, none, releases).ok /\ Collecting(open, items, no, none, releases).item = items
      BY StatesAre
    <2> QED BY <1>4, <2>1, Zenon
  <1> HIDE DEF begun
  <1>8. Tagged(begun, event) = [begun EXCEPT !.item = next]
    <2>1. next = <<ApplyEnclosure(begun.item[1], event.attrs)>>
      BY <1>1, <1>6, Zenon DEF next
    <2> QED BY <1>1, <1>2, <1>6, <2>1 DEF Tagged
  <1>9. Read(begun, event) = Between(open, next, releases)
    BY <1>1, <1>5, <1>6, <1>8 DEF Read
  <1>11. IsList(<<event>>) /\ ReadAll(begun, <<event>>) = Between(open, next, releases)
    BY <1>9, ListOfOne, ReadOne
  <1> QED BY <1>11 DEF begun, next, event, tag

\* Outside an item, as in the channel's own title, no text counts; inside one
\* that of an unknown element does not.
LEMMA IgnoredReads ==
    ASSUME NEW s, IsList(s), NEW open, IsList(open), NEW releases, NEW items, NEW name,
           name \notin {"channel", "item", "enclosure", "attr"}, items = None \/ name \notin DOMAIN TextFields
    PROVE  /\ IsList(Element(name, s))
           /\ ReadAll(Between(open, items, releases), Element(name, s)) = Between(open, items, releases)
  <1> DEFINE tag == <<name>>
             more == Append(open, tag)
             start == Start(tag, NoAttrs)
             end == End(tag)
             begun == Between(open, items, releases)
             inside == Between(more, items, releases)
             none == <<>>
             no == ""
             w == Written(s)
  <1>1. Opens(open, tag, more)
    BY DEF Opens
  <1>2. /\ start.e = "start" /\ start.name = tag /\ end.e = "end" /\ end.name = tag
        /\ LocalName(tag) = name
    BY EventsAre, NamesAre
  <1>3. begun = Collecting(open, items, no, none, releases) /\ inside = Collecting(more, items, no, none, releases)
    BY Zenon DEF Between
  <1> HIDE DEF tag, start, end, none, no, more
  <1>4. begun.ok /\ begun.open = open /\ begun.item = items /\ begun.field = no
    <2>1. /\ Collecting(open, items, no, none, releases).ok /\ Collecting(open, items, no, none, releases).open = open
          /\ Collecting(open, items, no, none, releases).item = items /\ Collecting(open, items, no, none, releases).field = no
      BY StatesAre
    <2> QED BY <1>3, <2>1, Zenon
  <1>5. inside.ok /\ inside.open = more /\ inside.item = items /\ inside.field = no
    <2>1. /\ Collecting(more, items, no, none, releases).ok /\ Collecting(more, items, no, none, releases).open = more
          /\ Collecting(more, items, no, none, releases).item = items /\ Collecting(more, items, no, none, releases).field = no
      BY StatesAre
    <2> QED BY <1>3, <2>1, Zenon
  <1>6. [begun EXCEPT !.open = more] = inside /\ [inside EXCEPT !.open = open] = begun
    <2>1. [Collecting(open, items, no, none, releases) EXCEPT !.open = more] = Collecting(more, items, no, none, releases)
      BY StatesMove
    <2>2. [Collecting(more, items, no, none, releases) EXCEPT !.open = open] = Collecting(open, items, no, none, releases)
      BY StatesMove
    <2> QED BY <1>3, <2>1, <2>2, Zenon
  <1> HIDE DEF begun, inside
  <1>7. Read(begun, start) = inside
    <2>1. Append(begun.open, start.name) = more
      BY <1>1, <1>2, <1>4, Zenon DEF Opens
    <2>2. Read(begun, start) = Tagged([begun EXCEPT !.open = Append(begun.open, start.name)], start)
      BY <1>2, <1>4 DEF Read
    <2>3. Read(begun, start) = Tagged(inside, start)
      BY <1>6, <2>1, <2>2, Zenon
    <2>4. [[inside EXCEPT !.field = no] EXCEPT !.buffer = none] = inside
      <3>1. [Collecting(more, items, no, none, releases) EXCEPT !.field = no] = Collecting(more, items, no, none, releases)
        BY StatesMove
      <3>2. [Collecting(more, items, no, none, releases) EXCEPT !.buffer = none] = Collecting(more, items, no, none, releases)
        BY StatesMove
      <3> QED BY <1>3, <3>1, <3>2, Zenon DEF inside
    <2>5. CASE items = None
      <3>1. Tagged(inside, start) = inside
        BY <1>2, <1>5, <2>5 DEF Tagged
      <3> QED BY <2>3, <3>1
    <2>6. CASE items # None
      <3>1. name \notin DOMAIN TextFields
        BY <2>6
      <3>2. Tagged(inside, start) = [[inside EXCEPT !.field = no] EXCEPT !.buffer = none]
        <4>1. Tagged(inside, start) = [inside EXCEPT !.field = "", !.buffer = <<>>]
          BY <1>2, <1>5, <2>6, <3>1 DEF Tagged
        <4> QED BY <4>1, Zenon DEF no, none
      <3> QED BY <2>3, <2>4, <3>2
    <2> QED BY <2>5, <2>6
  <1>8. Read(inside, end) = begun
    <2>1. more # <<>> /\ Last(more) = tag /\ Front(more) = open
      BY <1>1, OpeningIs
    <2>2. Read(inside, end) = Closed([inside EXCEPT !.open = Front(inside.open)], end.name)
      BY <1>2, <1>5, <2>1 DEF Read
    <2>3. Read(inside, end) = Closed(begun, tag)
      BY <1>2, <1>5, <1>6, <2>1, <2>2, Zenon
    <2>4. Closed(begun, tag) = begun
      BY <1>2, <1>4 DEF Closed, no
    <2> QED BY <2>3, <2>4
  <1>9. \A c : Read(inside, WrittenChar(c)) = inside
    <2> SUFFICES ASSUME NEW c PROVE Read(inside, WrittenChar(c)) = inside
      OBVIOUS
    <2>1. \A x : Text(inside, x) = inside
      BY <1>5, Zenon DEF Text, no
    <2>2. \A x : Read(inside, Chars(x)) = Text(inside, x)
      <3> SUFFICES ASSUME NEW x PROVE Read(inside, Chars(x)) = Text(inside, x)
        OBVIOUS
      <3>1. Chars(x).e = "text" /\ Chars(x).s = x
        BY EventsAre
      <3> DEFINE event == Chars(x)
      <3> HIDE DEF event
      <3>2. event.e = "text" /\ event.s = x
        BY <3>1 DEF event
      <3>3. Read(inside, event) = Text(inside, event.s)
        BY <1>5, <3>2 DEF Read
      <3> QED BY <3>2, <3>3 DEF event
    <2>3. \A x : Read(inside, Ref(x)) = Text(inside, ResolveEntityRef(x))
      <3> SUFFICES ASSUME NEW x PROVE Read(inside, Ref(x)) = Text(inside, ResolveEntityRef(x))
        OBVIOUS
      <3>1. Ref(x).e = "ref" /\ Ref(x).name = x
        BY EventsAre
      <3> DEFINE event == Ref(x)
      <3> HIDE DEF event
      <3>2. event.e = "ref" /\ event.name = x
        BY <3>1 DEF event
      <3>3. Read(inside, event) = Text(inside, ResolveEntityRef(event.name))
        BY <1>5, <3>2 DEF Read
      <3> QED BY <3>2, <3>3 DEF event
    <2>4. WrittenChar(c) = Ref(EntityOf(c)) \/ WrittenChar(c) = Chars(<<c>>)
      BY Zenon DEF WrittenChar
    <2>5. CASE WrittenChar(c) = Ref(EntityOf(c))
      BY <2>1, <2>3, <2>5, Zenon
    <2>6. CASE WrittenChar(c) = Chars(<<c>>)
      BY <2>1, <2>2, <2>6, Zenon
    <2> QED BY <2>4, <2>5, <2>6
  <1>10. IsList(w) /\ ReadAll(inside, w) = inside
    <2>1. IsList(w) /\ Len(w) = Len(s) /\ \A i \in 1..Len(s) : w[i] = WrittenChar(s[i])
      BY WrittenIs
    <2>2. Len(s) \in Nat
      BY ListIs
    <2> DEFINE at == [i \in 0..Len(s) |-> inside]
    <2>3. \A i \in 0..Len(s) : at[i] = inside
      OBVIOUS
    <2> HIDE DEF at, w
    <2>4. \A i \in 1..Len(w) : at[i] = Read(at[i - 1], w[i])
      <3> SUFFICES ASSUME NEW i \in 1..Len(s) PROVE at[i] = Read(at[i - 1], w[i])
        BY <2>1
      <3>1. i \in 0..Len(s) /\ i - 1 \in 0..Len(s)
        BY <2>2
      <3>2. at[i] = inside /\ at[i - 1] = inside /\ w[i] = WrittenChar(s[i])
        BY <2>1, <2>3, <3>1
      <3> QED BY <1>9, <3>2
    <2>5. 0 \in 0..Len(s) /\ Len(w) \in 0..Len(s)
      BY <2>1, <2>2
    <2>6. at[0] = inside /\ at[Len(w)] = inside
      BY <2>3, <2>5
    <2>7. ReadAll(inside, w) = at[Len(w)]
      BY <2>1, <2>2, <2>4, <2>6, ReadAllAlong
    <2> QED BY <2>1, <2>6, <2>7
  <1> HIDE DEF w
  <1>11. ReadAll(begun, <<start>>) = inside /\ ReadAll(inside, <<end>>) = begun
    BY <1>7, <1>8, ReadOne
  <1> DEFINE a == <<start>>
             b == <<end>>
  <1>12. IsList(a) /\ IsList(b)
    BY ListOfOne
  <1> HIDE DEF a, b
  <1>13. IsList(a \o w) /\ ReadAll(begun, a \o w) = inside
    BY <1>10, <1>11, <1>12, ReadNext DEF a
  <1> DEFINE c == a \o w
  <1> HIDE DEF c
  <1>14. IsList(c \o b) /\ ReadAll(begun, c \o b) = begun
    BY <1>11, <1>12, <1>13, ReadNext DEF b, c
  <1>15. Element(name, s) = c \o b
    BY Zenon DEF Element, a, b, c, w, start, end, tag
  <1> QED BY <1>14, <1>15 DEF begun
-----------------------------------------------------------------------------
(***************************************************************************)
(* Parts put one after the other, and read one after the other.            *)
(***************************************************************************)
Gluing(parts, at, n) == at = [i \in 1..n |-> IF i = 1 THEN parts[i] ELSE at[i - 1] \o parts[i]]

LEMMA GluingGoesOn ==
    ASSUME NEW parts, NEW n \in Nat, NEW at, Gluing(parts, at, n)
    PROVE  \E more : Gluing(parts, more, n + 1)
  <1> DEFINE last == IF n + 1 = 1 THEN parts[n + 1] ELSE at[n] \o parts[n + 1]
             g == [i \in 1..(n + 1) |-> IF i <= n THEN at[i] ELSE last]
  <1>1. \A i \in 1..n : at[i] = IF i = 1 THEN parts[i] ELSE at[i - 1] \o parts[i]
    BY DEF Gluing
  <1>2. DOMAIN g = 1..(n + 1) /\ \A i \in 1..n : g[i] = at[i]
    <2> HIDE DEF last
    <2> QED OBVIOUS
  <1>3. g[n + 1] = last
    <2> HIDE DEF last
    <2> QED OBVIOUS
  <1>4. ASSUME NEW i \in 1..(n + 1)
        PROVE  g[i] = IF i = 1 THEN parts[i] ELSE g[i - 1] \o parts[i]
    <2> HIDE DEF g
    <2>1. CASE i \in 1..n
      <3>1. i # 1 => i - 1 \in 1..n
        BY <2>1
      <3> QED BY <1>1, <1>2, <2>1, <3>1
    <2>2. CASE i = n + 1
      <3>1. i # 1 => i - 1 = n /\ n \in 1..n
        BY <2>2
      <3> QED BY <1>2, <1>3, <2>2, <3>1
    <2> QED BY <2>1, <2>2
  <1>5. g = [i \in 1..(n + 1) |-> g[i]]
    BY <1>2
  <1> HIDE DEF g
  <1>6. [i \in 1..(n + 1) |-> g[i]] = [i \in 1..(n + 1) |-> IF i = 1 THEN parts[i] ELSE g[i - 1] \o parts[i]]
    BY <1>4
  <1>7. Gluing(parts, g, n + 1)
    BY <1>5, <1>6 DEF Gluing
  <1> QED BY <1>7

LEMMA GluingExists ==
    ASSUME NEW parts
    PROVE  \A n \in Nat : \E at : Gluing(parts, at, n)
  <1> DEFINE S == {n \in Nat : \E at : Gluing(parts, at, n)}
  <1>1. 0 \in S
    <2> DEFINE g == [i \in 1..0 |-> 0]
    <2>1. g = [i \in 1..0 |-> IF i = 1 THEN parts[i] ELSE g[i - 1] \o parts[i]]
      OBVIOUS
    <2> HIDE DEF g
    <2>2. Gluing(parts, g, 0)
      BY <2>1 DEF Gluing
    <2> QED BY <2>2
  <1>2. \A n \in Nat : n \in S => n + 1 \in S
    BY GluingGoesOn
  <1>3. Nat \subseteq S
    <2> HIDE DEF S
    <2> QED BY <1>1, <1>2, Inductively
  <1> QED BY <1>3

LEMMA GlueIs ==
    ASSUME NEW parts, Len(parts) \in Nat \ {0}
    PROVE  \E at : Gluing(parts, at, Len(parts)) /\ Glue(parts) = at[Len(parts)]
  <1> DEFINE g == CHOOSE f : f = [i \in 1..Len(parts) |-> IF i = 1 THEN parts[i] ELSE f[i - 1] \o parts[i]]
  <1>1. PICK at : Gluing(parts, at, Len(parts))
    BY GluingExists
  <1>2. \E f : f = [i \in 1..Len(parts) |-> IF i = 1 THEN parts[i] ELSE f[i - 1] \o parts[i]]
    BY <1>1, Zenon DEF Gluing
  <1>3. g = [i \in 1..Len(parts) |-> IF i = 1 THEN parts[i] ELSE g[i - 1] \o parts[i]]
    BY <1>2, Zenon
  <1>4. FlattenSeq(parts) = g[Len(parts)]
    BY Zenon DEF FlattenSeq
  <1> HIDE DEF g
  <1>5. Gluing(parts, g, Len(parts))
    BY <1>3 DEF Gluing
  <1> QED BY <1>4, <1>5 DEF Glue

LEMMA GlueNone == Glue(<<>>) = <<>>
  BY DEF Glue, FlattenSeq

LEMMA ReadGlued ==
    ASSUME NEW parts, IsList(parts), NEW st,
           \A i \in 1..Len(parts) : IsList(parts[i]) /\ ReadAll(st[i - 1], parts[i]) = st[i]
    PROVE  IsList(Glue(parts)) /\ ReadAll(st[0], Glue(parts)) = st[Len(parts)]
  <1> DEFINE n == Len(parts)
             begun == st[0]
  <1>0. n \in Nat
    BY ListIs
  <1>1. CASE n = 0
    <2>1. parts = <<>>
      BY <1>1 DEF IsList
    <2>2. Glue(parts) = <<>>
      BY <2>1, GlueNone
    <2>3. IsList(<<>>) /\ ReadAll(begun, <<>>) = begun
      BY ListOfNone, ReadNone
    <2> QED BY <1>1, <2>2, <2>3
  <1>2. CASE n # 0
    <2>1. PICK at : Gluing(parts, at, n) /\ Glue(parts) = at[n]
      BY <1>0, <1>2, GlueIs
    <2>2. \A i \in 1..n : at[i] = IF i = 1 THEN parts[i] ELSE at[i - 1] \o parts[i]
      BY <2>1 DEF Gluing
    <2> HIDE DEF n, begun
    <2> DEFINE S == {m \in Nat : m \in 1..n => IsList(at[m]) /\ ReadAll(begun, at[m]) = st[m]}
    <2>3. 0 \in S
      OBVIOUS
    <2>4. ASSUME NEW m \in Nat, m \in S PROVE m + 1 \in S
      <3>1. CASE m + 1 \in 1..n /\ m = 0
        <4>1. at[1] = parts[1] /\ 1 \in 1..n /\ m + 1 = 1 /\ 1 - 1 = 0
          BY <2>2, <3>1
        <4>2. IsList(parts[1]) /\ ReadAll(st[1 - 1], parts[1]) = st[1]
          BY <4>1 DEF n
        <4> QED BY <4>1, <4>2 DEF begun
      <3>2. CASE m + 1 \in 1..n /\ m # 0
        <4>1. m \in 1..n /\ m + 1 # 1 /\ (m + 1) - 1 = m
          BY <1>0, <3>2
        <4>2. at[m + 1] = at[m] \o parts[m + 1]
          BY <2>2, <3>2, <4>1
        <4>3. IsList(at[m]) /\ ReadAll(begun, at[m]) = st[m]
          BY <2>4, <4>1
        <4>4. IsList(parts[m + 1]) /\ ReadAll(st[m], parts[m + 1]) = st[m + 1]
          BY <3>2, <4>1 DEF n
        <4> DEFINE a == at[m]
                   b == parts[m + 1]
        <4>5. IsList(a \o b) /\ ReadAll(begun, a \o b) = st[m + 1]
          BY <4>3, <4>4, ReadNext
        <4>6. IsList(at[m + 1]) /\ ReadAll(begun, at[m + 1]) = st[m + 1]
          BY <4>2, <4>5, Zenon
        <4> QED BY <4>6
      <3>3. CASE ~(m + 1 \in 1..n)
        BY <3>3
      <3> QED BY <3>1, <3>2, <3>3
    <2>5. Nat \subseteq S
      <3> HIDE DEF S
      <3> QED BY <2>3, <2>4, Inductively
    <2>6. n \in Nat /\ n \in 1..n
      BY <1>0, <1>2
    <2>7. n \in S
      BY <2>5, <2>6
    <2> QED BY <2>1, <2>6, <2>7 DEF n, begun
  <1> QED BY <1>1, <1>2
-----------------------------------------------------------------------------
(***************************************************************************)
(* What trimming leaves.                                                   *)
(***************************************************************************)
LEMMA LastOf ==
    ASSUME NEW n \in Nat, NEW T \in SUBSET (1..n), T # {}
    PROVE  /\ (CHOOSE i \in T : \A k \in T : k <= i) \in T
           /\ \A j \in T : j <= CHOOSE i \in T : \A k \in T : k <= i
  <1> DEFINE D == {n - i : i \in T}
  <1>1. D \in SUBSET Nat /\ D # {}
    <2>1. \A i \in T : n - i \in Nat
      OBVIOUS
    <2> QED BY <2>1
  <1> HIDE DEF D
  <1>2. PICK d \in D : \A e \in D : d <= e
    BY <1>1, LeastOf
  <1>3. PICK i \in T : d = n - i
    BY <1>2 DEF D
  <1>4. ASSUME NEW k \in T PROVE k <= i
    <2>1. n - k \in D
      BY DEF D
    <2>2. d <= n - k
      BY <1>2, <2>1
    <2>3. k \in Nat /\ i \in Nat
      OBVIOUS
    <2> QED BY <1>3, <2>2, <2>3
  <1>5. \E x \in T : \A k \in T : k <= x
    BY <1>4
  <1> QED BY <1>5, Zenon

LEMMA EarliestIsOne ==
    ASSUME NEW T \in SUBSET Nat, 1 \in T, 0 \notin T
    PROVE  Earliest(T) = 1
  <1>1. \A k \in T : 1 <= k
    OBVIOUS
  <1>2. ASSUME NEW i \in T, \A k \in T : i <= k PROVE i = 1
    BY <1>1, <1>2
  <1> QED BY <1>1, <1>2 DEF Earliest

LEMMA TrimKeepsStart ==
    ASSUME NEW s, IsList(s), Len(s) > 0, s[1] \notin Blanks
    PROVE  /\ Trim(s) # <<>> /\ Trim(s)[1] = s[1]
           /\ s[Len(s)] \notin Blanks => Trim(s) = s
  <1> DEFINE kept == {i \in DOMAIN s : s[i] \notin Blanks}
             last == CHOOSE i \in kept : \A k \in kept : k <= i
             T == ToSet(s)
  <1>1. s \in Seq(T) /\ Len(s) \in Nat /\ DOMAIN s = 1..Len(s)
    BY ListIs DEF IsList
  <1>2. kept \in SUBSET (1..Len(s)) /\ kept \in SUBSET Nat /\ 1 \in kept /\ 0 \notin kept /\ kept # {}
    BY <1>1
  <1>3. last \in kept /\ \A k \in kept : k <= last
    <2> HIDE DEF kept
    <2> QED BY <1>1, <1>2, LastOf
  <1>4. Trim(s) = SubSeq(s, Earliest(kept), last)
    BY <1>2, Zenon DEF Trim, TrimOf, Within
  <1>5. Earliest(kept) = 1
    <2> HIDE DEF kept
    <2> QED BY <1>2, EarliestIsOne
  <1>6. s[Len(s)] \notin Blanks => Len(s) \in kept
    BY <1>1
  <1> HIDE DEF last, T, kept
  <1>7. last \in 1..Len(s)
    BY <1>2, <1>3
  <1>8. Trim(s) = SubSeq(s, 1, last)
    BY <1>4, <1>5
  <1>9. SubSeq(s, 1, last) # <<>> /\ SubSeq(s, 1, last)[1] = s[1]
    <2>1. Len(SubSeq(s, 1, last)) = last /\ SubSeq(s, 1, last) \in Seq(T) /\ last # 0 /\ 1 \in 1..last
      BY <1>1, <1>7
    <2>2. SubSeq(s, 1, last)[1] = s[1]
      BY <1>1, <1>7, <2>1
    <2> DEFINE t == SubSeq(s, 1, last)
    <2> HIDE DEF t
    <2>3. t # <<>>
      BY <2>1 DEF t
    <2> QED BY <2>2, <2>3 DEF t
  <1>10. ASSUME s[Len(s)] \notin Blanks PROVE Trim(s) = s
    <2>1. Len(s) <= last
      BY <1>3, <1>6, <1>10, Zenon
    <2>2. last = Len(s)
      <3>1. \A i, n \in Nat : i \in 1..n /\ n <= i => i = n
        OBVIOUS
      <3>2. last \in Nat
        BY <1>2, <1>3, Zenon
      <3> QED BY <1>1, <1>7, <2>1, <3>1, <3>2, Zenon
    <2>3. SubSeq(s, 1, Len(s)) = s
      BY <1>1
    <2> QED BY <1>8, <2>2, <2>3
  <1> QED BY <1>8, <1>9, <1>10

LEMMA TrimNumber ==
    ASSUME NEW n \in Nat
    PROVE  IsList(Decimal(n)) /\ Trim(Decimal(n)) = Decimal(n)
  <1> DEFINE s == Decimal(n)
  <1>1. s \in Seq(DigitChars) /\ Len(s) > 0
    BY DecimalIs DEF IsDigits
  <1>2. IsList(s)
    BY <1>1, ListIs
  <1> HIDE DEF s
  <1>3. s[1] \in DigitChars /\ s[Len(s)] \in DigitChars
    BY <1>1
  <1>4. s[1] \notin Blanks /\ s[Len(s)] \notin Blanks
    BY <1>3, DigitsAre
  <1> QED BY <1>1, <1>2, <1>4, TrimKeepsStart DEF s
-----------------------------------------------------------------------------
(***************************************************************************)
(* An item as its children fill it.                                        *)
(***************************************************************************)
Item(a, b, c, d, e, f, g, h, i, j, k, l, m, n, o, p) ==
    [title |-> a, guid |-> b, comments |-> c, link |-> d, pub_date |-> e, enclosure_url |-> f,
     enclosure_length |-> g, size_override |-> h, seeders |-> i, peers |-> j, grabs |-> k, info_hash |-> l,
     magnet_url |-> m, categories |-> n, download_volume_factor |-> o, upload_volume_factor |-> p]

LEMMA ItemTakes ==
    ASSUME NEW a, NEW b, NEW c, NEW d, NEW e, NEW f, NEW g, NEW h,
           NEW i, NEW j, NEW k, NEW l, NEW m, NEW n, NEW o, NEW p, NEW v
    PROVE  /\ [Item(a, b, c, d, e, f, g, h, i, j, k, l, m, n, o, p) EXCEPT !.title = v]
                 = Item(v, b, c, d, e, f, g, h, i, j, k, l, m, n, o, p)
           /\ [Item(a, b, c, d, e, f, g, h, i, j, k, l, m, n, o, p) EXCEPT !.guid = v]
                 = Item(a, v, c, d, e, f, g, h, i, j, k, l, m, n, o, p)
           /\ [Item(a, b, c, d, e, f, g, h, i, j, k, l, m, n, o, p) EXCEPT !.comments = v]
                 = Item(a, b, v, d, e, f, g, h, i, j, k, l, m, n, o, p)
           /\ [Item(a, b, c, d, e, f, g, h, i, j, k, l, m, n, o, p) EXCEPT !.link = v]
                 = Item(a, b, c, v, e, f, g, h, i, j, k, l, m, n, o, p)
           /\ [Item(a, b, c, d, e, f, g, h, i, j, k, l, m, n, o, p) EXCEPT !.pub_date = v]
                 = Item(a, b, c, d, v, f, g, h, i, j, k, l, m, n, o, p)
           /\ [Item(a, b, c, d, e, f, g, h, i, j, k, l, m, n, o, p) EXCEPT !.size_override = v]
                 = Item(a, b, c, d, e, f, g, v, i, j, k, l, m, n, o, p)
           /\ [Item(a, b, c, d, e, f, g, h, i, j, k, l, m, n, o, p) EXCEPT !.seeders = v]
                 = Item(a, b, c, d, e, f, g, h, v, j, k, l, m, n, o, p)
           /\ [Item(a, b, c, d, e, f, g, h, i, j, k, l, m, n, o, p) EXCEPT !.peers = v]
                 = Item(a, b, c, d, e, f, g, h, i, v, k, l, m, n, o, p)
           /\ [Item(a, b, c, d, e, f, g, h, i, j, k, l, m, n, o, p) EXCEPT !.grabs = v]
                 = Item(a, b, c, d, e, f, g, h, i, j, v, l, m, n, o, p)
           /\ [Item(a, b, c, d, e, f, g, h, i, j, k, l, m, n, o, p) EXCEPT !.info_hash = v]
                 = Item(a, b, c, d, e, f, g, h, i, j, k, v, m, n, o, p)
           /\ [Item(a, b, c, d, e, f, g, h, i, j, k, l, m, n, o, p) EXCEPT !.magnet_url = v]
                 = Item(a, b, c, d, e, f, g, h, i, j, k, l, v, n, o, p)
           /\ [Item(a, b, c, d, e, f, g, h, i, j, k, l, m, n, o, p) EXCEPT !.categories = v]
                 = Item(a, b, c, d, e, f, g, h, i, j, k, l, m, v, o, p)
           /\ [Item(a, b, c, d, e, f, g, h, i, j, k, l, m, n, o, p) EXCEPT !.download_volume_factor = v]
                 = Item(a, b, c, d, e, f, g, h, i, j, k, l, m, n, v, p)
           /\ [Item(a, b, c, d, e, f, g, h, i, j, k, l, m, n, o, p) EXCEPT !.upload_volume_factor = v]
                 = Item(a, b, c, d, e, f, g, h, i, j, k, l, m, n, o, v)
  <1>1. [Item(a, b, c, d, e, f, g, h, i, j, k, l, m, n, o, p) EXCEPT !.title = v]
           = Item(v, b, c, d, e, f, g, h, i, j, k, l, m, n, o, p)
    BY DEF Item
  <1>2. [Item(a, b, c, d, e, f, g, h, i, j, k, l, m, n, o, p) EXCEPT !.guid = v]
           = Item(a, v, c, d, e, f, g, h, i, j, k, l, m, n, o, p)
    BY DEF Item
  <1>3. [Item(a, b, c, d, e, f, g, h, i, j, k, l, m, n, o, p) EXCEPT !.comments = v]
           = Item(a, b, v, d, e, f, g, h, i, j, k, l, m, n, o, p)
    BY DEF Item
  <1>4. [Item(a, b, c, d, e, f, g, h, i, j, k, l, m, n, o, p) EXCEPT !.link = v]
           = Item(a, b, c, v, e, f, g, h, i, j, k, l, m, n, o, p)
    BY DEF Item
  <1>5. [Item(a, b, c, d, e, f, g, h, i, j, k, l, m, n, o, p) EXCEPT !.pub_date = v]
           = Item(a, b, c, d, v, f, g, h, i, j, k, l, m, n, o, p)
    BY DEF Item
  <1>6. [Item(a, b, c, d, e, f, g, h, i, j, k, l, m, n, o, p) EXCEPT !.size_override = v]
           = Item(a, b, c, d, e, f, g, v, i, j, k, l, m, n, o, p)
    BY DEF Item
  <1>7. [Item(a, b, c, d, e, f, g, h, i, j, k, l, m, n, o, p) EXCEPT !.seeders = v]
           = Item(a, b, c, d, e, f, g, h, v, j, k, l, m, n, o, p)
    BY DEF Item
  <1>8. [Item(a, b, c, d, e, f, g, h, i, j, k, l, m, n, o, p) EXCEPT !.peers = v]
           = Item(a, b, c, d, e, f, g, h, i, v, k, l, m, n, o, p)
    BY DEF Item
  <1>9. [Item(a, b, c, d, e, f, g, h, i, j, k, l, m, n, o, p) EXCEPT !.grabs = v]
           = Item(a, b, c, d, e, f, g, h, i, j, v, l, m, n, o, p)
    BY DEF Item
  <1>10. [Item(a, b, c, d, e, f, g, h, i, j, k, l, m, n, o, p) EXCEPT !.info_hash = v]
           = Item(a, b, c, d, e, f, g, h, i, j, k, v, m, n, o, p)
    BY DEF Item
  <1>11. [Item(a, b, c, d, e, f, g, h, i, j, k, l, m, n, o, p) EXCEPT !.magnet_url = v]
           = Item(a, b, c, d, e, f, g, h, i, j, k, l, v, n, o, p)
    BY DEF Item
  <1>12. [Item(a, b, c, d, e, f, g, h, i, j, k, l, m, n, o, p) EXCEPT !.categories = v]
           = Item(a, b, c, d, e, f, g, h, i, j, k, l, m, v, o, p)
    BY DEF Item
  <1>13. [Item(a, b, c, d, e, f, g, h, i, j, k, l, m, n, o, p) EXCEPT !.download_volume_factor = v]
           = Item(a, b, c, d, e, f, g, h, i, j, k, l, m, n, v, p)
    BY DEF Item
  <1>14. [Item(a, b, c, d, e, f, g, h, i, j, k, l, m, n, o, p) EXCEPT !.upload_volume_factor = v]
           = Item(a, b, c, d, e, f, g, h, i, j, k, l, m, n, o, v)
    BY DEF Item
  <1> QED BY <1>1, <1>2, <1>3, <1>4, <1>5, <1>6, <1>7, <1>8, <1>9, <1>10, <1>11, <1>12, <1>13, <1>14, Zenon

LEMMA ItemIs ==
    ASSUME NEW a, NEW b, NEW c, NEW d, NEW e, NEW f, NEW g, NEW h,
           NEW i, NEW j, NEW k, NEW l, NEW m, NEW n, NEW o, NEW p
    PROVE  /\ Item(a, b, c, d, e, f, g, h, i, j, k, l, m, n, o, p).title = a
           /\ Item(a, b, c, d, e, f, g, h, i, j, k, l, m, n, o, p).guid = b
           /\ Item(a, b, c, d, e, f, g, h, i, j, k, l, m, n, o, p).comments = c
           /\ Item(a, b, c, d, e, f, g, h, i, j, k, l, m, n, o, p).link = d
           /\ Item(a, b, c, d, e, f, g, h, i, j, k, l, m, n, o, p).pub_date = e
           /\ Item(a, b, c, d, e, f, g, h, i, j, k, l, m, n, o, p).enclosure_url = f
           /\ Item(a, b, c, d, e, f, g, h, i, j, k, l, m, n, o, p).enclosure_length = g
           /\ Item(a, b, c, d, e, f, g, h, i, j, k, l, m, n, o, p).size_override = h
           /\ Item(a, b, c, d, e, f, g, h, i, j, k, l, m, n, o, p).seeders = i
           /\ Item(a, b, c, d, e, f, g, h, i, j, k, l, m, n, o, p).peers = j
           /\ Item(a, b, c, d, e, f, g, h, i, j, k, l, m, n, o, p).grabs = k
           /\ Item(a, b, c, d, e, f, g, h, i, j, k, l, m, n, o, p).info_hash = l
           /\ Item(a, b, c, d, e, f, g, h, i, j, k, l, m, n, o, p).magnet_url = m
           /\ Item(a, b, c, d, e, f, g, h, i, j, k, l, m, n, o, p).categories = n
           /\ Item(a, b, c, d, e, f, g, h, i, j, k, l, m, n, o, p).download_volume_factor = o
           /\ Item(a, b, c, d, e, f, g, h, i, j, k, l, m, n, o, p).upload_volume_factor = p
  BY DEF Item

LEMMA FieldNames ==
    /\ TextFields["title"] = "title" /\ TextFields["guid"] = "guid" /\ TextFields["link"] = "link"
    /\ TextFields["comments"] = "comments" /\ TextFields["pubDate"] = "pub_date"
    /\ TextFields["size"] = "size_override"
    /\ {"title", "guid", "link", "comments", "pubDate", "size"} \subseteq DOMAIN TextFields
  BY DEF TextFields

\* What commit_field does for each of the fields.
LEMMA CommitIs ==
    ASSUME NEW item, NEW raw, NEW value, value = Trim(raw)
    PROVE  /\ CommitField(item, "title", raw) = [item EXCEPT !.title = value]
           /\ CommitField(item, "size_override", raw) = [item EXCEPT !.size_override = Parsed(value)]
           /\ value # <<>> =>
                 /\ CommitField(item, "guid", raw) = [item EXCEPT !.guid = <<value>>]
                 /\ CommitField(item, "comments", raw) = [item EXCEPT !.comments = <<value>>]
                 /\ CommitField(item, "link", raw) = [item EXCEPT !.link = <<value>>]
                 /\ CommitField(item, "pub_date", raw) = [item EXCEPT !.pub_date = <<value>>]
  <1>1. CommitField(item, "title", raw) = [item EXCEPT !.title = value]
    BY DEF CommitField
  <1>2. CommitField(item, "size_override", raw) = [item EXCEPT !.size_override = Parsed(value)]
    BY DEF CommitField
  <1>3. ASSUME value # <<>>
        PROVE  /\ CommitField(item, "guid", raw) = [item EXCEPT !.guid = <<value>>]
               /\ CommitField(item, "comments", raw) = [item EXCEPT !.comments = <<value>>]
               /\ CommitField(item, "link", raw) = [item EXCEPT !.link = <<value>>]
               /\ CommitField(item, "pub_date", raw) = [item EXCEPT !.pub_date = <<value>>]
    BY <1>3 DEF CommitField
  <1> QED BY <1>1, <1>2, <1>3

\* And apply_torznab_attr, for each of the names.
LEMMA AttrIs ==
    ASSUME NEW item, NEW value
    PROVE  /\ ApplyTorznabAttr(item, "seeders", value) = [item EXCEPT !.seeders = Parsed(value)]
           /\ ApplyTorznabAttr(item, "peers", value) = [item EXCEPT !.peers = Parsed(value)]
           /\ ApplyTorznabAttr(item, "grabs", value) = [item EXCEPT !.grabs = Parsed(value)]
           /\ ApplyTorznabAttr(item, "downloadvolumefactor", value)
                 = [item EXCEPT !.download_volume_factor = Parsed(value)]
           /\ ApplyTorznabAttr(item, "uploadvolumefactor", value)
                 = [item EXCEPT !.upload_volume_factor = Parsed(value)]
           /\ ApplyTorznabAttr(item, "infohash", value) = [item EXCEPT !.info_hash = <<value>>]
           /\ ApplyTorznabAttr(item, "magneturl", value) = [item EXCEPT !.magnet_url = <<value>>]
           /\ ApplyTorznabAttr(item, "category", value)
                 = [item EXCEPT !.categories = item.categories \o Parsed(value)]
  <1>1. /\ Counted["seeders"] = "seeders" /\ Counted["peers"] = "peers" /\ Counted["grabs"] = "grabs"
        /\ Counted["downloadvolumefactor"] = "download_volume_factor"
        /\ Counted["uploadvolumefactor"] = "upload_volume_factor"
        /\ DOMAIN Counted = {"seeders", "peers", "grabs", "size", "downloadvolumefactor", "uploadvolumefactor"}
    BY DEF Counted
  <1>2. /\ Spelled["infohash"] = "info_hash" /\ Spelled["magneturl"] = "magnet_url"
        /\ DOMAIN Spelled = {"infohash", "magneturl"}
    BY DEF Spelled
  <1>3. \A name \in DOMAIN Counted :
           ApplyTorznabAttr(item, name, value) = [item EXCEPT ![Counted[name]] = Parsed(value)]
    BY <1>1, <1>2 DEF ApplyTorznabAttr
  <1>4. \A name \in DOMAIN Spelled :
           ApplyTorznabAttr(item, name, value) = [item EXCEPT ![Spelled[name]] = <<value>>]
    BY <1>1, <1>2 DEF ApplyTorznabAttr
  <1>5. ApplyTorznabAttr(item, "category", value) = [item EXCEPT !.categories = item.categories \o Parsed(value)]
    BY <1>1, <1>2 DEF ApplyTorznabAttr
  <1>6. ApplyTorznabAttr(item, "seeders", value) = [item EXCEPT !.seeders = Parsed(value)]
    BY <1>1, <1>3
  <1>7. ApplyTorznabAttr(item, "peers", value) = [item EXCEPT !.peers = Parsed(value)]
    BY <1>1, <1>3
  <1>8. ApplyTorznabAttr(item, "grabs", value) = [item EXCEPT !.grabs = Parsed(value)]
    BY <1>1, <1>3
  <1>9. ApplyTorznabAttr(item, "downloadvolumefactor", value) = [item EXCEPT !.download_volume_factor = Parsed(value)]
    BY <1>1, <1>3
  <1>10. ApplyTorznabAttr(item, "uploadvolumefactor", value) = [item EXCEPT !.upload_volume_factor = Parsed(value)]
    BY <1>1, <1>3
  <1>11. ApplyTorznabAttr(item, "infohash", value) = [item EXCEPT !.info_hash = <<value>>]
    BY <1>2, <1>4
  <1>12. ApplyTorznabAttr(item, "magneturl", value) = [item EXCEPT !.magnet_url = <<value>>]
    BY <1>2, <1>4
  <1> QED BY <1>5, <1>6, <1>7, <1>8, <1>9, <1>10, <1>11, <1>12
\* Reading `events` between an item's children turns item into next.
Turns(open, done, item, events, next) ==
    /\ IsList(events)
    /\ ReadAll(Between(open, <<item>>, done), events) = Between(open, <<next>>, done)

LEMMA TurnsOn ==
    ASSUME NEW open, NEW done, NEW item, NEW half, NEW next, NEW e, NEW f,
           Turns(open, done, item, e, half), Turns(open, done, half, f, next)
    PROVE  Turns(open, done, item, e \o f, next)
  <1> DEFINE a == Between(open, <<item>>, done)
             b == Between(open, <<half>>, done)
             c == Between(open, <<next>>, done)
  <1>1. IsList(e) /\ IsList(f) /\ ReadAll(a, e) = b /\ ReadAll(b, f) = c
    BY Zenon DEF Turns
  <1> HIDE DEF a, b, c
  <1>2. IsList(e \o f) /\ ReadAll(a, e \o f) = c
    BY <1>1, ReadNext
  <1> QED BY <1>2, Zenon DEF Turns, a, c

LEMMA TurnsNot ==
    ASSUME NEW open, NEW done, NEW item
    PROVE  Turns(open, done, item, <<>>, item)
  <1> DEFINE a == Between(open, <<item>>, done)
             e == <<>>
  <1>1. IsList(e) /\ ReadAll(a, e) = a
    BY ListOfNone, ReadNone
  <1> QED BY <1>1, Zenon DEF Turns, a, e

LEMMA FieldTurns ==
    ASSUME NEW open, IsList(open), NEW done, NEW name \in DOMAIN TextFields, NEW s, IsList(s), NEW item, NEW next,
           CommitField(item, TextFields[name], s) = next
    PROVE  Turns(open, done, item, Element(name, s), next)
  <1> DEFINE items == <<item>>
             nexts == <<CommitField(items[1], TextFields[name], s)>>
  <1>1. items # None /\ items[1] = item
    BY OneThere
  <1>2. nexts = <<next>>
    BY <1>1
  <1> HIDE DEF items
  <1>3. /\ IsList(Element(name, s))
        /\ ReadAll(Between(open, items, done), Element(name, s)) = Between(open, nexts, done)
    BY <1>1, FieldReads
  <1> QED BY <1>2, <1>3, Zenon DEF Turns, items

LEMMA AttrTurns ==
    ASSUME NEW open, NEW done, NEW name, NEW value, NEW item, NEW next, ApplyTorznabAttr(item, name, value) = next
    PROVE  Turns(open, done, item, Attr(name, value), next)
  <1> DEFINE items == <<item>>
             nexts == <<ApplyTorznabAttr(items[1], name, value)>>
  <1>1. items # None /\ items[1] = item
    BY OneThere
  <1>2. nexts = <<next>>
    BY <1>1
  <1> HIDE DEF items
  <1>3. IsList(Attr(name, value)) /\ ReadAll(Between(open, items, done), Attr(name, value)) = Between(open, nexts, done)
    BY <1>1, AttrReads
  <1> QED BY <1>2, <1>3, Zenon DEF Turns, items

LEMMA EnclosureTurns ==
    ASSUME NEW open, NEW done, NEW attrs, NEW item, NEW next, ApplyEnclosure(item, attrs) = next
    PROVE  Turns(open, done, item, <<Empty(<<"enclosure">>, attrs)>>, next)
  <1> DEFINE items == <<item>>
             nexts == <<ApplyEnclosure(items[1], attrs)>>
             events == <<Empty(<<"enclosure">>, attrs)>>
  <1>1. items # None /\ items[1] = item
    BY OneThere
  <1>2. nexts = <<next>>
    BY <1>1
  <1> HIDE DEF items
  <1>3. IsList(events) /\ ReadAll(Between(open, items, done), events) = Between(open, nexts, done)
    BY <1>1, EnclosureReads
  <1> QED BY <1>2, <1>3, Zenon DEF Turns, items, events

\* A text that is there has no blanks at its ends.
Plain(value) == value = None \/ \E s : value = <<s>> /\ IsList(s) /\ s # <<>> /\ Trim(s) = s

LEMMA PlainIs ==
    ASSUME NEW value, Plain(value), value # None
    PROVE  value = <<value[1]>> /\ IsList(value[1]) /\ value[1] # <<>> /\ Trim(value[1]) = value[1]
  <1>1. PICK s : value = <<s>> /\ IsList(s) /\ s # <<>> /\ Trim(s) = s
    BY DEF Plain
  <1>2. value[1] = s
    BY <1>1
  <1> QED BY <1>1, <1>2

LEMMA TextTurns ==
    ASSUME NEW open, IsList(open), NEW done, NEW item, NEW value, Plain(value), value # None
    PROVE  /\ Turns(open, done, item, Element("guid", value[1]), [item EXCEPT !.guid = value])
           /\ Turns(open, done, item, Element("comments", value[1]), [item EXCEPT !.comments = value])
           /\ Turns(open, done, item, Element("link", value[1]), [item EXCEPT !.link = value])
           /\ Turns(open, done, item, Element("pubDate", value[1]), [item EXCEPT !.pub_date = value])
  <1> DEFINE s == value[1]
  <1>1. value = <<s>> /\ IsList(s) /\ s # <<>> /\ Trim(s) = s
    BY PlainIs
  <1> HIDE DEF s
  <1>2. /\ CommitField(item, "guid", s) = [item EXCEPT !.guid = <<s>>]
        /\ CommitField(item, "comments", s) = [item EXCEPT !.comments = <<s>>]
        /\ CommitField(item, "link", s) = [item EXCEPT !.link = <<s>>]
        /\ CommitField(item, "pub_date", s) = [item EXCEPT !.pub_date = <<s>>]
    BY <1>1, CommitIs
  <1>3. Turns(open, done, item, Element("guid", s), [item EXCEPT !.guid = value])
    BY <1>1, <1>2, FieldNames, FieldTurns
  <1>4. Turns(open, done, item, Element("comments", s), [item EXCEPT !.comments = value])
    BY <1>1, <1>2, FieldNames, FieldTurns
  <1>5. Turns(open, done, item, Element("link", s), [item EXCEPT !.link = value])
    BY <1>1, <1>2, FieldNames, FieldTurns
  <1>6. Turns(open, done, item, Element("pubDate", s), [item EXCEPT !.pub_date = value])
    BY <1>1, <1>2, FieldNames, FieldTurns
  <1> QED BY <1>3, <1>4, <1>5, <1>6 DEF s
LEMMA NumberTurns ==
    ASSUME MaxCount \in Nat, NEW open, IsList(open), NEW done, NEW item, NEW n \in 0..MaxCount
    PROVE  /\ Turns(open, done, item, Element("size", Decimal(n)), [item EXCEPT !.size_override = <<n>>])
           /\ Turns(open, done, item, Attr("seeders", Decimal(n)), [item EXCEPT !.seeders = <<n>>])
           /\ Turns(open, done, item, Attr("peers", Decimal(n)), [item EXCEPT !.peers = <<n>>])
           /\ Turns(open, done, item, Attr("grabs", Decimal(n)), [item EXCEPT !.grabs = <<n>>])
           /\ Turns(open, done, item, Attr("category", Decimal(n)), [item EXCEPT !.categories = item.categories \o <<n>>])
           /\ Turns(open, done, item, Attr("downloadvolumefactor", Decimal(n)),
                    [item EXCEPT !.download_volume_factor = <<n>>])
           /\ Turns(open, done, item, Attr("uploadvolumefactor", Decimal(n)),
                    [item EXCEPT !.upload_volume_factor = <<n>>])
  <1> DEFINE s == Decimal(n)
             read == <<n>>
  <1>1. Parsed(s) = read /\ IsList(s) /\ Trim(s) = s
    BY DecimalReads, TrimNumber
  <1> HIDE DEF s, read
  <1>2. CommitField(item, "size_override", s) = [item EXCEPT !.size_override = read]
    BY <1>1, CommitIs
  <1>3. /\ ApplyTorznabAttr(item, "seeders", s) = [item EXCEPT !.seeders = read]
        /\ ApplyTorznabAttr(item, "peers", s) = [item EXCEPT !.peers = read]
        /\ ApplyTorznabAttr(item, "grabs", s) = [item EXCEPT !.grabs = read]
        /\ ApplyTorznabAttr(item, "category", s) = [item EXCEPT !.categories = item.categories \o read]
        /\ ApplyTorznabAttr(item, "downloadvolumefactor", s) = [item EXCEPT !.download_volume_factor = read]
        /\ ApplyTorznabAttr(item, "uploadvolumefactor", s) = [item EXCEPT !.upload_volume_factor = read]
    BY <1>1, AttrIs
  <1>4. Turns(open, done, item, Element("size", s), [item EXCEPT !.size_override = read])
    BY <1>1, <1>2, FieldNames, FieldTurns
  <1>5. Turns(open, done, item, Attr("seeders", s), [item EXCEPT !.seeders = read])
    BY <1>3, AttrTurns
  <1>6. Turns(open, done, item, Attr("peers", s), [item EXCEPT !.peers = read])
    BY <1>3, AttrTurns
  <1>7. Turns(open, done, item, Attr("grabs", s), [item EXCEPT !.grabs = read])
    BY <1>3, AttrTurns
  <1>8. Turns(open, done, item, Attr("category", s), [item EXCEPT !.categories = item.categories \o read])
    BY <1>3, AttrTurns
  <1>9. Turns(open, done, item, Attr("downloadvolumefactor", s), [item EXCEPT !.download_volume_factor = read])
    BY <1>3, AttrTurns
  <1>10. Turns(open, done, item, Attr("uploadvolumefactor", s), [item EXCEPT !.upload_volume_factor = read])
    BY <1>3, AttrTurns
  <1> QED BY <1>4, <1>5, <1>6, <1>7, <1>8, <1>9, <1>10 DEF s, read

LEMMA SpelledTurns ==
    ASSUME NEW open, NEW done, NEW item, NEW s
    PROVE  /\ Turns(open, done, item, Attr("infohash", s), [item EXCEPT !.info_hash = <<s>>])
           /\ Turns(open, done, item, Attr("magneturl", s), [item EXCEPT !.magnet_url = <<s>>])
  <1>1. /\ ApplyTorznabAttr(item, "infohash", s) = [item EXCEPT !.info_hash = <<s>>]
        /\ ApplyTorznabAttr(item, "magneturl", s) = [item EXCEPT !.magnet_url = <<s>>]
    BY AttrIs
  <1>2. Turns(open, done, item, Attr("infohash", s), [item EXCEPT !.info_hash = <<s>>])
    BY <1>1, AttrTurns
  <1>3. Turns(open, done, item, Attr("magneturl", s), [item EXCEPT !.magnet_url = <<s>>])
    BY <1>1, AttrTurns
  <1> QED BY <1>2, <1>3

-----------------------------------------------------------------------------
(***************************************************************************)
(* The releases of a feed: texts over any alphabet, counts up to MaxCount. *)
(***************************************************************************)
ReleasesOf(Alphabet) ==
    [title : Seq(Alphabet), size : OptionOf(0..MaxCount), seeders : OptionOf(0..MaxCount),
     leechers : OptionOf(0..MaxCount), grabs : OptionOf(0..MaxCount), details_url : OptionOf(Seq(Alphabet)),
     download_url : OptionOf(Seq(Alphabet)), magnet_url : OptionOf(Seq(Alphabet)),
     info_hash : OptionOf(Seq(Alphabet)), publish_date : OptionOf({<<d>> : d \in Dates}),
     categories : Seq(0..MaxCount), download_volume_factor : 0..MaxCount, upload_volume_factor : 0..MaxCount]

\* A release the feed can carry.
IsRelease(r) == \E Alphabet : r \in ReleasesOf(Alphabet) /\ Renderable(r)

LEMMA NoneIs == \A V, x : x \in OptionOf(V) => x = None \/ (x # None /\ x[1] \in V /\ x = <<x[1]>>)
  BY DEF OptionOf, None

LEMMA TextsArePlain ==
    ASSUME NEW r, IsRelease(r)
    PROVE  /\ Plain(r.details_url) /\ Plain(r.download_url) /\ Plain(r.magnet_url) /\ Plain(r.publish_date)
           /\ Plain(OrElse(r.download_url, r.magnet_url))
           /\ IsList(r.title) /\ Trim(r.title) = r.title
           /\ r.info_hash = None \/ (r.info_hash # None /\ r.info_hash = <<r.info_hash[1]>>)
  <1>1. PICK Alphabet : r \in ReleasesOf(Alphabet) /\ Renderable(r)
    BY DEF IsRelease
  <1>2. /\ r.details_url \in OptionOf(Seq(Alphabet)) /\ r.download_url \in OptionOf(Seq(Alphabet))
        /\ r.magnet_url \in OptionOf(Seq(Alphabet)) /\ r.info_hash \in OptionOf(Seq(Alphabet))
        /\ r.publish_date \in OptionOf({<<d>> : d \in Dates}) /\ r.title \in Seq(Alphabet)
    BY <1>1 DEF ReleasesOf
  <1>3. ASSUME NEW v \in OptionOf(Seq(Alphabet)), v # None => v[1] # <<>> /\ Trim(v[1]) = v[1] PROVE Plain(v)
    <2>1. v # None => v[1] \in Seq(Alphabet) /\ v = <<v[1]>>
      BY NoneIs
    <2>2. v # None => IsList(v[1])
      BY <2>1, ListIs
    <2> QED BY <1>3, <2>1, <2>2 DEF Plain
  <1>4. /\ r.details_url # None => r.details_url[1] # <<>> /\ Trim(r.details_url[1]) = r.details_url[1]
        /\ r.download_url # None => r.download_url[1] # <<>> /\ Trim(r.download_url[1]) = r.download_url[1]
        /\ r.magnet_url # None => r.magnet_url[1] # <<>> /\ Trim(r.magnet_url[1]) = r.magnet_url[1]
        /\ r.publish_date # None => r.publish_date[1] # <<>> /\ Trim(r.publish_date[1]) = r.publish_date[1]
        /\ Trim(r.title) = r.title
    BY <1>1 DEF Renderable
  <1>5. Plain(r.details_url) /\ Plain(r.download_url) /\ Plain(r.magnet_url)
    BY <1>2, <1>3, <1>4
  <1>6. Plain(r.publish_date)
    <2>1. r.publish_date # None => r.publish_date[1] \in {<<d>> : d \in Dates} /\ r.publish_date = <<r.publish_date[1]>>
      BY <1>2, NoneIs
    <2>2. r.publish_date # None => IsList(r.publish_date[1])
      BY <2>1, ListOfOne
    <2> QED BY <1>4, <2>1, <2>2 DEF Plain
  <1>7. Plain(OrElse(r.download_url, r.magnet_url))
    BY <1>5 DEF OrElse
  <1>8. IsList(r.title)
    BY <1>2, ListIs
  <1>9. r.info_hash = None \/ (r.info_hash # None /\ r.info_hash = <<r.info_hash[1]>>)
    BY <1>2, NoneIs
  <1> QED BY <1>4, <1>5, <1>6, <1>7, <1>8, <1>9

LEMMA CountsAre ==
    ASSUME MaxCount \in Nat, NEW r, IsRelease(r)
    PROVE  /\ \A v \in {r.size, r.seeders, r.leechers, r.grabs} :
                 v = None \/ (v # None /\ v[1] \in 0..MaxCount /\ v = <<v[1]>>)
           /\ r.leechers # None => r.seeders # None /\ r.seeders[1] + r.leechers[1] <= MaxCount
           /\ r.categories \in Seq(0..MaxCount)
           /\ r.download_volume_factor \in 0..MaxCount /\ r.upload_volume_factor \in 0..MaxCount
  <1>1. PICK Alphabet : r \in ReleasesOf(Alphabet) /\ Renderable(r)
    BY DEF IsRelease
  <1>2. /\ r.size \in OptionOf(0..MaxCount) /\ r.seeders \in OptionOf(0..MaxCount)
        /\ r.leechers \in OptionOf(0..MaxCount) /\ r.grabs \in OptionOf(0..MaxCount)
        /\ r.categories \in Seq(0..MaxCount)
        /\ r.download_volume_factor \in 0..MaxCount /\ r.upload_volume_factor \in 0..MaxCount
    BY <1>1 DEF ReleasesOf
  <1>3. \A v \in {r.size, r.seeders, r.leechers, r.grabs} :
           v = None \/ (v # None /\ v[1] \in 0..MaxCount /\ v = <<v[1]>>)
    BY <1>2, NoneIs
  <1>4. r.leechers # None => r.seeders # None /\ r.seeders[1] + r.leechers[1] <= MaxCount
    BY <1>1 DEF Renderable
  <1> QED BY <1>2, <1>3, <1>4
\* The children of an item one by one; what each finds of an item it leaves
\* as it is but for its own field.
LEMMA CommentsTurn ==
    ASSUME NEW open, IsList(open), NEW done, NEW value, Plain(value),
           NEW a, NEW b, NEW d, NEW e, NEW f, NEW g, NEW h, NEW i,
           NEW j, NEW k, NEW l, NEW m, NEW n, NEW o, NEW p
    PROVE  Turns(open, done, Item(a, b, None, d, e, f, g, h, i, j, k, l, m, n, o, p), ElementOpt("comments", value),
                 Item(a, b, value, d, e, f, g, h, i, j, k, l, m, n, o, p))
  <1> DEFINE before == Item(a, b, None, d, e, f, g, h, i, j, k, l, m, n, o, p)
             after == Item(a, b, value, d, e, f, g, h, i, j, k, l, m, n, o, p)
             events == ElementOpt("comments", value)
  <1>1. [before EXCEPT !.comments = value] = after
    BY DEF Item
  <1>2. value = None => after = before
    OBVIOUS
  <1> HIDE DEF before, after
  <1>3. CASE value = None
    <2>1. events = <<>>
      BY <1>3 DEF ElementOpt
    <2>2. Turns(open, done, before, <<>>, before)
      BY TurnsNot
    <2> QED BY <1>2, <1>3, <2>1, <2>2, Zenon DEF before, after
  <1>4. CASE value # None
    <2>1. events = Element("comments", value[1])
      BY <1>4 DEF ElementOpt
    <2>2. Turns(open, done, before, Element("comments", value[1]), [before EXCEPT !.comments = value])
      BY <1>4, TextTurns
    <2> QED BY <1>1, <2>1, <2>2, Zenon DEF before, after
  <1> QED BY <1>3, <1>4, Zenon DEF before, after, events

LEMMA LinkTurns ==
    ASSUME NEW open, IsList(open), NEW done, NEW value, Plain(value),
           NEW a, NEW b, NEW c, NEW e, NEW f, NEW g, NEW h, NEW i,
           NEW j, NEW k, NEW l, NEW m, NEW n, NEW o, NEW p
    PROVE  Turns(open, done, Item(a, b, c, None, e, f, g, h, i, j, k, l, m, n, o, p), ElementOpt("link", value),
                 Item(a, b, c, value, e, f, g, h, i, j, k, l, m, n, o, p))
  <1> DEFINE before == Item(a, b, c, None, e, f, g, h, i, j, k, l, m, n, o, p)
             after == Item(a, b, c, value, e, f, g, h, i, j, k, l, m, n, o, p)
             events == ElementOpt("link", value)
  <1>1. [before EXCEPT !.link = value] = after
    BY DEF Item
  <1>2. value = None => after = before
    OBVIOUS
  <1> HIDE DEF before, after
  <1>3. CASE value = None
    <2>1. events = <<>>
      BY <1>3 DEF ElementOpt
    <2>2. Turns(open, done, before, <<>>, before)
      BY TurnsNot
    <2> QED BY <1>2, <1>3, <2>1, <2>2, Zenon DEF before, after
  <1>4. CASE value # None
    <2>1. events = Element("link", value[1])
      BY <1>4 DEF ElementOpt
    <2>2. Turns(open, done, before, Element("link", value[1]), [before EXCEPT !.link = value])
      BY <1>4, TextTurns
    <2> QED BY <1>1, <2>1, <2>2, Zenon DEF before, after
  <1> QED BY <1>3, <1>4, Zenon DEF before, after, events

LEMMA PubDateTurns ==
    ASSUME NEW open, IsList(open), NEW done, NEW value, Plain(value),
           NEW a, NEW b, NEW c, NEW d, NEW f, NEW g, NEW h, NEW i,
           NEW j, NEW k, NEW l, NEW m, NEW n, NEW o, NEW p
    PROVE  Turns(open, done, Item(a, b, c, d, None, f, g, h, i, j, k, l, m, n, o, p), ElementOpt("pubDate", value),
                 Item(a, b, c, d, value, f, g, h, i, j, k, l, m, n, o, p))
  <1> DEFINE before == Item(a, b, c, d, None, f, g, h, i, j, k, l, m, n, o, p)
             after == Item(a, b, c, d, value, f, g, h, i, j, k, l, m, n, o, p)
             events == ElementOpt("pubDate", value)
  <1>1. [before EXCEPT !.pub_date = value] = after
    BY DEF Item
  <1>2. value = None => after = before
    OBVIOUS
  <1> HIDE DEF before, after
  <1>3. CASE value = None
    <2>1. events = <<>>
      BY <1>3 DEF ElementOpt
    <2>2. Turns(open, done, before, <<>>, before)
      BY TurnsNot
    <2> QED BY <1>2, <1>3, <2>1, <2>2, Zenon DEF before, after
  <1>4. CASE value # None
    <2>1. events = Element("pubDate", value[1])
      BY <1>4 DEF ElementOpt
    <2>2. Turns(open, done, before, Element("pubDate", value[1]), [before EXCEPT !.pub_date = value])
      BY <1>4, TextTurns
    <2> QED BY <1>1, <2>1, <2>2, Zenon DEF before, after
  <1> QED BY <1>3, <1>4, Zenon DEF before, after, events

LEMMA SeedersTurn ==
    ASSUME MaxCount \in Nat, NEW open, IsList(open), NEW done, NEW value, 
           value = None \/ (value # None /\ value[1] \in 0..MaxCount /\ value = <<value[1]>>),
           NEW a, NEW b, NEW c, NEW d, NEW e, NEW f, NEW g, NEW h,
           NEW j, NEW k, NEW l, NEW m, NEW n, NEW o, NEW p
    PROVE  Turns(open, done, Item(a, b, c, d, e, f, g, h, None, j, k, l, m, n, o, p), CountOpt("seeders", value),
                 Item(a, b, c, d, e, f, g, h, value, j, k, l, m, n, o, p))
  <1> DEFINE before == Item(a, b, c, d, e, f, g, h, None, j, k, l, m, n, o, p)
             after == Item(a, b, c, d, e, f, g, h, value, j, k, l, m, n, o, p)
             events == CountOpt("seeders", value)
  <1>1. [before EXCEPT !.seeders = value] = after
    BY DEF Item
  <1>2. value = None => after = before
    OBVIOUS
  <1> HIDE DEF before, after
  <1>3. CASE value = None
    <2>1. events = <<>>
      BY <1>3 DEF CountOpt
    <2>2. Turns(open, done, before, <<>>, before)
      BY TurnsNot
    <2> QED BY <1>2, <1>3, <2>1, <2>2, Zenon DEF before, after
  <1>4. CASE value # None
    <2>1. events = Attr("seeders", Decimal(value[1]))
      BY <1>4 DEF CountOpt
    <2>2. Turns(open, done, before, Attr("seeders", Decimal(value[1])), [before EXCEPT !.seeders = value])
      <3> DEFINE count == value[1]
      <3>1. count \in 0..MaxCount /\ value = <<count>>
        BY <1>4
      <3> HIDE DEF count
      <3>2. Turns(open, done, before, Attr("seeders", Decimal(count)), [before EXCEPT !.seeders = <<count>>])
        BY <3>1, NumberTurns
      <3> QED BY <3>1, <3>2 DEF count
    <2> QED BY <1>1, <2>1, <2>2, Zenon DEF before, after
  <1> QED BY <1>3, <1>4, Zenon DEF before, after, events

LEMMA GrabsTurn ==
    ASSUME MaxCount \in Nat, NEW open, IsList(open), NEW done, NEW value, 
           value = None \/ (value # None /\ value[1] \in 0..MaxCount /\ value = <<value[1]>>),
           NEW a, NEW b, NEW c, NEW d, NEW e, NEW f, NEW g, NEW h,
           NEW i, NEW j, NEW l, NEW m, NEW n, NEW o, NEW p
    PROVE  Turns(open, done, Item(a, b, c, d, e, f, g, h, i, j, None, l, m, n, o, p), CountOpt("grabs", value),
                 Item(a, b, c, d, e, f, g, h, i, j, value, l, m, n, o, p))
  <1> DEFINE before == Item(a, b, c, d, e, f, g, h, i, j, None, l, m, n, o, p)
             after == Item(a, b, c, d, e, f, g, h, i, j, value, l, m, n, o, p)
             events == CountOpt("grabs", value)
  <1>1. [before EXCEPT !.grabs = value] = after
    BY DEF Item
  <1>2. value = None => after = before
    OBVIOUS
  <1> HIDE DEF before, after
  <1>3. CASE value = None
    <2>1. events = <<>>
      BY <1>3 DEF CountOpt
    <2>2. Turns(open, done, before, <<>>, before)
      BY TurnsNot
    <2> QED BY <1>2, <1>3, <2>1, <2>2, Zenon DEF before, after
  <1>4. CASE value # None
    <2>1. events = Attr("grabs", Decimal(value[1]))
      BY <1>4 DEF CountOpt
    <2>2. Turns(open, done, before, Attr("grabs", Decimal(value[1])), [before EXCEPT !.grabs = value])
      <3> DEFINE count == value[1]
      <3>1. count \in 0..MaxCount /\ value = <<count>>
        BY <1>4
      <3> HIDE DEF count
      <3>2. Turns(open, done, before, Attr("grabs", Decimal(count)), [before EXCEPT !.grabs = <<count>>])
        BY <3>1, NumberTurns
      <3> QED BY <3>1, <3>2 DEF count
    <2> QED BY <1>1, <2>1, <2>2, Zenon DEF before, after
  <1> QED BY <1>3, <1>4, Zenon DEF before, after, events

LEMMA SizeTurns ==
    ASSUME MaxCount \in Nat, NEW open, IsList(open), NEW done, NEW value, 
           value = None \/ (value # None /\ value[1] \in 0..MaxCount /\ value = <<value[1]>>),
           NEW a, NEW b, NEW c, NEW d, NEW e, NEW f, NEW g, NEW i,
           NEW j, NEW k, NEW l, NEW m, NEW n, NEW o, NEW p
    PROVE  Turns(open, done, Item(a, b, c, d, e, f, g, None, i, j, k, l, m, n, o, p), IF value = None THEN <<>> ELSE Element("size", Decimal(value[1])),
                 Item(a, b, c, d, e, f, g, value, i, j, k, l, m, n, o, p))
  <1> DEFINE before == Item(a, b, c, d, e, f, g, None, i, j, k, l, m, n, o, p)
             after == Item(a, b, c, d, e, f, g, value, i, j, k, l, m, n, o, p)
             events == IF value = None THEN <<>> ELSE Element("size", Decimal(value[1]))
  <1>1. [before EXCEPT !.size_override = value] = after
    BY DEF Item
  <1>2. value = None => after = before
    OBVIOUS
  <1> HIDE DEF before, after
  <1>3. CASE value = None
    <2>1. events = <<>>
      BY <1>3 DEF None
    <2>2. Turns(open, done, before, <<>>, before)
      BY TurnsNot
    <2> QED BY <1>2, <1>3, <2>1, <2>2, Zenon DEF before, after
  <1>4. CASE value # None
    <2>1. events = Element("size", Decimal(value[1]))
      BY <1>4 DEF None
    <2>2. Turns(open, done, before, Element("size", Decimal(value[1])), [before EXCEPT !.size_override = value])
      <3> DEFINE count == value[1]
      <3>1. count \in 0..MaxCount /\ value = <<count>>
        BY <1>4
      <3> HIDE DEF count
      <3>2. Turns(open, done, before, Element("size", Decimal(count)), [before EXCEPT !.size_override = <<count>>])
        BY <3>1, NumberTurns
      <3> QED BY <3>1, <3>2 DEF count
    <2> QED BY <1>1, <2>1, <2>2, Zenon DEF before, after
  <1> QED BY <1>3, <1>4, Zenon DEF before, after, events

LEMMA InfoHashTurns ==
    ASSUME NEW open, IsList(open), NEW done, NEW value, 
           value = None \/ (value # None /\ value = <<value[1]>>),
           NEW a, NEW b, NEW c, NEW d, NEW e, NEW f, NEW g, NEW h,
           NEW i, NEW j, NEW k, NEW m, NEW n, NEW o, NEW p
    PROVE  Turns(open, done, Item(a, b, c, d, e, f, g, h, i, j, k, None, m, n, o, p), AttrOpt("infohash", value),
                 Item(a, b, c, d, e, f, g, h, i, j, k, value, m, n, o, p))
  <1> DEFINE before == Item(a, b, c, d, e, f, g, h, i, j, k, None, m, n, o, p)
             after == Item(a, b, c, d, e, f, g, h, i, j, k, value, m, n, o, p)
             events == AttrOpt("infohash", value)
  <1>1. [before EXCEPT !.info_hash = value] = after
    BY DEF Item
  <1>2. value = None => after = before
    OBVIOUS
  <1> HIDE DEF before, after
  <1>3. CASE value = None
    <2>1. events = <<>>
      BY <1>3 DEF AttrOpt
    <2>2. Turns(open, done, before, <<>>, before)
      BY TurnsNot
    <2> QED BY <1>2, <1>3, <2>1, <2>2, Zenon DEF before, after
  <1>4. CASE value # None
    <2>1. events = Attr("infohash", value[1])
      BY <1>4 DEF AttrOpt
    <2>2. Turns(open, done, before, Attr("infohash", value[1]), [before EXCEPT !.info_hash = value])
      <3> DEFINE text == value[1]
      <3>1. value = <<text>>
        BY <1>4
      <3> HIDE DEF text
      <3>2. Turns(open, done, before, Attr("infohash", text), [before EXCEPT !.info_hash = <<text>>])
        BY SpelledTurns
      <3> QED BY <3>1, <3>2 DEF text
    <2> QED BY <1>1, <2>1, <2>2, Zenon DEF before, after
  <1> QED BY <1>3, <1>4, Zenon DEF before, after, events

LEMMA MagnetTurns ==
    ASSUME NEW open, IsList(open), NEW done, NEW value, 
           value = None \/ (value # None /\ value = <<value[1]>>),
           NEW a, NEW b, NEW c, NEW d, NEW e, NEW f, NEW g, NEW h,
           NEW i, NEW j, NEW k, NEW l, NEW n, NEW o, NEW p
    PROVE  Turns(open, done, Item(a, b, c, d, e, f, g, h, i, j, k, l, None, n, o, p), AttrOpt("magneturl", value),
                 Item(a, b, c, d, e, f, g, h, i, j, k, l, value, n, o, p))
  <1> DEFINE before == Item(a, b, c, d, e, f, g, h, i, j, k, l, None, n, o, p)
             after == Item(a, b, c, d, e, f, g, h, i, j, k, l, value, n, o, p)
             events == AttrOpt("magneturl", value)
  <1>1. [before EXCEPT !.magnet_url = value] = after
    BY DEF Item
  <1>2. value = None => after = before
    OBVIOUS
  <1> HIDE DEF before, after
  <1>3. CASE value = None
    <2>1. events = <<>>
      BY <1>3 DEF AttrOpt
    <2>2. Turns(open, done, before, <<>>, before)
      BY TurnsNot
    <2> QED BY <1>2, <1>3, <2>1, <2>2, Zenon DEF before, after
  <1>4. CASE value # None
    <2>1. events = Attr("magneturl", value[1])
      BY <1>4 DEF AttrOpt
    <2>2. Turns(open, done, before, Attr("magneturl", value[1]), [before EXCEPT !.magnet_url = value])
      <3> DEFINE text == value[1]
      <3>1. value = <<text>>
        BY <1>4
      <3> HIDE DEF text
      <3>2. Turns(open, done, before, Attr("magneturl", text), [before EXCEPT !.magnet_url = <<text>>])
        BY SpelledTurns
      <3> QED BY <3>1, <3>2 DEF text
    <2> QED BY <1>1, <2>1, <2>2, Zenon DEF before, after
  <1> QED BY <1>3, <1>4, Zenon DEF before, after, events
LEMMA TitleTurns ==
    ASSUME NEW open, IsList(open), NEW done, NEW s, IsList(s), Trim(s) = s,
           NEW a, NEW b, NEW c, NEW d, NEW e, NEW f, NEW g, NEW h,
           NEW i, NEW j, NEW k, NEW l, NEW m, NEW n, NEW o, NEW p
    PROVE  Turns(open, done, Item(a, b, c, d, e, f, g, h, i, j, k, l, m, n, o, p), Element("title", s),
                 Item(s, b, c, d, e, f, g, h, i, j, k, l, m, n, o, p))
  <1> DEFINE before == Item(a, b, c, d, e, f, g, h, i, j, k, l, m, n, o, p)
             after == Item(s, b, c, d, e, f, g, h, i, j, k, l, m, n, o, p)
  <1>1. [before EXCEPT !.title = s] = after
    BY DEF Item
  <1> HIDE DEF before, after
  <1>2. CommitField(before, "title", s) = [before EXCEPT !.title = s]
    BY CommitIs
  <1>3. CommitField(before, TextFields["title"], s) = after /\ "title" \in DOMAIN TextFields
    BY <1>1, <1>2, FieldNames
  <1>4. Turns(open, done, before, Element("title", s), after)
    BY <1>3, FieldTurns
  <1> QED BY <1>4 DEF before, after

\* The guid of a release: its details page, or an opaque name.
GuidText(r) == IF r.details_url = None THEN Urn \o r.title ELSE r.details_url[1]
GuidOf(r) == <<Trim(GuidText(r))>>

LEMMA UrnKeepsStart ==
    ASSUME NEW s, IsList(s)
    PROVE  LET t == Trim(Urn \o s) IN t # <<>> /\ t[1] = "urn:release:" /\ IsList(Urn \o s)
  <1> DEFINE u == Urn \o s
  <1>1. IsList(Urn) /\ Len(Urn) = 1 /\ Urn[1] = "urn:release:" /\ 1 \in 1..Len(Urn)
    BY ListOfOne DEF Urn
  <1>2. IsList(u) /\ Len(u) = Len(Urn) + Len(s) /\ u[1] = Urn[1]
    BY <1>1, ListsJoin
  <1>3. Len(s) \in Nat
    BY ListIs
  <1> HIDE DEF u
  <1>4. Len(u) > 0 /\ u[1] \notin Blanks
    BY <1>1, <1>2, <1>3 DEF Blanks
  <1>5. Trim(u) # <<>> /\ Trim(u)[1] = u[1]
    BY <1>2, <1>4, TrimKeepsStart
  <1> QED BY <1>1, <1>2, <1>5 DEF u

LEMMA GuidIs ==
    ASSUME NEW r, IsRelease(r)
    PROVE  /\ IsList(GuidText(r)) /\ Trim(GuidText(r)) # <<>> /\ GuidOf(r) # None
           /\ r.details_url # None => GuidOf(r) = r.details_url
           /\ r.details_url = None => ~IsWebUrl(GuidOf(r)[1])
  <1>1. Plain(r.details_url) /\ IsList(r.title)
    BY TextsArePlain
  <1>2. GuidOf(r) # None /\ GuidOf(r)[1] = Trim(GuidText(r))
    BY OneThere DEF GuidOf
  <1>3. CASE r.details_url = None
    <2> DEFINE t == Trim(Urn \o r.title)
    <2>1. t # <<>> /\ t[1] = "urn:release:" /\ IsList(Urn \o r.title)
      BY <1>1, UrnKeepsStart
    <2>2. GuidText(r) = Urn \o r.title
      BY <1>3 DEF GuidText
    <2>3. ~IsWebUrl(t)
      BY <2>1 DEF IsWebUrl
    <2> QED BY <1>2, <1>3, <2>1, <2>2, <2>3, Zenon
  <1>4. CASE r.details_url # None
    <2> DEFINE url == r.details_url
    <2>1. url = <<url[1]>> /\ IsList(url[1]) /\ url[1] # <<>> /\ Trim(url[1]) = url[1]
      BY <1>1, <1>4, PlainIs
    <2>2. GuidText(r) = url[1]
      BY <1>4 DEF GuidText
    <2> QED BY <1>2, <1>4, <2>1, <2>2, Zenon DEF GuidOf
  <1> QED BY <1>3, <1>4

LEMMA GuidTurns ==
    ASSUME NEW open, IsList(open), NEW done, NEW r, IsRelease(r),
           NEW a, NEW b, NEW c, NEW d, NEW e, NEW f, NEW g, NEW h,
           NEW i, NEW j, NEW k, NEW l, NEW m, NEW n, NEW o, NEW p
    PROVE  Turns(open, done, Item(a, b, c, d, e, f, g, h, i, j, k, l, m, n, o, p), Element("guid", GuidText(r)),
                 Item(a, GuidOf(r), c, d, e, f, g, h, i, j, k, l, m, n, o, p))
  <1> DEFINE before == Item(a, b, c, d, e, f, g, h, i, j, k, l, m, n, o, p)
             guid == GuidOf(r)
             after == Item(a, guid, c, d, e, f, g, h, i, j, k, l, m, n, o, p)
             raw == GuidText(r)
             value == Trim(raw)
  <1>1. guid = <<value>> /\ IsList(raw) /\ value # <<>>
    BY GuidIs DEF GuidOf
  <1> HIDE DEF guid, raw
  <1>2. [before EXCEPT !.guid = guid] = after
    BY DEF Item
  <1> HIDE DEF before, after
  <1>3. CommitField(before, "guid", raw) = [before EXCEPT !.guid = <<value>>]
    BY <1>1, CommitIs
  <1>4. CommitField(before, TextFields["guid"], raw) = after /\ "guid" \in DOMAIN TextFields
    BY <1>1, <1>2, <1>3, FieldNames
  <1>5. Turns(open, done, before, Element("guid", raw), after)
    BY <1>1, <1>4, FieldTurns
  <1> QED BY <1>5 DEF before, after, guid, raw

\* The enclosure gives a release's download and, with it, its size.
LEMMA EnclosureFills ==
    ASSUME MaxCount \in Nat, NEW open, NEW done, NEW r, IsRelease(r),
           NEW a, NEW b, NEW c, NEW d, NEW e, NEW h, NEW i, NEW j,
           NEW k, NEW l, NEW m, NEW n, NEW o, NEW p
    PROVE  Turns(open, done, Item(a, b, c, d, e, None, None, h, i, j, k, l, m, n, o, p), Enclosure(r),
                 Item(a, b, c, d, e, r.download_url, (IF r.download_url = None THEN None ELSE r.size), h, i, j, k, l, m, n, o, p))
  <1> DEFINE before == Item(a, b, c, d, e, None, None, h, i, j, k, l, m, n, o, p)
             url == r.download_url
             size == r.size
             read == IF url = None THEN None ELSE size
             after == Item(a, b, c, d, e, url, read, h, i, j, k, l, m, n, o, p)
  <1>1. Plain(url) /\ (size = None \/ (size # None /\ size[1] \in 0..MaxCount /\ size = <<size[1]>>))
    BY TextsArePlain, CountsAre
  <1>2. url = None => after = before
    OBVIOUS
  <1>3. [[before EXCEPT !.enclosure_url = url] EXCEPT !.enclosure_length = size]
           = Item(a, b, c, d, e, url, size, h, i, j, k, l, m, n, o, p)
    <2> DEFINE half == Item(a, b, c, d, e, url, None, h, i, j, k, l, m, n, o, p)
    <2> HIDE DEF url, size
    <2>1. [before EXCEPT !.enclosure_url = url] = half
      BY DEF Item
    <2>2. [half EXCEPT !.enclosure_length = size] = Item(a, b, c, d, e, url, size, h, i, j, k, l, m, n, o, p)
      BY DEF Item
    <2> HIDE DEF before, half
    <2> QED BY <2>1, <2>2, Zenon
  <1>4. url # None => [[before EXCEPT !.enclosure_url = url] EXCEPT !.enclosure_length = size] = after
    BY <1>3
  <1> HIDE DEF before, after, url, size
  <1>5. CASE url = None
    <2>1. Enclosure(r) = <<>>
      BY <1>5 DEF Enclosure, url
    <2>2. Turns(open, done, before, <<>>, before)
      BY TurnsNot
    <2> QED BY <1>2, <1>5, <2>1, <2>2, Zenon DEF before, after, url, size
  <1>6. CASE url # None
    <2>1. url = <<url[1]>>
      BY <1>1, <1>6, PlainIs
    <2> DEFINE link == url[1]
    <2>2. PICK attrs : /\ Enclosure(r) = <<Empty(<<"enclosure">>, attrs)>>
                       /\ ApplyEnclosure(before, attrs)
                            = [before EXCEPT !.enclosure_url = url, !.enclosure_length = size]
      <3>1. CASE size = None
        <4> DEFINE attrs == [url |-> link]
        <4>1. Enclosure(r) = <<Empty(<<"enclosure">>, attrs)>>
          BY <1>6, <3>1, Zenon DEF Enclosure, url, size
        <4> HIDE DEF link
        <4>2. DOMAIN attrs = {"url"} /\ attrs["url"] = link
          OBVIOUS
        <4>3. "url" \in DOMAIN attrs /\ "length" \notin DOMAIN attrs
          BY <4>2
        <4> HIDE DEF attrs
        <4>4. ApplyEnclosure(before, attrs) = [before EXCEPT !.enclosure_url = <<link>>, !.enclosure_length = None]
          BY <4>2, <4>3, Zenon DEF ApplyEnclosure
        <4> QED BY <2>1, <3>1, <4>1, <4>4, Zenon DEF link
      <3>2. CASE size # None
        <4> DEFINE count == size[1]
                   text == Decimal(count)
                   attrs == [url |-> link, length |-> text]
        <4>1. Enclosure(r) = <<Empty(<<"enclosure">>, attrs)>>
          BY <1>6, <3>2, Zenon DEF Enclosure, url, size
        <4>2. Parsed(text) = <<count>> /\ size = <<count>>
          BY <1>1, <3>2, DecimalReads
        <4> HIDE DEF link, text
        <4>3. DOMAIN attrs = {"url", "length"} /\ attrs["url"] = link /\ attrs["length"] = text
          OBVIOUS
        <4>4. "url" \in DOMAIN attrs /\ "length" \in DOMAIN attrs
          BY <4>3
        <4> HIDE DEF attrs
        <4>5. <<text>> # None
          BY OneThere
        <4>6. ApplyEnclosure(before, attrs)
                = [before EXCEPT !.enclosure_url = <<link>>, !.enclosure_length = Parsed(text)]
          BY <4>3, <4>4, <4>5, Zenon DEF ApplyEnclosure
        <4> QED BY <2>1, <4>1, <4>2, <4>6, Zenon DEF link
      <3> QED BY <3>1, <3>2
    <2>3. [before EXCEPT !.enclosure_url = url, !.enclosure_length = size] = after
      BY <1>4, <1>6
    <2>4. ApplyEnclosure(before, attrs) = after
      BY <2>2, <2>3
    <2>5. Turns(open, done, before, <<Empty(<<"enclosure">>, attrs)>>, after)
      BY <2>4, EnclosureTurns
    <2> QED BY <2>2, <2>5, Zenon DEF before, after, url, size
  <1> QED BY <1>5, <1>6

\* Seeders and leechers, added up.
PeersOf(r) == IF r.seeders = None \/ r.leechers = None THEN None ELSE <<r.seeders[1] + r.leechers[1]>>

LEMMA PeersTurn ==
    ASSUME MaxCount \in Nat, NEW open, IsList(open), NEW done, NEW r, IsRelease(r),
           NEW a, NEW b, NEW c, NEW d, NEW e, NEW f, NEW g, NEW h,
           NEW i, NEW k, NEW l, NEW m, NEW n, NEW o, NEW p
    PROVE  Turns(open, done, Item(a, b, c, d, e, f, g, h, i, None, k, l, m, n, o, p), Peers(r),
                 Item(a, b, c, d, e, f, g, h, i, PeersOf(r), k, l, m, n, o, p))
  <1> DEFINE before == Item(a, b, c, d, e, f, g, h, i, None, k, l, m, n, o, p)
             peers == PeersOf(r)
             after == Item(a, b, c, d, e, f, g, h, i, peers, k, l, m, n, o, p)
  <1> HIDE DEF peers
  <1>1. [before EXCEPT !.peers = peers] = after
    BY DEF Item
  <1>2. peers = None => after = before
    OBVIOUS
  <1> HIDE DEF before, after
  <1>3. CASE r.seeders = None \/ r.leechers = None
    <2>1. peers = None /\ Peers(r) = <<>>
      BY <1>3 DEF peers, PeersOf, Peers
    <2>2. Turns(open, done, before, <<>>, before)
      BY TurnsNot
    <2> QED BY <1>2, <2>1, <2>2, Zenon DEF before, after, peers
  <1>4. CASE ~(r.seeders = None \/ r.leechers = None)
    <2> DEFINE sum == r.seeders[1] + r.leechers[1]
    <2>1. /\ r.seeders[1] \in 0..MaxCount /\ r.leechers[1] \in 0..MaxCount
          /\ r.seeders[1] + r.leechers[1] <= MaxCount
      BY <1>4, CountsAre
    <2>2. sum \in 0..MaxCount /\ ~(sum > MaxCount)
      BY <2>1
    <2> HIDE DEF sum
    <2>3. peers = <<sum>>
      BY <1>4, Zenon DEF peers, PeersOf, sum
    <2>4. Peers(r) = Attr("peers", Decimal(sum))
      <3>1. Peers(r) = Attr("peers", Decimal(IF sum > MaxCount THEN MaxCount ELSE sum))
        BY <1>4, Zenon DEF Peers, sum
      <3> QED BY <2>2, <3>1
    <2>5. Turns(open, done, before, Attr("peers", Decimal(sum)), [before EXCEPT !.peers = <<sum>>])
      BY <2>2, NumberTurns
    <2> QED BY <1>1, <2>3, <2>4, <2>5, Zenon DEF before, after, peers
  <1> QED BY <1>3, <1>4
\* A release's categories, each in an element of its own.
CategoryParts(r) == [x \in DOMAIN r.categories |-> Attr("category", Decimal(r.categories[x]))]

LEMMA CategoriesTurn ==
    ASSUME MaxCount \in Nat, NEW open, IsList(open), NEW done, NEW r, IsRelease(r),
           NEW a, NEW b, NEW c, NEW d, NEW e, NEW f, NEW g, NEW h,
           NEW i, NEW j, NEW k, NEW l, NEW m, NEW o, NEW p
    PROVE  Turns(open, done, Item(a, b, c, d, e, f, g, h, i, j, k, l, m, <<>>, o, p), Glue(CategoryParts(r)),
                 Item(a, b, c, d, e, f, g, h, i, j, k, l, m, r.categories, o, p))
  <1> DEFINE cats == r.categories
             parts == CategoryParts(r)
             item(s) == Item(a, b, c, d, e, f, g, h, i, j, k, l, m, s, o, p)
             st == [x \in 0..Len(cats) |-> Between(open, <<item(SubSeq(cats, 1, x))>>, done)]
             T == {Attr("category", Decimal(cats[x])) : x \in DOMAIN cats}
  <1>1. cats \in Seq(0..MaxCount)
    BY CountsAre
  <1>2. IsList(cats) /\ Len(cats) \in Nat /\ DOMAIN cats = 1..Len(cats)
    BY <1>1, ListIs
  <1>3. parts \in [1..Len(cats) -> T] /\ \A x \in 1..Len(cats) : parts[x] = Attr("category", Decimal(cats[x]))
    BY <1>2 DEF CategoryParts
  <1>4. /\ SubSeq(cats, 1, 0) = <<>> /\ SubSeq(cats, 1, Len(cats)) = cats
        /\ \A x \in 1..Len(cats) : SubSeq(cats, 1, x) = SubSeq(cats, 1, x - 1) \o <<cats[x]>>
    <2> HIDE DEF cats
    <2> QED BY <1>2, PrefixesAre
  <1>5. \A x \in 1..Len(cats) : cats[x] \in 0..MaxCount
    BY <1>1
  <1> HIDE DEF cats, parts, T
  <1>6. parts \in Seq(T) /\ Len(parts) = Len(cats)
    BY <1>2, <1>3
  <1>7. IsList(parts)
    BY <1>6, ListIs
  <1>8. ASSUME NEW s, NEW count \in 0..MaxCount
        PROVE  Turns(open, done, item(s), Attr("category", Decimal(count)), item(s \o <<count>>))
    <2> DEFINE before == item(s)
               t == s \o <<count>>
    <2>1. before.categories = s
      BY DEF Item
    <2> HIDE DEF t
    <2>2. [before EXCEPT !.categories = t] = item(t)
      BY DEF Item
    <2> HIDE DEF before, item
    <2>3. Turns(open, done, before, Attr("category", Decimal(count)),
                [before EXCEPT !.categories = before.categories \o <<count>>])
      BY NumberTurns
    <2>4. before.categories \o <<count>> = t
      BY <2>1 DEF t
    <2> QED BY <2>2, <2>3, <2>4, Zenon DEF before, t
  <1> HIDE DEF item
  <1>9. \A x \in 0..Len(cats) : st[x] = Between(open, <<item(SubSeq(cats, 1, x))>>, done)
    OBVIOUS
  <1> HIDE DEF st
  <1>10. \A x \in 1..Len(parts) : IsList(parts[x]) /\ ReadAll(st[x - 1], parts[x]) = st[x]
    <2> TAKE x \in 1..Len(parts)
    <2>1. x \in 1..Len(cats) /\ x \in 0..Len(cats) /\ x - 1 \in 0..Len(cats)
      BY <1>2, <1>6
    <2> DEFINE front == SubSeq(cats, 1, x - 1)
               count == cats[x]
               event == Attr("category", Decimal(count))
    <2>2. count \in 0..MaxCount /\ parts[x] = event /\ SubSeq(cats, 1, x) = front \o <<count>>
      BY <1>3, <1>4, <1>5, <2>1
    <2> HIDE DEF front, count
    <2>3. Turns(open, done, item(front), event, item(front \o <<count>>))
      BY <1>8, <2>2, Zenon
    <2>4. st[x - 1] = Between(open, <<item(front)>>, done) /\ st[x] = Between(open, <<item(front \o <<count>>)>>, done)
      BY <1>9, <2>1, <2>2, Zenon DEF front
    <2> QED BY <2>2, <2>3, <2>4, Zenon DEF Turns
  <1>11. IsList(Glue(parts)) /\ ReadAll(st[0], Glue(parts)) = st[Len(parts)]
    BY <1>7, <1>10, ReadGlued
  <1>12. 0 \in 0..Len(cats) /\ Len(cats) \in 0..Len(cats)
    BY <1>2
  <1>13. st[0] = Between(open, <<item(<<>>)>>, done) /\ st[Len(parts)] = Between(open, <<item(cats)>>, done)
    BY <1>4, <1>6, <1>9, <1>12, Zenon
  <1> QED BY <1>11, <1>13, Zenon DEF Turns, item, cats, parts

LEMMA DownloadFactorTurns ==
    ASSUME MaxCount \in Nat, NEW open, IsList(open), NEW done, NEW count \in 0..MaxCount,
           NEW a, NEW b, NEW c, NEW d, NEW e, NEW f, NEW g, NEW h,
           NEW i, NEW j, NEW k, NEW l, NEW m, NEW n, NEW o, NEW p
    PROVE  Turns(open, done, Item(a, b, c, d, e, f, g, h, i, j, k, l, m, n, o, p), Attr("downloadvolumefactor", Decimal(count)),
                 Item(a, b, c, d, e, f, g, h, i, j, k, l, m, n, <<count>>, p))
  <1> DEFINE before == Item(a, b, c, d, e, f, g, h, i, j, k, l, m, n, o, p)
             value == <<count>>
             after == Item(a, b, c, d, e, f, g, h, i, j, k, l, m, n, value, p)
  <1> HIDE DEF value
  <1>1. [before EXCEPT !.download_volume_factor = value] = after
    BY DEF Item
  <1> HIDE DEF before, after
  <1>2. Turns(open, done, before, Attr("downloadvolumefactor", Decimal(count)), [before EXCEPT !.download_volume_factor = <<count>>])
    BY NumberTurns
  <1> QED BY <1>1, <1>2, Zenon DEF before, after, value

LEMMA UploadFactorTurns ==
    ASSUME MaxCount \in Nat, NEW open, IsList(open), NEW done, NEW count \in 0..MaxCount,
           NEW a, NEW b, NEW c, NEW d, NEW e, NEW f, NEW g, NEW h,
           NEW i, NEW j, NEW k, NEW l, NEW m, NEW n, NEW o, NEW p
    PROVE  Turns(open, done, Item(a, b, c, d, e, f, g, h, i, j, k, l, m, n, o, p), Attr("uploadvolumefactor", Decimal(count)),
                 Item(a, b, c, d, e, f, g, h, i, j, k, l, m, n, o, <<count>>))
  <1> DEFINE before == Item(a, b, c, d, e, f, g, h, i, j, k, l, m, n, o, p)
             value == <<count>>
             after == Item(a, b, c, d, e, f, g, h, i, j, k, l, m, n, o, value)
  <1> HIDE DEF value
  <1>1. [before EXCEPT !.upload_volume_factor = value] = after
    BY DEF Item
  <1> HIDE DEF before, after
  <1>2. Turns(open, done, before, Attr("uploadvolumefactor", Decimal(count)), [before EXCEPT !.upload_volume_factor = <<count>>])
    BY NumberTurns
  <1> QED BY <1>1, <1>2, Zenon DEF before, after, value
\* A release by its fields.
Rel(a, b, c, d, e, f, g, h, i, j, k, l, m) ==
    [title |-> a, size |-> b, seeders |-> c, leechers |-> d, grabs |-> e, details_url |-> f, download_url |-> g,
     magnet_url |-> h, info_hash |-> i, publish_date |-> j, categories |-> k, download_volume_factor |-> l,
     upload_volume_factor |-> m]

LEMMA RelIs ==
    ASSUME NEW r, IsRelease(r)
    PROVE  r = Rel(r.title, r.size, r.seeders, r.leechers, r.grabs, r.details_url, r.download_url, r.magnet_url,
                   r.info_hash, r.publish_date, r.categories, r.download_volume_factor, r.upload_volume_factor)
  <1>1. PICK Alphabet : r \in ReleasesOf(Alphabet)
    BY DEF IsRelease
  <1> QED BY <1>1 DEF ReleasesOf, Rel

\* What into_release fills, field by field.
LEMMA RelTakes ==
    ASSUME NEW a, NEW b, NEW c, NEW d, NEW e, NEW f, NEW g, NEW h, NEW i, NEW j, NEW k, NEW l, NEW m
    PROVE  [Release EXCEPT !.title = a, !.size = b, !.seeders = c, !.leechers = d, !.grabs = e,
                           !.details_url = f, !.download_url = g, !.magnet_url = h, !.info_hash = i,
                           !.publish_date = j, !.categories = k, !.download_volume_factor = l,
                           !.upload_volume_factor = m]
             = Rel(a, b, c, d, e, f, g, h, i, j, k, l, m)
  <1> DEFINE empty == <<>>
             one == 1
             x0 == Rel(empty, None, None, None, None, None, None, None, None, None, empty, one, one)
             x1 == Rel(a, None, None, None, None, None, None, None, None, None, empty, one, one)
             x2 == Rel(a, b, None, None, None, None, None, None, None, None, empty, one, one)
             x3 == Rel(a, b, c, None, None, None, None, None, None, None, empty, one, one)
             x4 == Rel(a, b, c, d, None, None, None, None, None, None, empty, one, one)
             x5 == Rel(a, b, c, d, e, None, None, None, None, None, empty, one, one)
             x6 == Rel(a, b, c, d, e, f, None, None, None, None, empty, one, one)
             x7 == Rel(a, b, c, d, e, f, g, None, None, None, empty, one, one)
             x8 == Rel(a, b, c, d, e, f, g, h, None, None, empty, one, one)
             x9 == Rel(a, b, c, d, e, f, g, h, i, None, empty, one, one)
             x10 == Rel(a, b, c, d, e, f, g, h, i, j, empty, one, one)
             x11 == Rel(a, b, c, d, e, f, g, h, i, j, k, one, one)
             x12 == Rel(a, b, c, d, e, f, g, h, i, j, k, l, one)
             x13 == Rel(a, b, c, d, e, f, g, h, i, j, k, l, m)
  <1>0. Release = x0
    BY Zenon DEF Release, Rel
  <1> HIDE DEF empty, one
  <1>1. [x0 EXCEPT !.title = a] = x1
    BY DEF Rel
  <1>2. [x1 EXCEPT !.size = b] = x2
    BY DEF Rel
  <1>3. [x2 EXCEPT !.seeders = c] = x3
    BY DEF Rel
  <1>4. [x3 EXCEPT !.leechers = d] = x4
    BY DEF Rel
  <1>5. [x4 EXCEPT !.grabs = e] = x5
    BY DEF Rel
  <1>6. [x5 EXCEPT !.details_url = f] = x6
    BY DEF Rel
  <1>7. [x6 EXCEPT !.download_url = g] = x7
    BY DEF Rel
  <1>8. [x7 EXCEPT !.magnet_url = h] = x8
    BY DEF Rel
  <1>9. [x8 EXCEPT !.info_hash = i] = x9
    BY DEF Rel
  <1>10. [x9 EXCEPT !.publish_date = j] = x10
    BY DEF Rel
  <1>11. [x10 EXCEPT !.categories = k] = x11
    BY DEF Rel
  <1>12. [x11 EXCEPT !.download_volume_factor = l] = x12
    BY DEF Rel
  <1>13. [x12 EXCEPT !.upload_volume_factor = m] = x13
    BY DEF Rel
  <1> HIDE DEF x0, x1, x2, x3, x4, x5, x6, x7, x8, x9, x10, x11, x12
  <1> QED BY <1>0, <1>1, <1>2, <1>3, <1>4, <1>5, <1>6, <1>7, <1>8, <1>9, <1>10, <1>11, <1>12, <1>13, Zenon

\* What is there of a release once its children are read.
Filled(r) ==
    Item(r.title, GuidOf(r), r.details_url, OrElse(r.download_url, r.magnet_url), r.publish_date, r.download_url,
         (IF r.download_url = None THEN None ELSE r.size), r.size, r.seeders, PeersOf(r), r.grabs, r.info_hash,
         r.magnet_url, r.categories, <<r.download_volume_factor>>, <<r.upload_volume_factor>>)

LEMMA FilledIs ==
    ASSUME NEW r
    PROVE  /\ Filled(r).title = r.title /\ Filled(r).guid = GuidOf(r) /\ Filled(r).comments = r.details_url
           /\ Filled(r).link = OrElse(r.download_url, r.magnet_url) /\ Filled(r).pub_date = r.publish_date
           /\ Filled(r).enclosure_url = r.download_url
           /\ Filled(r).enclosure_length = (IF r.download_url = None THEN None ELSE r.size)
           /\ Filled(r).size_override = r.size /\ Filled(r).seeders = r.seeders /\ Filled(r).peers = PeersOf(r)
           /\ Filled(r).grabs = r.grabs /\ Filled(r).info_hash = r.info_hash /\ Filled(r).magnet_url = r.magnet_url
           /\ Filled(r).categories = r.categories /\ Filled(r).download_volume_factor = <<r.download_volume_factor>>
           /\ Filled(r).upload_volume_factor = <<r.upload_volume_factor>>
  BY DEF Filled, Item

LEMMA IntoReleaseIs ==
    ASSUME MaxCount \in Nat, NEW r, IsRelease(r)
    PROVE  IntoRelease(Filled(r)) = r
  <1> DEFINE item == Filled(r)
             linkIsMagnet == item.link # None /\ IsMagnet(item.link[1])
             title == item.title
             size == OrElse(item.size_override, item.enclosure_length)
             seeders == item.seeders
             leechers == IF item.seeders = None \/ item.peers = None THEN None
                         ELSE <<IF item.peers[1] > item.seeders[1] THEN item.peers[1] - item.seeders[1] ELSE 0>>
             grabs == item.grabs
             details == OrElse(item.comments, IF item.guid # None /\ IsWebUrl(item.guid[1]) THEN item.guid ELSE None)
             download == OrElse(item.enclosure_url, IF linkIsMagnet THEN None ELSE item.link)
             magnet == OrElse(item.magnet_url, IF linkIsMagnet THEN item.link ELSE None)
             hash == item.info_hash
             date == IF item.pub_date # None /\ Len(item.pub_date[1]) = 1 /\ item.pub_date[1][1] \in Dates
                       THEN item.pub_date ELSE None
             categories == item.categories
             down == OrElse(item.download_volume_factor, <<1>>)[1]
             up == OrElse(item.upload_volume_factor, <<1>>)[1]
  <1>1. IntoRelease(item)
          = [Release EXCEPT !.title = title, !.size = size, !.seeders = seeders, !.leechers = leechers,
                            !.grabs = grabs, !.details_url = details, !.download_url = download,
                            !.magnet_url = magnet, !.info_hash = hash, !.publish_date = date,
                            !.categories = categories, !.download_volume_factor = down,
                            !.upload_volume_factor = up]
    BY Zenon DEF IntoRelease
  <1>2. IntoRelease(item) = Rel(title, size, seeders, leechers, grabs, details, download, magnet, hash, date,
                                categories, down, up)
    BY <1>1, RelTakes, Zenon
  <1>3. /\ item.title = r.title /\ item.guid = GuidOf(r) /\ item.comments = r.details_url
        /\ item.link = OrElse(r.download_url, r.magnet_url) /\ item.pub_date = r.publish_date
        /\ item.enclosure_url = r.download_url
        /\ item.enclosure_length = (IF r.download_url = None THEN None ELSE r.size)
        /\ item.size_override = r.size /\ item.seeders = r.seeders /\ item.peers = PeersOf(r)
        /\ item.grabs = r.grabs /\ item.info_hash = r.info_hash /\ item.magnet_url = r.magnet_url
        /\ item.categories = r.categories /\ item.download_volume_factor = <<r.download_volume_factor>>
        /\ item.upload_volume_factor = <<r.upload_volume_factor>>
    BY FilledIs
  <1> HIDE DEF item
  <1>4. /\ title = r.title /\ seeders = r.seeders /\ grabs = r.grabs /\ hash = r.info_hash
        /\ categories = r.categories
    BY <1>3
  <1>5. size = r.size
    BY <1>3 DEF OrElse
  <1>6. leechers = r.leechers
    <2>1. CASE r.leechers = None
      <3>1. PeersOf(r) = None
        BY <2>1 DEF PeersOf
      <3> QED BY <1>3, <2>1, <3>1
    <2>2. CASE r.leechers # None
      <3> DEFINE s == r.seeders[1]
                 n == r.leechers[1]
                 sum == s + n
      <3>1. r.seeders # None /\ s \in Nat /\ n \in Nat /\ r.leechers = <<n>>
        BY <2>2, CountsAre
      <3>2. PeersOf(r) = <<sum>>
        BY <2>2, <3>1, Zenon DEF PeersOf
      <3>3. PeersOf(r) # None /\ PeersOf(r)[1] = sum
        BY <3>2, OneThere
      <3>4. leechers = <<IF sum > s THEN sum - s ELSE 0>>
        <4> HIDE DEF sum
        <4> QED BY <1>3, <3>1, <3>3, Zenon
      <3>5. (IF sum > s THEN sum - s ELSE 0) = n
        <4> HIDE DEF s, n
        <4> QED BY <3>1
      <3> QED BY <3>1, <3>4, <3>5, Zenon
    <2> QED BY <2>1, <2>2
  <1>7. details = r.details_url
    <2>1. r.details_url = None => ~IsWebUrl(item.guid[1])
      BY <1>3, GuidIs
    <2> QED BY <1>3, <2>1, Zenon DEF OrElse
  <1>8. download = r.download_url /\ magnet = r.magnet_url
    <2>1. PICK Alphabet : r \in ReleasesOf(Alphabet) /\ Renderable(r)
      BY DEF IsRelease
    <2>2. /\ r.magnet_url # None => IsMagnet(r.magnet_url[1])
          /\ r.download_url # None /\ r.magnet_url = None => ~IsMagnet(r.download_url[1])
      BY <2>1, Zenon DEF Renderable
    <2>3. CASE r.download_url # None
      <3>1. item.link = r.download_url
        BY <1>3, <2>3 DEF OrElse
      <3> QED BY <1>3, <2>2, <2>3, <3>1, Zenon DEF OrElse
    <2>4. CASE r.download_url = None
      <3>1. item.link = r.magnet_url
        BY <1>3, <2>4 DEF OrElse
      <3> QED BY <1>3, <2>2, <2>4, <3>1, Zenon DEF OrElse
    <2> QED BY <2>3, <2>4
  <1>9. date = r.publish_date
    <2>1. PICK Alphabet : r \in ReleasesOf(Alphabet)
      BY DEF IsRelease
    <2>2. r.publish_date \in OptionOf({<<d>> : d \in Dates})
      BY <2>1 DEF ReleasesOf
    <2>3. r.publish_date # None => Len(r.publish_date[1]) = 1 /\ r.publish_date[1][1] \in Dates
      <3>1. r.publish_date # None => r.publish_date[1] \in {<<d>> : d \in Dates}
        BY <2>2, NoneIs
      <3> QED BY <3>1
    <2> QED BY <1>3, <2>3, Zenon
  <1>10. down = r.download_volume_factor /\ up = r.upload_volume_factor
    <2>1. \A n : OrElse(<<n>>, <<1>>)[1] = n
      BY OneThere DEF OrElse
    <2> QED BY <1>3, <2>1, Zenon
  <1> HIDE DEF title, size, seeders, leechers, grabs, details, download, magnet, hash, date, categories, down, up
  <1>11. r = Rel(r.title, r.size, r.seeders, r.leechers, r.grabs, r.details_url, r.download_url, r.magnet_url,
                 r.info_hash, r.publish_date, r.categories, r.download_volume_factor, r.upload_volume_factor)
    BY RelIs
  <1> QED BY <1>2, <1>4, <1>5, <1>6, <1>7, <1>8, <1>9, <1>10, <1>11, Zenon DEF item
\* An item's children, all of them, in the order they are written.
LEMMA ChildrenTurn ==
    ASSUME MaxCount \in Nat, NEW open, IsList(open), NEW done, NEW r, IsRelease(r)
    PROVE  \E events : WriteItem(r) = Inside("item", events) /\ Turns(open, done, ItemAcc, events, Filled(r))
  <1> DEFINE title == r.title
             guid == GuidOf(r)
             details == r.details_url
             link == OrElse(r.download_url, r.magnet_url)
             date == r.publish_date
             size == r.size
             download == r.download_url
             length == IF r.download_url = None THEN None ELSE r.size
             seeders == r.seeders
             peers == PeersOf(r)
             grabs == r.grabs
             hash == r.info_hash
             magnet == r.magnet_url
             categories == r.categories
             down == r.download_volume_factor
             up == r.upload_volume_factor
             none == <<>>
             e1 == Element("title", title)
             e2 == Element("guid", GuidText(r))
             e3 == ElementOpt("comments", details)
             e4 == ElementOpt("link", link)
             e5 == ElementOpt("pubDate", date)
             e6 == IF size = None THEN <<>> ELSE Element("size", Decimal(size[1]))
             e7 == Enclosure(r)
             e8 == CountOpt("seeders", seeders)
             e9 == Peers(r)
             e10 == CountOpt("grabs", grabs)
             e11 == AttrOpt("infohash", hash)
             e12 == AttrOpt("magneturl", magnet)
             e13 == Glue(CategoryParts(r))
             e14 == Attr("downloadvolumefactor", Decimal(down))
             e15 == Attr("uploadvolumefactor", Decimal(up))
             x0 == Item(none, None, None, None, None, None, None, None, None, None, None, None, None, none, None, None)
             x1 == Item(title, None, None, None, None, None, None, None, None, None, None, None, None, none, None, None)
             x2 == Item(title, guid, None, None, None, None, None, None, None, None, None, None, None, none, None, None)
             x3 == Item(title, guid, details, None, None, None, None, None, None, None, None, None, None, none, None, None)
             x4 == Item(title, guid, details, link, None, None, None, None, None, None, None, None, None, none, None, None)
             x5 == Item(title, guid, details, link, date, None, None, None, None, None, None, None, None, none, None, None)
             x6 == Item(title, guid, details, link, date, None, None, size, None, None, None, None, None, none, None, None)
             x7 == Item(title, guid, details, link, date, download, length, size, None, None, None, None, None, none, None, None)
             x8 == Item(title, guid, details, link, date, download, length, size, seeders, None, None, None, None, none, None, None)
             x9 == Item(title, guid, details, link, date, download, length, size, seeders, peers, None, None, None, none, None, None)
             x10 == Item(title, guid, details, link, date, download, length, size, seeders, peers, grabs, None, None, none, None, None)
             x11 == Item(title, guid, details, link, date, download, length, size, seeders, peers, grabs, hash, None, none, None, None)
             x12 == Item(title, guid, details, link, date, download, length, size, seeders, peers, grabs, hash, magnet, none, None, None)
             x13 == Item(title, guid, details, link, date, download, length, size, seeders, peers, grabs, hash, magnet, categories, None, None)
             x14 == Item(title, guid, details, link, date, download, length, size, seeders, peers, grabs, hash, magnet, categories, <<down>>, None)
             x15 == Item(title, guid, details, link, date, download, length, size, seeders, peers, grabs, hash, magnet, categories, <<down>>, <<up>>)
  <1>1. /\ Plain(details) /\ Plain(date) /\ Plain(link) /\ IsList(title) /\ Trim(title) = title
        /\ hash = None \/ (hash # None /\ hash = <<hash[1]>>)
    BY TextsArePlain
  <1>2. magnet = None \/ (magnet # None /\ magnet = <<magnet[1]>>)
    BY TextsArePlain, PlainIs
  <1>3.
         /\ size = None \/ (size # None /\ size[1] \in 0..MaxCount /\ size = <<size[1]>>)
         /\ seeders = None \/ (seeders # None /\ seeders[1] \in 0..MaxCount /\ seeders = <<seeders[1]>>)
         /\ grabs = None \/ (grabs # None /\ grabs[1] \in 0..MaxCount /\ grabs = <<grabs[1]>>)
         /\ down \in 0..MaxCount /\ up \in 0..MaxCount
    BY CountsAre
  <1>4. ItemAcc = x0
    BY Zenon DEF ItemAcc, Item
  <1>5. Filled(r) = x15
    BY Zenon DEF Filled
  <1>6. WriteItem(r) = Inside("item", e1 \o e2 \o e3 \o e4 \o e5 \o e6 \o e7 \o e8 \o e9 \o e10 \o e11 \o e12 \o e13
                                       \o e14 \o e15)
    BY Zenon DEF WriteItem, GuidText, CategoryParts
  <1> HIDE DEF title, guid, details, link, date, size, download, length, seeders, peers, grabs, hash, magnet, categories, down, up, none
  <1>7. Turns(open, done, x0, e1, x1)
    BY <1>1, TitleTurns
  <1>8. Turns(open, done, x1, e2, x2)
    BY <1>1, GuidTurns DEF guid
  <1>9. Turns(open, done, x2, e3, x3)
    BY <1>1, CommentsTurn
  <1>10. Turns(open, done, x3, e4, x4)
    BY <1>1, LinkTurns
  <1>11. Turns(open, done, x4, e5, x5)
    BY <1>1, PubDateTurns
  <1>12. Turns(open, done, x5, e6, x6)
    BY <1>3, SizeTurns
  <1>13. Turns(open, done, x6, e7, x7)
    BY EnclosureFills DEF download, length
  <1>14. Turns(open, done, x7, e8, x8)
    BY <1>3, SeedersTurn
  <1>15. Turns(open, done, x8, e9, x9)
    BY PeersTurn DEF peers
  <1>16. Turns(open, done, x9, e10, x10)
    BY <1>3, GrabsTurn
  <1>17. Turns(open, done, x10, e11, x11)
    BY <1>1, InfoHashTurns
  <1>18. Turns(open, done, x11, e12, x12)
    BY <1>2, MagnetTurns
  <1>19. Turns(open, done, x12, e13, x13)
    BY CategoriesTurn DEF categories, none
  <1>20. Turns(open, done, x13, e14, x14)
    BY <1>3, DownloadFactorTurns
  <1>21. Turns(open, done, x14, e15, x15)
    BY <1>3, UploadFactorTurns
  <1> DEFINE u2 == e1 \o e2
             u3 == u2 \o e3
             u4 == u3 \o e4
             u5 == u4 \o e5
             u6 == u5 \o e6
             u7 == u6 \o e7
             u8 == u7 \o e8
             u9 == u8 \o e9
             u10 == u9 \o e10
             u11 == u10 \o e11
             u12 == u11 \o e12
             u13 == u12 \o e13
             u14 == u13 \o e14
             u15 == u14 \o e15
  <1> HIDE DEF x0, x1, x2, x3, x4, x5, x6, x7, x8, x9, x10, x11, x12, x13, x14, x15, e1, e2, e3, e4, e5, e6, e7, e8, e9, e10, e11, e12, e13, e14, e15
  <1>22. Turns(open, done, x0, u2, x2)
    BY <1>8, <1>7, TurnsOn
  <1> HIDE DEF u2
  <1>23. Turns(open, done, x0, u3, x3)
    BY <1>9, <1>22, TurnsOn
  <1> HIDE DEF u3
  <1>24. Turns(open, done, x0, u4, x4)
    BY <1>10, <1>23, TurnsOn
  <1> HIDE DEF u4
  <1>25. Turns(open, done, x0, u5, x5)
    BY <1>11, <1>24, TurnsOn
  <1> HIDE DEF u5
  <1>26. Turns(open, done, x0, u6, x6)
    BY <1>12, <1>25, TurnsOn
  <1> HIDE DEF u6
  <1>27. Turns(open, done, x0, u7, x7)
    BY <1>13, <1>26, TurnsOn
  <1> HIDE DEF u7
  <1>28. Turns(open, done, x0, u8, x8)
    BY <1>14, <1>27, TurnsOn
  <1> HIDE DEF u8
  <1>29. Turns(open, done, x0, u9, x9)
    BY <1>15, <1>28, TurnsOn
  <1> HIDE DEF u9
  <1>30. Turns(open, done, x0, u10, x10)
    BY <1>16, <1>29, TurnsOn
  <1> HIDE DEF u10
  <1>31. Turns(open, done, x0, u11, x11)
    BY <1>17, <1>30, TurnsOn
  <1> HIDE DEF u11
  <1>32. Turns(open, done, x0, u12, x12)
    BY <1>18, <1>31, TurnsOn
  <1> HIDE DEF u12
  <1>33. Turns(open, done, x0, u13, x13)
    BY <1>19, <1>32, TurnsOn
  <1> HIDE DEF u13
  <1>34. Turns(open, done, x0, u14, x14)
    BY <1>20, <1>33, TurnsOn
  <1> HIDE DEF u14
  <1>35. Turns(open, done, x0, u15, x15)
    BY <1>21, <1>34, TurnsOn
  <1> HIDE DEF u15
  <1>36. WriteItem(r) = Inside("item", u15)
    BY <1>6, Zenon DEF u2, u3, u4, u5, u6, u7, u8, u9, u10, u11, u12, u13, u14, u15
  <1> QED BY <1>35, <1>36, <1>4, <1>5, Zenon
-----------------------------------------------------------------------------
(***************************************************************************)
(* An item, from its start tag to its end tag, and the feed around them.   *)
(***************************************************************************)
LEMMA InsideReads ==
    ASSUME NEW name, NEW events, IsList(events), NEW a, NEW b, NEW c, NEW d,
           Read(a, Start(<<name>>, NoAttrs)) = b, ReadAll(b, events) = c, Read(c, End(<<name>>)) = d
    PROVE  IsList(Inside(name, events)) /\ ReadAll(a, Inside(name, events)) = d
  <1> DEFINE start == Start(<<name>>, NoAttrs)
             end == End(<<name>>)
             first == <<start>>
             last == <<end>>
  <1> HIDE DEF start, end
  <1>1. Read(a, start) = b /\ Read(c, end) = d
    BY DEF start, end
  <1>2. IsList(first) /\ ReadAll(a, first) = b /\ IsList(last) /\ ReadAll(c, last) = d
    BY <1>1, ListOfOne, ReadOne
  <1> HIDE DEF first, last
  <1> DEFINE half == first \o events
  <1>3. IsList(half) /\ ReadAll(a, half) = c
    BY <1>2, ReadNext
  <1> HIDE DEF half
  <1>4. IsList(half \o last) /\ ReadAll(a, half \o last) = d
    BY <1>2, <1>3, ReadNext
  <1>5. Inside(name, events) = half \o last
    BY Zenon DEF Inside, half, first, last, start, end
  <1> QED BY <1>4, <1>5

LEMMA ItemOpens ==
    ASSUME NEW open, NEW done, NEW more, Opens(open, <<"item">>, more)
    PROVE  Read(Between(open, None, done), Start(<<"item">>, NoAttrs)) = Between(more, <<ItemAcc>>, done)
  <1> DEFINE tag == <<"item">>
             event == Start(tag, NoAttrs)
             items == None
             next == <<ItemAcc>>
             none == <<>>
             no == ""
             before == Between(open, items, done)
             st == Between(more, items, done)
  <1>1. event.e = "start" /\ event.name = tag /\ LocalName(tag) = "item"
    BY EventsAre, NamesAre
  <1>2. /\ before = Collecting(open, items, no, none, done) /\ st = Collecting(more, items, no, none, done)
        /\ Between(more, next, done) = Collecting(more, next, no, none, done)
    BY Zenon DEF Between
  <1> HIDE DEF event, tag, before, st, items, next, none, no
  <1>3. before.ok /\ before.open = open
    BY <1>2, StatesAre
  <1>4. [before EXCEPT !.open = more] = st /\ [st EXCEPT !.item = next] = Between(more, next, done)
    BY <1>2, StatesMove
  <1>5. Append(before.open, event.name) = more
    BY <1>1, <1>3, Zenon DEF tag, Opens
  <1>6. Read(before, event) = Tagged([before EXCEPT !.open = Append(before.open, event.name)], event)
    BY <1>1, <1>3 DEF Read
  <1>7. Tagged(st, event) = [st EXCEPT !.item = <<ItemAcc>>]
    BY <1>1 DEF Tagged
  <1> QED BY <1>4, <1>5, <1>6, <1>7, Zenon DEF before, event, tag, items, next

LEMMA ItemCloses ==
    ASSUME NEW open, NEW done, NEW item, NEW more, Opens(open, <<"item">>, more)
    PROVE  Read(Between(more, <<item>>, done), End(<<"item">>)) = Between(open, None, Append(done, IntoRelease(item)))
  <1> DEFINE tag == <<"item">>
             event == End(tag)
             items == <<item>>
             no == ""
             none == <<>>
             next == None
             releases == Append(done, IntoRelease(item))
             before == Between(more, items, done)
             st == Between(open, items, done)
  <1>1. event.e = "end" /\ event.name = tag /\ LocalName(tag) = "item"
    BY EventsAre, NamesAre
  <1>2. items # None /\ items[1] = item
    BY OneThere
  <1>3. more # <<>> /\ Last(more) = tag /\ Front(more) = open
    BY OpeningIs
  <1>4. /\ before = Collecting(more, items, no, none, done) /\ st = Collecting(open, items, no, none, done)
        /\ Between(open, next, releases) = Collecting(open, next, no, none, releases)
    BY Zenon DEF Between
  <1> HIDE DEF event, tag, before, st, items, next, none, no, releases
  <1>5. before.ok /\ before.open = more /\ st.item = items /\ st.releases = done
    BY <1>4, StatesAre
  <1>6. /\ [before EXCEPT !.open = open] = st
        /\ [[st EXCEPT !.releases = releases] EXCEPT !.item = next] = Between(open, next, releases)
    <2>1. [before EXCEPT !.open = open] = st
      BY <1>4, StatesMove
    <2> DEFINE half == Collecting(open, items, no, none, releases)
    <2>2. [st EXCEPT !.releases = releases] = half
      BY <1>4, StatesMove
    <2>3. [half EXCEPT !.item = next] = Between(open, next, releases)
      BY <1>4, StatesMove
    <2> HIDE DEF half
    <2> QED BY <2>1, <2>2, <2>3, Zenon
  <1>7. Read(before, event) = Closed(st, tag)
    <2>1. ~(before.open = <<>> \/ Last(before.open) # event.name)
      BY <1>1, <1>3, <1>5
    <2>2. Read(before, event) = Closed([before EXCEPT !.open = Front(before.open)], event.name)
      BY <1>1, <1>5, <2>1 DEF Read
    <2> QED BY <1>1, <1>3, <1>5, <1>6, <2>2, Zenon
  <1>8. Closed(st, tag) = [st EXCEPT !.releases = releases, !.item = None]
    BY <1>1, <1>2, <1>5, Zenon DEF Closed, releases
  <1> QED BY <1>6, <1>7, <1>8, Zenon DEF before, event, tag, items, next, releases

\* What write_item writes is read as the release it was written from.
LEMMA ItemReads ==
    ASSUME MaxCount \in Nat, NEW open, IsList(open), NEW done, NEW r, IsRelease(r)
    PROVE  /\ IsList(WriteItem(r))
           /\ ReadAll(Between(open, None, done), WriteItem(r)) = Between(open, None, Append(done, r))
  <1> DEFINE tag == <<"item">>
             more == Append(open, tag)
             a == Between(open, None, done)
             b == Between(more, <<ItemAcc>>, done)
             c == Between(more, <<Filled(r)>>, done)
             d == Between(open, None, Append(done, IntoRelease(Filled(r))))
  <1>1. Opens(open, tag, more)
    BY DEF Opens
  <1> HIDE DEF more
  <1>2. IsList(more)
    BY <1>1, OpeningIs
  <1>3. PICK events : WriteItem(r) = Inside("item", events) /\ Turns(more, done, ItemAcc, events, Filled(r))
    BY <1>2, ChildrenTurn
  <1>4. Read(a, Start(tag, NoAttrs)) = b
    BY <1>1, ItemOpens
  <1>5. Read(c, End(tag)) = d
    <2> DEFINE item == Filled(r)
    <2> HIDE DEF item
    <2>1. Read(Between(more, <<item>>, done), End(tag)) = Between(open, None, Append(done, IntoRelease(item)))
      BY <1>1, ItemCloses
    <2> QED BY <2>1 DEF item
  <1>6. IsList(events) /\ ReadAll(b, events) = c
    BY <1>3, Zenon DEF Turns
  <1>7. d = Between(open, None, Append(done, r))
    BY IntoReleaseIs
  <1> HIDE DEF a, b, c, d
  <1>8. IsList(Inside("item", events)) /\ ReadAll(a, Inside("item", events)) = d
    BY <1>4, <1>5, <1>6, InsideReads
  <1> QED BY <1>3, <1>7, <1>8, Zenon DEF a
LEMMA ItemsRead ==
    ASSUME MaxCount \in Nat, NEW open, IsList(open), NEW releases, IsList(releases),
           \A i \in DOMAIN releases : IsRelease(releases[i])
    PROVE  LET items == Glue([i \in DOMAIN releases |-> WriteItem(releases[i])])
           IN /\ IsList(items)
              /\ ReadAll(Between(open, None, <<>>), items) = Between(open, None, releases)
  <1> DEFINE n == Len(releases)
             parts == [i \in DOMAIN releases |-> WriteItem(releases[i])]
             st == [i \in 0..n |-> Between(open, None, SubSeq(releases, 1, i))]
             T == {WriteItem(releases[i]) : i \in DOMAIN releases}
  <1>1. n \in Nat /\ DOMAIN releases = 1..n
    BY ListIs
  <1>2. parts \in [1..n -> T] /\ \A i \in 1..n : parts[i] = WriteItem(releases[i])
    BY <1>1
  <1> HIDE DEF parts, T
  <1>3. parts \in Seq(T) /\ Len(parts) = n
    BY <1>1, <1>2
  <1>4. IsList(parts)
    BY <1>3, ListIs
  <1>5. /\ SubSeq(releases, 1, 0) = <<>> /\ SubSeq(releases, 1, n) = releases
        /\ \A i \in 1..n : SubSeq(releases, 1, i) = SubSeq(releases, 1, i - 1) \o <<releases[i]>>
    BY PrefixesAre
  <1>6. \A i \in 0..n : st[i] = Between(open, None, SubSeq(releases, 1, i))
    OBVIOUS
  <1> HIDE DEF st, n
  <1>7. \A i \in 1..Len(parts) : IsList(parts[i]) /\ ReadAll(st[i - 1], parts[i]) = st[i]
    <2> TAKE i \in 1..Len(parts)
    <2>1. i \in 1..n /\ i \in 0..n /\ i - 1 \in 0..n
      BY <1>1, <1>3
    <2> DEFINE done == SubSeq(releases, 1, i - 1)
               r == releases[i]
               next == SubSeq(releases, 1, i)
    <2>2. IsRelease(r) /\ parts[i] = WriteItem(r) /\ next = done \o <<r>>
      BY <1>1, <1>2, <1>5, <2>1
    <2>3. st[i - 1] = Between(open, None, done) /\ st[i] = Between(open, None, next)
      BY <1>6, <2>1
    <2>4. Append(done, r) = next
      <3>1. releases \in Seq(ToSet(releases)) /\ i - 1 \in 0..Len(releases) /\ i \in 1..Len(releases)
        BY <2>1 DEF IsList, n
      <3>2. done \in Seq(ToSet(releases)) /\ r \in ToSet(releases)
        <4>1. r \in ToSet(releases)
          BY <3>1 DEF ToSet
        <4> DEFINE A == ToSet(releases)
        <4> HIDE DEF A
        <4>2. SubSeq(releases, 1, i - 1) \in Seq(A)
          BY <3>1 DEF A
        <4> QED BY <4>1, <4>2 DEF A
      <3> DEFINE A == ToSet(releases)
      <3> HIDE DEF A, done, r, next
      <3>3. \A x, s : s \in Seq(A) /\ x \in A => Append(s, x) = s \o <<x>>
        OBVIOUS
      <3> QED BY <2>2, <3>2, <3>3, Zenon DEF A
    <2> HIDE DEF done, r, next
    <2>5. IsList(WriteItem(r)) /\ ReadAll(Between(open, None, done), WriteItem(r)) = Between(open, None, Append(done, r))
      BY <2>2, ItemReads
    <2> QED BY <2>2, <2>3, <2>4, <2>5, Zenon
  <1>8. IsList(Glue(parts)) /\ ReadAll(st[0], Glue(parts)) = st[Len(parts)]
    BY <1>4, <1>7, ReadGlued
  <1>9. st[0] = Between(open, None, <<>>) /\ st[Len(parts)] = Between(open, None, releases)
    <2>1. 0 \in 0..n /\ n \in 0..n
      BY <1>1
    <2> QED BY <1>3, <1>5, <1>6, <2>1, Zenon
  <1> QED BY <1>8, <1>9, Zenon DEF parts

LEMMA ChannelCloses ==
    ASSUME NEW open, NEW releases, NEW name, NEW more, Opens(open, <<name>>, more), name # "item"
    PROVE  Read(Between(more, None, releases), End(<<name>>)) = Between(open, None, releases)
  <1> DEFINE tag == <<name>>
             event == End(tag)
             items == None
             no == ""
             none == <<>>
             before == Between(more, items, releases)
             st == Between(open, items, releases)
  <1>1. event.e = "end" /\ event.name = tag /\ LocalName(tag) = name
    BY EventsAre, NamesAre
  <1>2. more # <<>> /\ Last(more) = tag /\ Front(more) = open
    BY OpeningIs
  <1>3. before = Collecting(more, items, no, none, releases) /\ st = Collecting(open, items, no, none, releases)
    BY Zenon DEF Between
  <1> HIDE DEF event, tag, before, st, items, none, no
  <1>4. before.ok /\ before.open = more /\ st.field = no
    BY <1>3, StatesAre
  <1>5. [before EXCEPT !.open = open] = st
    BY <1>3, StatesMove
  <1>6. Read(before, event) = Closed(st, tag)
    <2>1. ~(before.open = <<>> \/ Last(before.open) # event.name)
      BY <1>1, <1>2, <1>4
    <2>2. Read(before, event) = Closed([before EXCEPT !.open = Front(before.open)], event.name)
      BY <1>1, <1>4, <2>1 DEF Read
    <2> QED BY <1>1, <1>2, <1>4, <1>5, <2>2, Zenon
  <1>7. Closed(st, tag) = st
    BY <1>1, <1>4, Zenon DEF Closed, no
  <1> QED BY <1>6, <1>7, Zenon DEF before, st, event, tag, items

\* What stands before the channel.
Outside(open) == State(Yes, open, FALSE, None, "", <<>>, <<>>)

LEMMA ChannelOpens ==
    ASSUME NEW outer, NEW inner
    PROVE  /\ Opens(<<>>, <<"rss">>, outer) => Read(Begun, Start(<<"rss">>, NoAttrs)) = Outside(outer)
           /\ Opens(outer, <<"channel">>, inner) =>
                 Read(Outside(outer), Start(<<"channel">>, NoAttrs)) = Between(inner, None, <<>>)
           /\ Begun = Outside(<<>>)
  <1> DEFINE no == FALSE
             items == None
             field == ""
             none == <<>>
             st(ok, open, channel) == State(ok, open, channel, items, field, none, none)
  <1>1. Begun = st(Yes, <<>>, no)
    BY Zenon DEF Begun, State, Yes
  <1>2. Outside(outer) = st(Yes, outer, no) /\ Outside(inner) = st(Yes, inner, no)
    BY Zenon DEF Outside
  <1>3. Between(inner, None, <<>>) = st(Yes, inner, Yes)
    BY Zenon DEF Between, Collecting
  <1> HIDE DEF no, items, field, none
  <1>0. [st(Yes, inner, no) EXCEPT !.channel = Yes] = st(Yes, inner, Yes)
    BY DEF State
  <1>4. ASSUME NEW ok, NEW open, NEW channel, NEW x
        PROVE  /\ [st(ok, open, channel) EXCEPT !.open = x] = st(ok, x, channel)
               /\ [st(ok, open, channel) EXCEPT !.channel = x] = st(ok, open, x)
               /\ st(ok, open, channel).ok = ok /\ st(ok, open, channel).open = open
               /\ st(ok, open, channel).item = items
    BY DEF State
  <1>5. \A open, channel : st(Yes, open, channel).ok
    BY DEF State, Yes
  <1>6. /\ LocalName(<<"rss">>) = "rss" /\ LocalName(<<"channel">>) = "channel"
        /\ Start(<<"rss">>, NoAttrs).e = "start" /\ Start(<<"rss">>, NoAttrs).name = <<"rss">>
        /\ Start(<<"channel">>, NoAttrs).e = "start" /\ Start(<<"channel">>, NoAttrs).name = <<"channel">>
    BY NamesAre, EventsAre
  <1> HIDE DEF st
  <1>7. ASSUME Opens(<<>>, <<"rss">>, outer)
        PROVE  Read(Begun, Start(<<"rss">>, NoAttrs)) = Outside(outer)
    <2> DEFINE event == Start(<<"rss">>, NoAttrs)
               tag == <<"rss">>
               before == st(Yes, <<>>, no)
               after == st(Yes, outer, no)
    <2>1. event.e = "start" /\ event.name = tag /\ LocalName(tag) = "rss" /\ Append(<<>>, tag) = outer
      BY <1>6, <1>7 DEF Opens
    <2> HIDE DEF event, tag
    <2>2. before.ok /\ before.open = <<>> /\ [before EXCEPT !.open = outer] = after /\ after.item = items
      BY <1>4, <1>5
    <2> HIDE DEF before, after
    <2>3. Read(before, event) = Tagged([before EXCEPT !.open = Append(before.open, event.name)], event)
      BY <2>1, <2>2 DEF Read
    <2>4. Tagged(after, event) = after
      BY <2>1, <2>2 DEF Tagged, items
    <2> QED BY <1>1, <1>2, <2>1, <2>2, <2>3, <2>4, Zenon DEF before, after, event
  <1>8. ASSUME Opens(outer, <<"channel">>, inner)
        PROVE  Read(Outside(outer), Start(<<"channel">>, NoAttrs)) = Between(inner, None, <<>>)
    <2> DEFINE event == Start(<<"channel">>, NoAttrs)
               tag == <<"channel">>
               before == st(Yes, outer, no)
               after == st(Yes, inner, no)
               yes == TRUE
    <2>1. event.e = "start" /\ event.name = tag /\ LocalName(tag) = "channel" /\ Append(outer, tag) = inner
      BY <1>6, <1>8 DEF Opens
    <2> HIDE DEF event, tag
    <2>2. before.ok /\ before.open = outer /\ [before EXCEPT !.open = inner] = after
      BY <1>4, <1>5
    <2>3. [after EXCEPT !.channel = Yes] = st(Yes, inner, Yes)
      BY <1>0, Zenon DEF after
    <2> HIDE DEF before, after
    <2>4. Read(before, event) = Tagged([before EXCEPT !.open = Append(before.open, event.name)], event)
      BY <2>1, <2>2 DEF Read
    <2>5. Tagged(after, event) = [after EXCEPT !.channel = Yes]
      BY <2>1, Zenon DEF Tagged, Yes
    <2> QED BY <1>2, <1>3, <2>1, <2>2, <2>3, <2>4, <2>5, Zenon DEF before, after, event
  <1>9. Begun = Outside(<<>>)
    BY <1>1, Zenon DEF st, Outside, no, items, field, none
  <1> QED BY <1>7, <1>8, <1>9

\* An indexer that asks another instance's endpoint gets its releases as they
\* were, in their order, every one of them: what write_item and
\* render_results (torznab.rs) write, parse_feed (rss.rs) reads back, whatever
\* the alphabet, the texts, the counts and the number of releases.
THEOREM FeedReads ==
    ASSUME MaxCount \in Nat, NEW Alphabet,
           NEW releases \in Seq(ReleasesOf(Alphabet)), NEW title \in Seq(Alphabet)
    PROVE  FeedReadsBack(releases, title)
  <1> SUFFICES ASSUME \A i \in DOMAIN releases : Renderable(releases[i])
               PROVE  ParseFeed(RenderResults(releases, title)) = [ok |-> TRUE, releases |-> releases]
    BY DEF FeedReadsBack
  <1>1. IsList(releases) /\ IsList(title)
    BY ListIs
  <1>2. \A i \in DOMAIN releases : IsRelease(releases[i])
    <2>1. \A i \in DOMAIN releases : releases[i] \in ReleasesOf(Alphabet)
      <3> DEFINE A == ReleasesOf(Alphabet)
      <3> HIDE DEF A
      <3>1. releases \in Seq(A)
        BY DEF A
      <3>2. \A i \in DOMAIN releases : releases[i] \in A
        BY <3>1
      <3> QED BY <3>2 DEF A
    <2> QED BY <2>1, Zenon DEF IsRelease
  <1> DEFINE none == <<>>
             rss == <<"rss">>
             channel == <<"channel">>
             outer == Append(none, rss)
             inner == Append(outer, channel)
             items == Glue([i \in DOMAIN releases |-> WriteItem(releases[i])])
             named == Element("title", title)
             body == named \o items
             feed == Inside("channel", body)
             begun == Outside(outer)
             empty == Between(inner, None, <<>>)
             full == Between(inner, None, releases)
             closed == Between(outer, None, releases)
             done == Between(none, None, releases)
  <1>3. IsList(none)
    BY ListOfNone
  <1>4. Opens(none, rss, outer)
    BY <1>3 DEF Opens
  <1>5. IsList(outer)
    <2> HIDE DEF outer, none, rss
    <2> QED BY <1>4, OpeningIs
  <1>6. Opens(outer, channel, inner)
    BY <1>5 DEF Opens
  <1>7. IsList(inner)
    <2> HIDE DEF outer, inner, channel
    <2> QED BY <1>6, OpeningIs
  <1> HIDE DEF outer, inner
  <1>8. IsList(items) /\ ReadAll(empty, items) = full
    BY <1>1, <1>2, <1>7, ItemsRead
  <1>9. IsList(named) /\ ReadAll(empty, named) = empty
    <2>1. "title" \notin {"channel", "item", "enclosure", "attr"}
      OBVIOUS
    <2> QED BY <1>1, <1>7, <2>1, IgnoredReads
  <1>10. Read(Begun, Start(rss, NoAttrs)) = begun /\ Read(begun, Start(channel, NoAttrs)) = empty
    BY <1>4, <1>6, ChannelOpens
  <1>11. Read(full, End(channel)) = closed /\ Read(closed, End(rss)) = done
    <2>1. "rss" # "item" /\ "channel" # "item"
      OBVIOUS
    <2>2. Read(full, End(channel)) = closed
      BY <1>6, <2>1, ChannelCloses
    <2>3. Read(closed, End(rss)) = done
      <3> HIDE DEF none
      <3> QED BY <1>4, <2>1, ChannelCloses
    <2> QED BY <2>2, <2>3
  <1>12. done.ok /\ done.channel /\ done.releases = releases
    <2> HIDE DEF none
    <2>1. done.ok /\ done.releases = releases
      <3> DEFINE no == ""
                 nil == <<>>
                 nothing == None
                 st == Collecting(none, nothing, no, nil, releases)
      <3>1. done = st
        BY Zenon DEF Between
      <3> HIDE DEF no, nil, nothing
      <3>2. st.ok /\ st.releases = releases
        BY StatesAre
      <3> QED BY <3>1, <3>2
    <2>2. done.channel
      BY DEF Between, Collecting, State, Yes
    <2> QED BY <2>1, <2>2
  <1>13. RenderResults(releases, title) = Inside("rss", feed)
    BY Zenon DEF RenderResults
  <1> HIDE DEF items, named, begun, empty, full, closed, done
  <1>14. IsList(body) /\ ReadAll(empty, body) = full
    BY <1>8, <1>9, ReadNext
  <1> HIDE DEF body
  <1>15. IsList(feed) /\ ReadAll(begun, feed) = closed
    BY <1>10, <1>11, <1>14, InsideReads
  <1> HIDE DEF feed
  <1>16. ReadAll(Begun, Inside("rss", feed)) = done
    BY <1>10, <1>11, <1>15, InsideReads
  <1> QED BY <1>12, <1>13, <1>16, Zenon DEF ParseFeed
=============================================================================
