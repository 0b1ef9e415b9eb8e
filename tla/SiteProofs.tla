----------------------------- MODULE SiteProofs -----------------------------
(***************************************************************************)
(* What a site's own words come to, for any of them: a feed is read alike  *)
(* whatever fragments its texts and whatever order its elements come in    *)
(* (TextIsWhole, ItemIsUnordered), a login form is posted as the page has  *)
(* it, filled in (FilledIn), and of the filters of a definition a split    *)
(* and a link fall into the parts they were put together from              *)
(* (SplitReachesEveryPart, ParamIsTheFirst), what one escaping adds one    *)
(* decoding takes away (EscapesComeUndone), a sanitised list is what two   *)
(* texts share (ValidateIntersects), and keywords only ever narrow what    *)
(* was listed (KeywordsOnlyNarrow).                                        *)
(***************************************************************************)
EXTENDS DataProofs, FormFields, Filters

-----------------------------------------------------------------------------
(***************************************************************************)
(* A text in any fragments.                                                *)
(***************************************************************************)
\* What `events` put into the title of an item is s.
Spells(events, s) ==
    /\ IsList(events)
    /\ \A open, items, done : TextCounts(items, "title") =>
          ReadAll(Collecting(open, items, "title", <<>>, done), events) = Collecting(open, items, "title", s, done)

\* One event more that brings text, whatever was collected before.
LEMMA FragmentReads ==
    ASSUME NEW open, NEW items, NEW field, NEW buffer, NEW done, NEW s, TextCounts(items, field)
    PROVE  /\ Read(Collecting(open, items, field, buffer, done), CData(s))
                = Collecting(open, items, field, buffer \o s, done)
           /\ \A name : ResolveEntityRef(name) = s =>
                 Read(Collecting(open, items, field, buffer, done), Ref(name))
                    = Collecting(open, items, field, buffer \o s, done)
  <1> DEFINE st == Collecting(open, items, field, buffer, done)
             more == buffer \o s
  <1>1. st.ok /\ st.item = items /\ st.field = field /\ st.buffer = buffer
    BY StatesAre
  <1>2. [st EXCEPT !.buffer = more] = Collecting(open, items, field, more, done)
    <2> HIDE DEF more
    <2> QED BY StatesMove
  <1> HIDE DEF st
  <1>3. Text(st, s) = [st EXCEPT !.buffer = more]
    BY <1>1, Zenon DEF Text, TextCounts
  <1>4. Read(st, CData(s)) = Text(st, s)
    <2>1. CData(s).e = "cdata" /\ CData(s).s = s
      BY DEF CData
    <2> DEFINE event == CData(s)
    <2> HIDE DEF event
    <2>2. event.e = "cdata" /\ event.s = s
      BY <2>1 DEF event
    <2>3. Read(st, event) = Text(st, s)
      BY <1>1, <2>2 DEF Read
    <2> QED BY <2>3 DEF event
  <1>5. ASSUME NEW name, ResolveEntityRef(name) = s PROVE Read(st, Ref(name)) = Text(st, s)
    <2> DEFINE event == Ref(name)
    <2>1. event.e = "ref" /\ event.name = name
      BY EventsAre
    <2> HIDE DEF event
    <2>2. Read(st, event) = Text(st, ResolveEntityRef(name))
      BY <1>1, <2>1 DEF Read
    <2> QED BY <1>5, <2>2 DEF event
  <1>6. Read(st, CData(s)) = Collecting(open, items, field, more, done)
    BY <1>2, <1>3, <1>4, Zenon
  <1>7. \A name : ResolveEntityRef(name) = s => Read(st, Ref(name)) = Collecting(open, items, field, more, done)
    BY <1>2, <1>3, <1>5, Zenon
  <1> QED BY <1>6, <1>7 DEF st, more

LEMMA WrittenSpells ==
    ASSUME NEW s, IsList(s)
    PROVE  Spells(Written(s), s)
  <1>1. IsList(Written(s))
    BY WrittenIs
  <1>2. ASSUME NEW open, NEW items, NEW done, NEW field, TextCounts(items, field)
        PROVE  ReadAll(Collecting(open, items, field, <<>>, done), Written(s)) = Collecting(open, items, field, s, done)
    BY <1>2, TextReads
  <1> QED BY <1>1, <1>2, Zenon DEF Spells

LEMMA LastOfAppended ==
    ASSUME NEW A, NEW s \in Seq(A), NEW x \in A
    PROVE  /\ Append(s, x) \in Seq(A) /\ Len(Append(s, x)) = Len(s) + 1
           /\ Append(s, x)[Len(s) + 1] = x
           /\ \A i \in 1..Len(s) : Append(s, x)[i] = s[i]
  <1>1. Append(s, x) \in Seq(A) /\ Len(Append(s, x)) = Len(s) + 1
    OBVIOUS
  <1>2. Append(s, x)[Len(s) + 1] = x
    OBVIOUS
  <1>3. \A i \in 1..Len(s) : Append(s, x)[i] = s[i]
    OBVIOUS
  <1> QED BY <1>1, <1>2, <1>3

LEMMA ThreeAppended ==
    ASSUME NEW p, NEW q
    PROVE  Append(Append(Append(<<>>, p), q), p) = <<p, q, p>>
  <1> DEFINE A == {p, q}
  <1>1. p \in A /\ q \in A
    OBVIOUS
  <1> HIDE DEF A
  <1>2. Append(<<>>, p) = <<p>> /\ <<p>> \in Seq(A) /\ Len(<<p>>) = 1
    BY <1>1
  <1>3. Append(<<p>>, q) = <<p, q>> /\ <<p, q>> \in Seq(A) /\ Len(<<p, q>>) = 2
    <2> DEFINE s == <<p>>
               u == Append(s, q)
               v == <<p, q>>
    <2>1. s \in Seq(A) /\ Len(s) = 1 /\ s[1] = p /\ v \in Seq(A) /\ Len(v) = 2 /\ v[1] = p /\ v[2] = q
      BY <1>1
    <2> HIDE DEF s, v
    <2>2. u \in Seq(A) /\ Len(u) = 2 /\ u[1] = p /\ u[2] = q
      <3>1. u \in Seq(A) /\ Len(u) = Len(s) + 1 /\ u[Len(s) + 1] = q /\ \A i \in 1..Len(s) : u[i] = s[i]
        <4>1. s \in Seq(A) /\ q \in A
          BY <1>1, <2>1
        <4> QED BY <4>1, LastOfAppended
      <3>2. Len(s) = 1 /\ 1 \in 1..Len(s)
        BY <2>1
      <3> HIDE DEF u
      <3> QED BY <2>1, <3>1, <3>2
    <2> HIDE DEF u
    <2>3. u = v
      BY <2>1, <2>2
    <2> QED BY <2>1, <2>3 DEF s, u, v
  <1>4. Append(<<p, q>>, p) = <<p, q, p>>
    <2> DEFINE s == <<p, q>>
               u == Append(s, p)
               v == <<p, q, p>>
    <2>1. s \in Seq(A) /\ Len(s) = 2 /\ s[1] = p /\ s[2] = q
          /\ v \in Seq(A) /\ Len(v) = 3 /\ v[1] = p /\ v[2] = q /\ v[3] = p
      BY <1>1
    <2> HIDE DEF s, v
    <2>2. u \in Seq(A) /\ Len(u) = 3 /\ u[1] = p /\ u[2] = q /\ u[3] = p
      <3>1. u \in Seq(A) /\ Len(u) = Len(s) + 1 /\ u[Len(s) + 1] = p /\ \A i \in 1..Len(s) : u[i] = s[i]
        <4>1. s \in Seq(A) /\ p \in A
          BY <1>1, <2>1
        <4> QED BY <4>1, LastOfAppended
      <3>2. Len(s) = 2 /\ 1 \in 1..Len(s) /\ 2 \in 1..Len(s)
        BY <2>1
      <3> HIDE DEF u
      <3> QED BY <2>1, <3>1, <3>2
    <2> HIDE DEF u
    <2>3. u = v
      BY <2>1, <2>2
    <2> QED BY <2>3 DEF s, u, v
  <1> QED BY <1>2, <1>3, <1>4, Zenon

LEMMA IntoTitle ==
    ASSUME NEW item
    PROVE  IntoRelease(item).title = item.title
  <1> DEFINE linkIsMagnet == item.link # None /\ IsMagnet(item.link[1])
             title == item.title
             size == OrElse(item.size_override, item.enclosure_length)
             seeders == item.seeders
             leechers == IF item.seeders = None \/ item.peers = None THEN None
                         ELSE <<IF item.peers[1] > item.seeders[1] THEN item.peers[1] - item.seeders[1] ELSE 0>>
             grabs == item.grabs
             details == OrElse(item.comments, IF item.guid # None /\ IsWebUrl(item.guid[1]) THEN item.guid ELSE None)
             download == OrElse(item.enclosure_url, IF linkIsMagnet THEN None ELSE item.link)
             magnet == OrElse(item.magnet_url, IF linkIsMagnet THEN item.link ELSE None)
             hash == item.info_hash
             date == IF item.pub_date # None /\ Len(item.pub_date[1]) = 1 /\ item.pub_date[1][1] \in Dates
                       THEN item.pub_date ELSE None
             categories == item.categories
             down == OrElse(item.download_volume_factor, <<1>>)[1]
             up == OrElse(item.upload_volume_factor, <<1>>)[1]
  <1>1. IntoRelease(item)
          = [Release EXCEPT !.title = title, !.size = size, !.seeders = seeders, !.leechers = leechers,
                            !.grabs = grabs, !.details_url = details, !.download_url = download,
                            !.magnet_url = magnet, !.info_hash = hash, !.publish_date = date,
                            !.categories = categories, !.download_volume_factor = down,
                            !.upload_volume_factor = up]
    BY Zenon DEF IntoRelease
  <1>2. IntoRelease(item) = Rel(title, size, seeders, leechers, grabs, details, download, magnet, hash, date,
                                categories, down, up)
    BY <1>1, RelTakes, Zenon
  <1>3. title = item.title
    OBVIOUS
  <1> HIDE DEF title, size, seeders, leechers, grabs, details, download, magnet, hash, date, categories, down, up
  <1> QED BY <1>2, <1>3 DEF Rel

\* An item with a title and nothing else.
LEMMA TitledReads ==
    ASSUME NEW events, NEW s, Spells(events, s), NEW open, IsList(open), NEW done
    PROVE  LET item == Inside("item", Inside("title", events))
               read == IntoRelease(CommitField(ItemAcc, "title", s))
           IN /\ IsList(item)
              /\ ReadAll(Between(open, None, done), item) = Between(open, None, Append(done, read))
              /\ read.title = Trim(s)
  <1> DEFINE name == "title"
             tag == <<name>>
             outer == Append(open, <<"item">>)
             inner == Append(outer, tag)
             items == <<ItemAcc>>
             filled == CommitField(ItemAcc, name, s)
             field == TextFields[name]
             a == Between(open, None, done)
             b == Between(outer, items, done)
             c == Collecting(inner, items, field, <<>>, done)
             d == Collecting(inner, items, field, s, done)
             e == Between(outer, <<filled>>, done)
             f == Between(open, None, Append(done, IntoRelease(filled)))
  <1>1. name \in DOMAIN TextFields /\ field = "title" /\ field = name
    BY FieldNames
  <1>2. items # None /\ items[1] = ItemAcc
    BY OneThere
  <1>3. TextCounts(items, field)
    BY <1>1, <1>2 DEF TextCounts
  <1>4. Opens(open, <<"item">>, outer)
    BY DEF Opens
  <1>5. IsList(outer)
    <2> HIDE DEF outer
    <2> QED BY <1>4, OpeningIs
  <1>6. Opens(outer, tag, inner)
    BY <1>5 DEF Opens
  <1> HIDE DEF outer, inner
  <1>7. Read(a, Start(<<"item">>, NoAttrs)) = b
    BY <1>4, ItemOpens
  <1>8. Read(e, End(<<"item">>)) = f
    <2> HIDE DEF filled
    <2> QED BY <1>4, ItemCloses
  <1> HIDE DEF items
  <1>9. Read(b, Start(tag, NoAttrs)) = c
    <2> HIDE DEF name
    <2> QED BY <1>1, <1>2, <1>6, FieldOpens
  <1>10. Read(d, End(tag)) = e
    <2>1. Read(d, End(tag)) = Between(outer, <<CommitField(items[1], field, s)>>, done)
      <3> HIDE DEF name
      <3> QED BY <1>1, <1>2, <1>6, FieldCloses
    <2> QED BY <1>1, <1>2, <2>1
  <1>11. IsList(events) /\ ReadAll(c, events) = d
    BY <1>1, <1>3, Zenon DEF Spells
  <1> HIDE DEF a, b, c, d, e, f
  <1> DEFINE titled == Inside(name, events)
  <1>12. IsList(titled) /\ ReadAll(b, titled) = e
    <2> HIDE DEF name
    <2> QED BY <1>9, <1>10, <1>11, InsideReads
  <1> HIDE DEF titled
  <1>13. IsList(Inside("item", titled)) /\ ReadAll(a, Inside("item", titled)) = f
    BY <1>7, <1>8, <1>12, InsideReads
  <1>14. IntoRelease(filled).title = Trim(s)
    <2> DEFINE value == Trim(s)
    <2> HIDE DEF value
    <2>1. filled = [ItemAcc EXCEPT !.title = value]
      BY CommitIs DEF value
    <2>2. filled.title = value
      BY <2>1 DEF ItemAcc
    <2> HIDE DEF filled
    <2>3. IntoRelease(filled).title = filled.title
      BY IntoTitle
    <2> QED BY <2>2, <2>3 DEF value
  <1> QED BY <1>13, <1>14 DEF a, f, titled

\* However a title comes, written character by character, in part as it stands in a
\* CDATA section, after an entity nobody knows in the title of another item: what is
\* collected is the whole of it, trimmed once (rss.rs, parse_feed and commit_field).
THEOREM TextKept ==
    ASSUME NEW A, NEW s \in Seq(A), NEW cut \in 0..Len(s), NEW unknown
    PROVE  TextIsWhole(s, cut, unknown)
  <1> DEFINE left == SubSeq(s, 1, cut)
             right == From(s, cut + 1)
             split == Written(left) \o <<CData(right)>>
             known == Written(s)
             odd == <<Ref(unknown)>>
             resolved == <<>> \o ResolveEntityRef(unknown)
             item(events) == Inside("item", Inside("title", events))
             read(t) == IntoRelease(CommitField(ItemAcc, "title", t))
             open == Append(<<>>, <<"channel">>)
  <1>1. left \in Seq(A) /\ left \o right = s /\ IsList(s)
    <2>1. left \in Seq(A) /\ Len(left) = cut
      OBVIOUS
    <2>2. left \o right = s
      <3>1. right \in Seq(A) /\ Len(right) = Len(s) - cut /\ \A i \in 1..Len(right) : right[i] = s[cut + i]
        BY DEF From
      <3>2. \A i \in 1..Len(left) : left[i] = s[i]
        BY <2>1
      <3> DEFINE whole == left \o right
      <3> HIDE DEF left, right
      <3>3. whole \in Seq(A) /\ Len(whole) = Len(s)
        BY <2>1, <3>1
      <3>4. ASSUME NEW i \in 1..Len(s) PROVE whole[i] = s[i]
        <4>1. CASE i <= cut
          BY <2>1, <3>1, <3>2, <4>1
        <4>2. CASE i > cut
          <5>1. i - cut \in 1..Len(right) /\ cut + (i - cut) = i /\ ~(i <= Len(left)) /\ i <= Len(left) + Len(right)
            BY <2>1, <3>1, <4>2
          <5>2. whole[i] = right[i - cut]
            BY <2>1, <3>1, <5>1
          <5> QED BY <3>1, <5>1, <5>2
        <4> HIDE DEF whole
        <4>3. i \in Int /\ cut \in Int
          OBVIOUS
        <4>4. i <= cut \/ i > cut
          BY <4>3
        <4> QED BY <4>1, <4>2, <4>4
      <3> HIDE DEF whole
      <3>5. whole = s
        BY <3>3, <3>4
      <3> QED BY <3>5 DEF whole
    <2> QED BY <2>1, <2>2, ListIs
  <1>2. Spells(known, s)
    BY <1>1, WrittenSpells
  <1>3. Spells(split, s)
    <2>1. IsList(left)
      BY <1>1, ListIs
    <2>2. Spells(Written(left), left)
      <3> HIDE DEF left
      <3> QED BY <2>1, WrittenSpells
    <2> DEFINE a == Written(left)
               b == <<CData(right)>>
    <2>3. IsList(a) /\ IsList(b)
      BY <2>2, ListOfOne DEF Spells
    <2>4. ASSUME NEW outer, NEW items, NEW done, NEW field, field = "title", TextCounts(items, field)
          PROVE  ReadAll(Collecting(outer, items, field, <<>>, done), split) = Collecting(outer, items, field, s, done)
      <3> DEFINE st == Collecting(outer, items, field, <<>>, done)
                 half == Collecting(outer, items, field, left, done)
                 full == Collecting(outer, items, field, left \o right, done)
      <3>1. ReadAll(st, a) = half
        BY <2>2, <2>4, Zenon DEF Spells
      <3>2. Read(half, CData(right)) = full
        <4> HIDE DEF left, right
        <4> QED BY <2>4, FragmentReads
      <3>3. ReadAll(half, b) = full
        <4> HIDE DEF half, full
        <4> QED BY <3>2, ReadOne
      <3> HIDE DEF st, half, full, a, b
      <3>4. ReadAll(st, a \o b) = full
        BY <2>3, <3>1, <3>3, ReadNext
      <3> QED BY <1>1, <3>4, Zenon DEF st, full, a, b
    <2>5. IsList(split)
      <3> HIDE DEF a, b
      <3>1. IsList(a \o b)
        BY <2>3, ListsJoin
      <3> QED BY <3>1, Zenon DEF a, b
    <2> HIDE DEF split, a, b
    <2> QED BY <2>4, <2>5, Zenon DEF Spells
  <1>4. Spells(odd, resolved)
    <2> DEFINE event == Ref(unknown)
               t == ResolveEntityRef(unknown)
               begun == <<>>
    <2>1. IsList(odd)
      BY ListOfOne
    <2>2. ASSUME NEW outer, NEW items, NEW done, NEW field, TextCounts(items, field)
          PROVE  ReadAll(Collecting(outer, items, field, begun, done), odd)
                   = Collecting(outer, items, field, begun \o t, done)
      <3> HIDE DEF begun, t
      <3>1. ResolveEntityRef(unknown) = t
        BY DEF t
      <3>2. Read(Collecting(outer, items, field, begun, done), event) = Collecting(outer, items, field, begun \o t, done)
        BY <2>2, <3>1, FragmentReads
      <3> QED BY <3>2, ReadOne
    <2> HIDE DEF odd
    <2> QED BY <2>1, <2>2, Zenon DEF Spells
  <1> DEFINE one == Append(<<>>, read(s))
             two == Append(one, read(resolved))
             three == Append(two, read(s))
             items == item(split) \o item(odd) \o item(known)
             begun == Between(open, None, <<>>)
             full == Between(open, None, three)
             closed == Between(<<>>, None, three)
  <1>5. Opens(<<>>, <<"channel">>, open) /\ IsList(open)
    <2>1. Opens(<<>>, <<"channel">>, open)
      BY ListOfNone DEF Opens
    <2> HIDE DEF open
    <2> QED BY <2>1, OpeningIs
  <1> HIDE DEF left, right, split, known, odd, resolved, open
  <1>6. ASSUME NEW events, NEW t, NEW done, Spells(events, t)
        PROVE  /\ IsList(item(events))
               /\ ReadAll(Between(open, None, done), item(events)) = Between(open, None, Append(done, read(t)))
               /\ read(t).title = Trim(t)
    BY <1>5, <1>6, TitledReads
  <1> HIDE DEF item, read
  <1>7. /\ IsList(item(split)) /\ ReadAll(begun, item(split)) = Between(open, None, one)
        /\ IsList(item(odd)) /\ ReadAll(Between(open, None, one), item(odd)) = Between(open, None, two)
        /\ IsList(item(known)) /\ ReadAll(Between(open, None, two), item(known)) = full
        /\ read(s).title = Trim(s)
    <2> HIDE DEF one, two, three
    <2>1. IsList(item(split)) /\ ReadAll(begun, item(split)) = Between(open, None, one) /\ read(s).title = Trim(s)
      BY <1>3, <1>6, Zenon DEF one
    <2>2. IsList(item(odd)) /\ ReadAll(Between(open, None, one), item(odd)) = Between(open, None, two)
      BY <1>4, <1>6, Zenon DEF two
    <2>3. IsList(item(known)) /\ ReadAll(Between(open, None, two), item(known)) = full
      BY <1>2, <1>6, Zenon DEF three
    <2> QED BY <2>1, <2>2, <2>3
  <1>8. IsList(items) /\ ReadAll(begun, items) = full
    <2> DEFINE x == item(split)
               y == item(odd)
               z == item(known)
               xx == Between(open, None, one)
               yy == Between(open, None, two)
    <2>1. /\ IsList(x) /\ ReadAll(begun, x) = xx /\ IsList(y) /\ ReadAll(xx, y) = yy
          /\ IsList(z) /\ ReadAll(yy, z) = full
      BY <1>7
    <2> HIDE DEF x, y, z, xx, yy, begun, full
    <2> DEFINE xy == x \o y
    <2>2. IsList(xy) /\ ReadAll(begun, xy) = yy
      BY <2>1, ReadNext
    <2> HIDE DEF xy
    <2>3. IsList(xy \o z) /\ ReadAll(begun, xy \o z) = full
      BY <2>1, <2>2, ReadNext
    <2> QED BY <2>3, Zenon DEF x, y, z, xy
  <1>9. Read(Begun, Start(<<"channel">>, NoAttrs)) = begun
    <2>1. Begun = Outside(<<>>)
      BY ChannelOpens
    <2> DEFINE none == <<>>
    <2>2. Read(Outside(none), Start(<<"channel">>, NoAttrs)) = begun
      <3>1. Opens(none, <<"channel">>, open)
        BY <1>5
      <3> HIDE DEF none
      <3> QED BY <3>1, ChannelOpens
    <2> QED BY <2>1, <2>2, Zenon DEF none
  <1>10. Read(full, End(<<"channel">>)) = closed
    <2> DEFINE none == <<>>
               name == "channel"
    <2>1. Opens(none, <<name>>, open) /\ name # "item"
      BY <1>5
    <2> HIDE DEF none, name, three
    <2>2. Read(Between(open, None, three), End(<<name>>)) = Between(none, None, three)
      BY <2>1, ChannelCloses
    <2> QED BY <2>2, Zenon DEF none, name
  <1>11. closed.ok /\ closed.channel /\ closed.releases = three
    <2> DEFINE none == <<>>
               no == ""
               nothing == None
               st == Collecting(none, nothing, no, none, three)
    <2>1. closed = st
      BY Zenon DEF Between
    <2> HIDE DEF none, no, nothing, three, closed
    <2>2. st.ok /\ st.releases = three
      BY StatesAre
    <2>3. st.channel
      BY DEF Collecting, State, Yes
    <2> HIDE DEF st
    <2> QED BY <2>1, <2>2, <2>3
  <1>12. Len(three) = 3 /\ three[1].title = Trim(s) /\ three[3].title = Trim(s)
    <2> DEFINE p == read(s)
               q == read(resolved)
    <2>1. p.title = Trim(s)
      BY <1>7
    <2>2. three = Append(Append(Append(<<>>, p), q), p)
      BY Zenon DEF three, two, one, p, q
    <2> HIDE DEF p, q, three, two, one
    <2>3. three = <<p, q, p>>
      BY <2>2, ThreeAppended, Zenon
    <2>4. Len(<<p, q, p>>) = 3 /\ <<p, q, p>>[1] = p /\ <<p, q, p>>[3] = p
      OBVIOUS
    <2> QED BY <2>1, <2>3, <2>4
  <1> DEFINE feed == Inside("channel", items)
             parsed == ParseFeed(feed)
  <1> HIDE DEF items, begun, full, closed, three
  <1>13. ReadAll(Begun, feed) = closed
    BY <1>8, <1>9, <1>10, InsideReads
  <1> HIDE DEF feed
  <1>14. parsed = [ok |-> TRUE, releases |-> three]
    BY <1>11, <1>13, Zenon DEF ParseFeed
  <1>15. parsed.ok /\ parsed.releases = three
    BY <1>14
  <1> HIDE DEF parsed
  <1> QED BY <1>12, <1>15, Zenon DEF TextIsWhole, parsed, feed, items, item, split, known, odd, left, right

-----------------------------------------------------------------------------
(***************************************************************************)
(* The children of an item in any order.                                   *)
(***************************************************************************)
ItemFields == DOMAIN ItemAcc
IsItem(item) == item = [f \in ItemFields |-> item[f]]

\* A child is an element with a text, known or not, an enclosure or an attr;
\* value is the text, or the attributes of the enclosure.
IsChild(c) ==
    \/ c.is = "element" /\ c.name \notin {"channel", "item", "enclosure", "attr"} /\ IsList(c.value)
    \/ c.is \in {"enclosure", "attr"}
Child(c) ==
    CASE c.is = "element" -> Element(c.name, c.value)
      [] c.is = "enclosure" -> <<Empty(<<"enclosure">>, c.value)>>
      [] OTHER -> Attr(c.name, c.value)

\* What the child names: the fields of the item it fills.
Fills(c) ==
    CASE c.is = "element" -> IF c.name \in DOMAIN TextFields THEN {TextFields[c.name]} ELSE {}
      [] c.is = "enclosure" -> {"enclosure_url", "enclosure_length"}
      [] OTHER -> IF c.name \in DOMAIN Counted THEN {Counted[c.name]}
                  ELSE IF c.name \in DOMAIN Spelled THEN {Spelled[c.name]}
                  ELSE IF c.name = "category" THEN {"categories"} ELSE {}

\* The item once the child is read.
Received(c, item) ==
    CASE c.is = "element" -> IF c.name \in DOMAIN TextFields THEN CommitField(item, TextFields[c.name], c.value) ELSE item
      [] c.is = "enclosure" -> ApplyEnclosure(item, c.value)
      [] OTHER -> ApplyTorznabAttr(item, c.name, c.value)

LEMMA ChildTurns ==
    ASSUME NEW c, IsChild(c), NEW open, IsList(open), NEW done, NEW item
    PROVE  Turns(open, done, item, Child(c), Received(c, item))
  <1> DEFINE name == c.name
             value == c.value
             next == Received(c, item)
  <1>1. CASE c.is = "element" /\ name \in DOMAIN TextFields
    <2>1. next = CommitField(item, TextFields[name], value) /\ Child(c) = Element(name, value) /\ IsList(value)
      BY <1>1 DEF Received, Child, IsChild
    <2> HIDE DEF name, value, next
    <2>2. Turns(open, done, item, Element(name, value), next)
      BY <1>1, <2>1, FieldTurns
    <2> QED BY <2>1, <2>2 DEF next
  <1>2. CASE c.is = "element" /\ name \notin DOMAIN TextFields
    <2>1. next = item /\ Child(c) = Element(name, value) /\ IsList(value)
      BY <1>2 DEF Received, Child, IsChild
    <2>2. name \notin {"channel", "item", "enclosure", "attr"}
      BY <1>2 DEF IsChild
    <2> DEFINE items == <<item>>
    <2> HIDE DEF name, value, next, items
    <2>3. IsList(Element(name, value)) /\ ReadAll(Between(open, items, done), Element(name, value)) = Between(open, items, done)
      BY <1>2, <2>1, <2>2, IgnoredReads
    <2>4. Turns(open, done, item, Element(name, value), item)
      BY <2>3, Zenon DEF Turns, items
    <2> QED BY <2>1, <2>4 DEF next
  <1>3. CASE c.is = "enclosure"
    <2>1. next = ApplyEnclosure(item, value)
      BY <1>3 DEF Received
    <2>2. Child(c) = <<Empty(<<"enclosure">>, value)>>
      BY <1>3 DEF Child
    <2> HIDE DEF value, next
    <2>3. Turns(open, done, item, <<Empty(<<"enclosure">>, value)>>, next)
      BY <2>1, EnclosureTurns
    <2> QED BY <2>2, <2>3, Zenon DEF next
  <1>4. CASE c.is = "attr"
    <2>1. next = ApplyTorznabAttr(item, name, value)
      BY <1>4 DEF Received
    <2>2. Child(c) = Attr(name, value)
      BY <1>4 DEF Child
    <2> HIDE DEF name, value, next
    <2>3. Turns(open, done, item, Attr(name, value), next)
      BY <2>1, AttrTurns
    <2> QED BY <2>2, <2>3, Zenon DEF next
  <1> QED BY <1>1, <1>2, <1>3, <1>4 DEF IsChild

LEMMA ItemChanges ==
    ASSUME NEW item, IsItem(item), NEW g \in ItemFields, NEW v
    PROVE  LET next == [item EXCEPT ![g] = v]
           IN IsItem(next) /\ next[g] = v /\ \A f \in ItemFields : f # g => next[f] = item[f]
  <1> DEFINE next == [item EXCEPT ![g] = v]
  <1>1. DOMAIN item = ItemFields
    BY DEF IsItem
  <1>2. next = [f \in ItemFields |-> IF f = g THEN v ELSE item[f]]
    BY <1>1
  <1> HIDE DEF next
  <1>3. IsItem(next)
    BY <1>2 DEF IsItem
  <1>4. next[g] = v /\ \A f \in ItemFields : f # g => next[f] = item[f]
    BY <1>2
  <1> QED BY <1>3, <1>4 DEF next

LEMMA FillsFields ==
    /\ \A n \in DOMAIN TextFields : TextFields[n] \in ItemFields
    /\ \A n \in DOMAIN Counted : Counted[n] \in ItemFields
    /\ \A n \in DOMAIN Spelled : Spelled[n] \in ItemFields
    /\ {"title", "size_override", "enclosure_url", "enclosure_length", "categories"} \subseteq ItemFields
    /\ IsItem(ItemAcc)
  <1>1. ItemFields = {"title", "guid", "comments", "link", "pub_date", "enclosure_url", "enclosure_length",
                      "size_override", "seeders", "peers", "grabs", "info_hash", "magnet_url", "categories",
                      "download_volume_factor", "upload_volume_factor"}
    BY DEF ItemFields, ItemAcc
  <1>2. \A n \in DOMAIN TextFields : TextFields[n] \in ItemFields
    BY <1>1 DEF TextFields
  <1>3. \A n \in DOMAIN Counted : Counted[n] \in ItemFields
    BY <1>1 DEF Counted
  <1>4. \A n \in DOMAIN Spelled : Spelled[n] \in ItemFields
    BY <1>1 DEF Spelled
  <1>5. {"title", "size_override", "enclosure_url", "enclosure_length", "categories"} \subseteq ItemFields
    BY <1>1
  <1>6. IsItem(ItemAcc)
    BY DEF IsItem, ItemFields, ItemAcc
  <1> QED BY <1>2, <1>3, <1>4, <1>5, <1>6

\* What next differs from item in is one of `fields`, and what it holds there
\* depends on what item held there alone: other goes to beside likewise.
Local(fields, item, other, next, beside) ==
    /\ IsItem(next) /\ IsItem(beside)
    /\ \A f \in ItemFields \ fields : next[f] = item[f] /\ beside[f] = other[f]
    /\ \A f \in ItemFields : item[f] = other[f] => next[f] = beside[f]

LEMMA LocalChange ==
    ASSUME NEW item, NEW other, IsItem(item), IsItem(other), NEW g \in ItemFields, NEW v, NEW w,
           item[g] = other[g] => v = w
    PROVE  Local({g}, item, other, [item EXCEPT ![g] = v], [other EXCEPT ![g] = w])
  <1> DEFINE next == [item EXCEPT ![g] = v]
             beside == [other EXCEPT ![g] = w]
  <1>1. IsItem(next) /\ next[g] = v /\ \A f \in ItemFields : f # g => next[f] = item[f]
    BY ItemChanges
  <1>2. IsItem(beside) /\ beside[g] = w /\ \A f \in ItemFields : f # g => beside[f] = other[f]
    BY ItemChanges
  <1> HIDE DEF next, beside
  <1>3. ASSUME NEW f \in ItemFields, item[f] = other[f] PROVE next[f] = beside[f]
    <2>1. CASE f = g
      BY <1>1, <1>2, <1>3, <2>1
    <2>2. CASE f # g
      BY <1>1, <1>2, <1>3, <2>2
    <2> QED BY <2>1, <2>2
  <1>4. \A f \in ItemFields \ {g} : next[f] = item[f] /\ beside[f] = other[f]
    BY <1>1, <1>2
  <1>5. Local({g}, item, other, next, beside)
    BY <1>1, <1>2, <1>3, <1>4 DEF Local
  <1> QED BY <1>5 DEF next, beside

LEMMA LocalSet ==
    ASSUME NEW item, NEW other, IsItem(item), IsItem(other), NEW g \in ItemFields, NEW v
    PROVE  Local({g}, item, other, [item EXCEPT ![g] = v], [other EXCEPT ![g] = v])
  <1> DEFINE w == v
  <1>1. item[g] = other[g] => v = w
    OBVIOUS
  <1> HIDE DEF w
  <1>2. Local({g}, item, other, [item EXCEPT ![g] = v], [other EXCEPT ![g] = w])
    BY <1>1, LocalChange
  <1> QED BY <1>2 DEF w

LEMMA LocalNone ==
    ASSUME NEW item, NEW other, IsItem(item), IsItem(other), NEW fields
    PROVE  Local(fields, item, other, item, other)
  BY DEF Local

LEMMA NamesOfAttrs ==
    ASSUME NEW item, NEW name, NEW value
    PROVE  /\ name \in DOMAIN Counted => ApplyTorznabAttr(item, name, value) = [item EXCEPT ![Counted[name]] = Parsed(value)]
           /\ name \in DOMAIN Spelled => ApplyTorznabAttr(item, name, value) = [item EXCEPT ![Spelled[name]] = <<value>>]
           /\ name \notin DOMAIN Counted /\ name \notin DOMAIN Spelled /\ name # "category" =>
                 ApplyTorznabAttr(item, name, value) = item
  <1>1. /\ DOMAIN Counted = {"seeders", "peers", "grabs", "size", "downloadvolumefactor", "uploadvolumefactor"}
        /\ DOMAIN Spelled = {"infohash", "magneturl"}
    BY DEF Counted, Spelled
  <1>2. name \in DOMAIN Counted => ApplyTorznabAttr(item, name, value) = [item EXCEPT ![Counted[name]] = Parsed(value)]
    BY <1>1 DEF ApplyTorznabAttr
  <1>3. name \in DOMAIN Spelled => ApplyTorznabAttr(item, name, value) = [item EXCEPT ![Spelled[name]] = <<value>>]
    BY <1>1 DEF ApplyTorznabAttr
  <1>4. name \notin DOMAIN Counted /\ name \notin DOMAIN Spelled /\ name # "category" =>
           ApplyTorznabAttr(item, name, value) = item
    BY DEF ApplyTorznabAttr
  <1> QED BY <1>2, <1>3, <1>4

LEMMA CommitIsLocal ==
    ASSUME NEW item, NEW other, IsItem(item), IsItem(other), NEW g \in ItemFields, NEW raw
    PROVE  Local({g}, item, other, CommitField(item, g, raw), CommitField(other, g, raw))
  <1> DEFINE value == Trim(raw)
             read == Parsed(value)
             some == <<value>>
  <1>1. CASE g = "title"
    <2>1. CommitField(item, g, raw) = [item EXCEPT ![g] = value] /\ CommitField(other, g, raw) = [other EXCEPT ![g] = value]
      BY <1>1 DEF CommitField
    <2> HIDE DEF value
    <2>2. Local({g}, item, other, [item EXCEPT ![g] = value], [other EXCEPT ![g] = value])
      BY LocalSet
    <2> QED BY <2>1, <2>2, Zenon
  <1>2. CASE g = "size_override"
    <2>1. CommitField(item, g, raw) = [item EXCEPT ![g] = read] /\ CommitField(other, g, raw) = [other EXCEPT ![g] = read]
      BY <1>2 DEF CommitField
    <2> HIDE DEF read
    <2>2. Local({g}, item, other, [item EXCEPT ![g] = read], [other EXCEPT ![g] = read])
      BY LocalSet
    <2> QED BY <2>1, <2>2, Zenon
  <1>3. CASE g \notin {"title", "size_override"} /\ value = <<>>
    <2>1. CommitField(item, g, raw) = item /\ CommitField(other, g, raw) = other
      BY <1>3 DEF CommitField
    <2> QED BY <2>1, LocalNone
  <1>4. CASE g \notin {"title", "size_override"} /\ value # <<>>
    <2>1. CommitField(item, g, raw) = [item EXCEPT ![g] = some] /\ CommitField(other, g, raw) = [other EXCEPT ![g] = some]
      BY <1>4 DEF CommitField
    <2> HIDE DEF some
    <2>2. Local({g}, item, other, [item EXCEPT ![g] = some], [other EXCEPT ![g] = some])
      BY LocalSet
    <2> QED BY <2>1, <2>2, Zenon
  <1> QED BY <1>1, <1>2, <1>3, <1>4

LEMMA AttrIsLocal ==
    ASSUME NEW item, NEW other, IsItem(item), IsItem(other), NEW c, c.is = "attr"
    PROVE  Local(Fills(c), item, other, ApplyTorznabAttr(item, c.name, c.value), ApplyTorznabAttr(other, c.name, c.value))
  <1> DEFINE name == c.name
             value == c.value
             read == Parsed(value)
             some == <<value>>
  <1>1. Fills(c) = IF name \in DOMAIN Counted THEN {Counted[name]}
                   ELSE IF name \in DOMAIN Spelled THEN {Spelled[name]}
                   ELSE IF name = "category" THEN {"categories"} ELSE {}
    BY DEF Fills
  <1> HIDE DEF name, value
  <1>2. CASE name \in DOMAIN Counted
    <2> DEFINE g == Counted[name]
    <2>1. Fills(c) = {g} /\ g \in ItemFields
      BY <1>1, <1>2, FillsFields
    <2>2. ApplyTorznabAttr(item, name, value) = [item EXCEPT ![g] = read] /\ ApplyTorznabAttr(other, name, value) = [other EXCEPT ![g] = read]
      BY <1>2, NamesOfAttrs
    <2> HIDE DEF g, read
    <2>3. Local({g}, item, other, [item EXCEPT ![g] = read], [other EXCEPT ![g] = read])
      BY <2>1, LocalSet
    <2> QED BY <2>1, <2>2, <2>3, Zenon DEF name, value
  <1>3. CASE name \notin DOMAIN Counted /\ name \in DOMAIN Spelled
    <2> DEFINE g == Spelled[name]
    <2>1. Fills(c) = {g} /\ g \in ItemFields
      BY <1>1, <1>3, FillsFields
    <2>2. ApplyTorznabAttr(item, name, value) = [item EXCEPT ![g] = some] /\ ApplyTorznabAttr(other, name, value) = [other EXCEPT ![g] = some]
      BY <1>3, NamesOfAttrs
    <2> HIDE DEF g, some
    <2>3. Local({g}, item, other, [item EXCEPT ![g] = some], [other EXCEPT ![g] = some])
      BY <2>1, LocalSet
    <2> QED BY <2>1, <2>2, <2>3, Zenon DEF name, value
  <1>4. CASE name \notin DOMAIN Counted /\ name \notin DOMAIN Spelled /\ name = "category"
    <2> DEFINE g == "categories"
               v == item[g] \o read
               w == other[g] \o read
    <2>1. Fills(c) = {g} /\ g \in ItemFields
      BY <1>1, <1>4, FillsFields
    <2>2. ApplyTorznabAttr(item, name, value) = [item EXCEPT ![g] = v] /\ ApplyTorznabAttr(other, name, value) = [other EXCEPT ![g] = w]
      BY <1>4, AttrIs
    <2>3. item[g] = other[g] => v = w
      OBVIOUS
    <2> HIDE DEF g, v, w
    <2> QED BY <2>1, <2>2, <2>3, LocalChange DEF name, value
  <1>5. CASE name \notin DOMAIN Counted /\ name \notin DOMAIN Spelled /\ name # "category"
    <2>1. ApplyTorznabAttr(item, name, value) = item /\ ApplyTorznabAttr(other, name, value) = other
      BY <1>5 DEF ApplyTorznabAttr
    <2> QED BY <2>1, LocalNone DEF name, value
  <1> QED BY <1>2, <1>3, <1>4, <1>5

LEMMA EnclosureIsLocal ==
    ASSUME NEW item, NEW other, IsItem(item), IsItem(other), NEW attrs
    PROVE  Local({"enclosure_url", "enclosure_length"}, item, other, ApplyEnclosure(item, attrs), ApplyEnclosure(other, attrs))
  <1> DEFINE g == "enclosure_url"
             h == "enclosure_length"
             url == IF "url" \in DOMAIN attrs THEN <<attrs["url"]>> ELSE None
             length == IF (IF "length" \in DOMAIN attrs THEN <<attrs["length"]>> ELSE None) = None THEN None ELSE Parsed(attrs["length"])
             half == [item EXCEPT ![g] = url]
             beside == [other EXCEPT ![g] = url]
             next == [half EXCEPT ![h] = length]
             besides == [beside EXCEPT ![h] = length]
  <1>1. ApplyEnclosure(item, attrs) = next /\ ApplyEnclosure(other, attrs) = besides
    BY Zenon DEF ApplyEnclosure
  <1>2. g \in ItemFields /\ h \in ItemFields
    BY FillsFields
  <1> HIDE DEF g, h, url, length
  <1>3. Local({g}, item, other, half, beside)
    BY <1>2, LocalSet
  <1> HIDE DEF half, beside
  <1>4. IsItem(half) /\ IsItem(beside)
    BY <1>3 DEF Local
  <1>5. Local({h}, half, beside, next, besides)
    BY <1>2, <1>4, LocalSet
  <1> HIDE DEF next, besides
  <1>6. Local({g, h}, item, other, next, besides)
    BY <1>3, <1>5 DEF Local
  <1> QED BY <1>1, <1>6 DEF g, h

LEMMA ReceivedIsLocal ==
    ASSUME NEW item, NEW other, IsItem(item), IsItem(other), NEW c, IsChild(c)
    PROVE  Local(Fills(c), item, other, Received(c, item), Received(c, other))
  <1>1. CASE c.is = "element" /\ c.name \in DOMAIN TextFields
    <2> DEFINE g == TextFields[c.name]
               raw == c.value
    <2>1. Fills(c) = {g} /\ g \in ItemFields
      BY <1>1, FillsFields DEF Fills
    <2>2. Received(c, item) = CommitField(item, g, raw) /\ Received(c, other) = CommitField(other, g, raw)
      BY <1>1 DEF Received
    <2> HIDE DEF g, raw
    <2> QED BY <2>1, <2>2, CommitIsLocal
  <1>2. CASE c.is = "element" /\ c.name \notin DOMAIN TextFields
    <2>1. Received(c, item) = item /\ Received(c, other) = other
      BY <1>2 DEF Received
    <2> QED BY <2>1, LocalNone
  <1>3. CASE c.is = "enclosure"
    <2> DEFINE attrs == c.value
    <2>1. Fills(c) = {"enclosure_url", "enclosure_length"}
      BY <1>3 DEF Fills
    <2>2. Received(c, item) = ApplyEnclosure(item, attrs) /\ Received(c, other) = ApplyEnclosure(other, attrs)
      BY <1>3 DEF Received
    <2> HIDE DEF attrs
    <2> QED BY <2>1, <2>2, EnclosureIsLocal
  <1>4. CASE c.is = "attr"
    <2>1. /\ Received(c, item) = ApplyTorznabAttr(item, c.name, c.value)
          /\ Received(c, other) = ApplyTorznabAttr(other, c.name, c.value)
      BY <1>4 DEF Received
    <2> QED BY <1>4, <2>1, AttrIsLocal
  <1> QED BY <1>1, <1>2, <1>3, <1>4 DEF IsChild

\* No two children name the same thing.
NamedApart(said) == \A i, j \in DOMAIN said : i # j => Fills(said[i]) \cap Fills(said[j]) = {}

\* The item after the first n children: each field is as the child left it
\* that fills it.
FillsAt(said, n, f, j) == j \in 1..n /\ f \in Fills(said[j])
ItemOf(said, n) ==
    [f \in ItemFields |->
        IF \E j : FillsAt(said, n, f, j) THEN Received(said[CHOOSE j : FillsAt(said, n, f, j)], ItemAcc)[f] ELSE ItemAcc[f]]

LEMMA ItemOfIs ==
    ASSUME NEW said, IsList(said), NamedApart(said), NEW n \in 0..Len(said)
    PROVE  /\ IsItem(ItemOf(said, n))
           /\ \A f \in ItemFields : \A j : FillsAt(said, n, f, j) => ItemOf(said, n)[f] = Received(said[j], ItemAcc)[f]
           /\ \A f \in ItemFields : (\A j : ~FillsAt(said, n, f, j)) => ItemOf(said, n)[f] = ItemAcc[f]
  <1> DEFINE item == ItemOf(said, n)
             at(f) == CHOOSE j : FillsAt(said, n, f, j)
  <1>1. item = [f \in ItemFields |-> IF \E j : FillsAt(said, n, f, j) THEN Received(said[at(f)], ItemAcc)[f] ELSE ItemAcc[f]]
    BY DEF ItemOf
  <1>2. IsItem(item)
    <2> HIDE DEF at, item
    <2> QED BY <1>1 DEF IsItem
  <1>3. \A f \in ItemFields : item[f] = IF \E j : FillsAt(said, n, f, j) THEN Received(said[at(f)], ItemAcc)[f] ELSE ItemAcc[f]
    <2> HIDE DEF at, item
    <2> QED BY <1>1
  <1>4. ASSUME NEW f \in ItemFields, NEW j, FillsAt(said, n, f, j)
        PROVE  item[f] = Received(said[j], ItemAcc)[f]
    <2>1. FillsAt(said, n, f, at(f))
      BY <1>4, Zenon
    <2> HIDE DEF at, item
    <2>2. DOMAIN said = 1..Len(said) /\ Len(said) \in Nat
      BY ListIs
    <2>3. j \in DOMAIN said /\ at(f) \in DOMAIN said /\ f \in Fills(said[j]) /\ f \in Fills(said[at(f)])
      BY <1>4, <2>1, <2>2 DEF FillsAt
    <2>4. at(f) = j
      BY <2>3 DEF NamedApart
    <2> QED BY <1>3, <1>4, <2>4, Zenon
  <1>5. ASSUME NEW f \in ItemFields, \A j : ~FillsAt(said, n, f, j)
        PROVE  item[f] = ItemAcc[f]
    <2> HIDE DEF at, item
    <2> QED BY <1>3, <1>5, Zenon
  <1> HIDE DEF item
  <1> QED BY <1>2, <1>4, <1>5 DEF item

LEMMA ItemsAreOne ==
    ASSUME NEW a, NEW b, IsItem(a), IsItem(b), \A f \in ItemFields : a[f] = b[f]
    PROVE  a = b
  <1>1. a = [f \in ItemFields |-> a[f]] /\ b = [f \in ItemFields |-> b[f]]
    BY Zenon DEF IsItem
  <1>2. [f \in ItemFields |-> a[f]] = [f \in ItemFields |-> b[f]]
    OBVIOUS
  <1> QED BY <1>1, <1>2, Zenon

LEMMA ItemOfNone ==
    ASSUME NEW said
    PROVE  ItemOf(said, 0) = ItemAcc
  <1>1. \A f, j : ~FillsAt(said, 0, f, j)
    BY DEF FillsAt
  <1>2. ItemOf(said, 0) = [f \in ItemFields |-> ItemAcc[f]]
    BY <1>1, Zenon DEF ItemOf
  <1>3. IsItem(ItemAcc)
    BY FillsFields
  <1> QED BY <1>2, <1>3, Zenon DEF IsItem

LEMMA ItemOfNext ==
    ASSUME NEW said, IsList(said), NamedApart(said), NEW i \in 1..Len(said), IsChild(said[i])
    PROVE  Received(said[i], ItemOf(said, i - 1)) = ItemOf(said, i)
  <1> DEFINE before == ItemOf(said, i - 1)
             after == ItemOf(said, i)
             c == said[i]
             next == Received(c, before)
  <1>1. Len(said) \in Nat /\ DOMAIN said = 1..Len(said)
    BY ListIs
  <1>2. i - 1 \in 0..Len(said) /\ i \in 0..Len(said) /\ i \in DOMAIN said
    BY <1>1
  <1>3. /\ IsItem(before)
        /\ \A f \in ItemFields : \A j : FillsAt(said, i - 1, f, j) => before[f] = Received(said[j], ItemAcc)[f]
        /\ \A f \in ItemFields : (\A j : ~FillsAt(said, i - 1, f, j)) => before[f] = ItemAcc[f]
    BY <1>2, ItemOfIs
  <1>4. /\ IsItem(after)
        /\ \A f \in ItemFields : \A j : FillsAt(said, i, f, j) => after[f] = Received(said[j], ItemAcc)[f]
        /\ \A f \in ItemFields : (\A j : ~FillsAt(said, i, f, j)) => after[f] = ItemAcc[f]
    BY <1>2, ItemOfIs
  <1>5. IsItem(ItemAcc)
    BY FillsFields
  <1> HIDE DEF before, after, c
  <1>6. Local(Fills(c), before, ItemAcc, next, Received(c, ItemAcc))
    BY <1>3, <1>5, ReceivedIsLocal DEF c
  <1> HIDE DEF next
  <1>7. \A f, j : FillsAt(said, i, f, j) <=> FillsAt(said, i - 1, f, j) \/ (j = i /\ f \in Fills(c))
    BY <1>1 DEF FillsAt, c
  <1>8. ASSUME NEW f \in ItemFields PROVE next[f] = after[f]
    <2>1. CASE f \in Fills(c)
      <3>1. ASSUME NEW j PROVE ~FillsAt(said, i - 1, f, j)
        <4>1. SUFFICES ASSUME FillsAt(said, i - 1, f, j) PROVE FALSE
          OBVIOUS
        <4>2. j \in DOMAIN said /\ j # i /\ f \in Fills(said[j])
          BY <1>1, <4>1 DEF FillsAt
        <4> QED BY <1>2, <2>1, <4>2 DEF NamedApart, c
      <3>2. before[f] = ItemAcc[f]
        BY <1>3, <3>1
      <3>3. next[f] = Received(c, ItemAcc)[f]
        BY <1>6, <3>2 DEF Local
      <3>4. FillsAt(said, i, f, i)
        BY <1>7, <2>1
      <3>5. after[f] = Received(said[i], ItemAcc)[f]
        BY <1>4, <3>4
      <3> QED BY <3>3, <3>5 DEF c
    <2>2. CASE f \notin Fills(c)
      <3>1. next[f] = before[f]
        BY <1>6, <2>2 DEF Local
      <3>2. \A j : FillsAt(said, i, f, j) <=> FillsAt(said, i - 1, f, j)
        BY <1>7, <2>2
      <3>3. before[f] = after[f]
        <4>1. CASE \E j : FillsAt(said, i, f, j)
          BY <1>3, <1>4, <3>2, <4>1, Zenon
        <4>2. CASE \A j : ~FillsAt(said, i, f, j)
          BY <1>3, <1>4, <3>2, <4>2, Zenon
        <4> QED BY <4>1, <4>2
      <3> QED BY <3>1, <3>3
    <2> QED BY <2>1, <2>2
  <1>9. IsItem(next)
    BY <1>6 DEF Local
  <1>10. next = after
    BY <1>4, <1>8, <1>9, ItemsAreOne
  <1> QED BY <1>10, Zenon DEF next, before, after, c

\* The children of an item, read in the order they come in.
LEMMA ChildrenRead ==
    ASSUME NEW said, IsList(said), NamedApart(said), \A i \in DOMAIN said : IsChild(said[i]),
           NEW open, IsList(open), NEW done
    PROVE  Turns(open, done, ItemAcc, Glue([i \in DOMAIN said |-> Child(said[i])]), ItemOf(said, Len(said)))
  <1> DEFINE n == Len(said)
             parts == [i \in DOMAIN said |-> Child(said[i])]
             st == [i \in 0..n |-> Between(open, <<ItemOf(said, i)>>, done)]
             T == {Child(said[i]) : i \in DOMAIN said}
  <1>1. n \in Nat /\ DOMAIN said = 1..n
    BY ListIs
  <1>2. parts \in [1..n -> T] /\ \A i \in 1..n : parts[i] = Child(said[i])
    BY <1>1
  <1> HIDE DEF parts, T
  <1>3. parts \in Seq(T) /\ Len(parts) = n
    BY <1>1, <1>2
  <1>4. IsList(parts)
    BY <1>3, ListIs
  <1>5. \A i \in 0..n : st[i] = Between(open, <<ItemOf(said, i)>>, done)
    OBVIOUS
  <1> HIDE DEF st
  <1>6. \A i \in 1..Len(parts) : IsList(parts[i]) /\ ReadAll(st[i - 1], parts[i]) = st[i]
    <2> TAKE i \in 1..Len(parts)
    <2>1. i \in 1..Len(said) /\ i \in 0..n /\ i - 1 \in 0..n /\ i \in DOMAIN said
      BY <1>1, <1>3
    <2> DEFINE c == said[i]
               before == ItemOf(said, i - 1)
               after == ItemOf(said, i)
    <2>2. IsChild(c)
      BY <2>1
    <2>3. Received(c, before) = after
      BY <2>1, <2>2, ItemOfNext
    <2>4. parts[i] = Child(c)
      BY <1>1, <1>2, <2>1
    <2>5. st[i - 1] = Between(open, <<before>>, done) /\ st[i] = Between(open, <<after>>, done)
      BY <1>5, <2>1
    <2> HIDE DEF c, before, after
    <2>6. Turns(open, done, before, Child(c), Received(c, before))
      BY <2>2, ChildTurns
    <2> QED BY <2>3, <2>4, <2>5, <2>6, Zenon DEF Turns
  <1>7. IsList(Glue(parts)) /\ ReadAll(st[0], Glue(parts)) = st[Len(parts)]
    BY <1>4, <1>6, ReadGlued
  <1>8. st[0] = Between(open, <<ItemAcc>>, done) /\ st[Len(parts)] = Between(open, <<ItemOf(said, n)>>, done)
    <2>1. 0 \in 0..n /\ n \in 0..n
      BY <1>1
    <2> QED BY <1>3, <1>5, <2>1, ItemOfNone, Zenon
  <1> QED BY <1>7, <1>8, Zenon DEF parts, Turns

LEMMA LoneItemReads ==
    ASSUME NEW children, NEW item,
           \A open, done : IsList(open) => Turns(open, done, ItemAcc, Glue(children), item)
    PROVE  ParseFeed(Inside("rss", Inside("channel", Inside("item", Glue(children)))))
             = [ok |-> TRUE, releases |-> Append(<<>>, IntoRelease(item))]
  <1> DEFINE none == <<>>
             rss == <<"rss">>
             channel == <<"channel">>
             tag == <<"item">>
             outer == Append(none, rss)
             inner == Append(outer, channel)
             more == Append(inner, tag)
             releases == Append(none, IntoRelease(item))
             events == Glue(children)
             body == Inside("item", events)
             feed == Inside("channel", body)
             begun == Outside(outer)
             empty == Between(inner, None, none)
             opened == Between(more, <<ItemAcc>>, none)
             filled == Between(more, <<item>>, none)
             full == Between(inner, None, releases)
             closed == Between(outer, None, releases)
             done == Between(none, None, releases)
  <1>1. IsList(none)
    BY ListOfNone
  <1>2. Opens(none, rss, outer)
    BY <1>1 DEF Opens
  <1>3. IsList(outer)
    <2> HIDE DEF outer, none, rss
    <2> QED BY <1>2, OpeningIs
  <1>4. Opens(outer, channel, inner)
    BY <1>3 DEF Opens
  <1>5. IsList(inner)
    <2> HIDE DEF outer, inner, channel
    <2> QED BY <1>4, OpeningIs
  <1>6. Opens(inner, tag, more)
    BY <1>5 DEF Opens
  <1>7. IsList(more)
    <2> HIDE DEF inner, more, tag
    <2> QED BY <1>6, OpeningIs
  <1> HIDE DEF outer, inner, more
  <1>8. Read(Begun, Start(rss, NoAttrs)) = begun /\ Read(begun, Start(channel, NoAttrs)) = empty
    BY <1>2, <1>4, ChannelOpens
  <1>9. Read(empty, Start(tag, NoAttrs)) = opened /\ Read(filled, End(tag)) = full
    <2> HIDE DEF none
    <2> QED BY <1>6, ItemOpens, ItemCloses
  <1>10. IsList(events) /\ ReadAll(opened, events) = filled
    <2>1. Turns(more, none, ItemAcc, events, item)
      BY <1>7
    <2> QED BY <2>1, Zenon DEF Turns
  <1>11. Read(full, End(channel)) = closed /\ Read(closed, End(rss)) = done
    <2>1. "rss" # "item" /\ "channel" # "item"
      OBVIOUS
    <2> HIDE DEF releases
    <2>2. Read(full, End(channel)) = closed
      BY <1>4, <2>1, ChannelCloses
    <2>3. Read(closed, End(rss)) = done
      <3> HIDE DEF none
      <3> QED BY <1>2, <2>1, ChannelCloses
    <2> QED BY <2>2, <2>3
  <1>12. done.ok /\ done.channel /\ done.releases = releases
    <2> HIDE DEF none, releases
    <2>1. done.ok /\ done.releases = releases
      <3> DEFINE no == ""
                 nil == <<>>
                 nothing == None
                 st == Collecting(none, nothing, no, nil, releases)
      <3>1. done = st
        BY Zenon DEF Between
      <3> HIDE DEF no, nil, nothing
      <3>2. st.ok /\ st.releases = releases
        BY StatesAre
      <3> QED BY <3>1, <3>2
    <2>2. done.channel
      BY DEF Between, Collecting, State, Yes
    <2> QED BY <2>1, <2>2
  <1> HIDE DEF events, begun, empty, opened, filled, full, closed, done, releases
  <1>13. IsList(body) /\ ReadAll(empty, body) = full
    BY <1>9, <1>10, InsideReads
  <1> HIDE DEF body
  <1>14. IsList(feed) /\ ReadAll(begun, feed) = closed
    BY <1>8, <1>11, <1>13, InsideReads
  <1> HIDE DEF feed
  <1>15. ReadAll(Begun, Inside("rss", feed)) = done
    BY <1>8, <1>11, <1>14, InsideReads
  <1>16. ParseFeed(Inside("rss", feed)) = [ok |-> TRUE, releases |-> releases]
    BY <1>12, <1>15, Zenon DEF ParseFeed
  <1> QED BY <1>16, Zenon DEF feed, body, events, releases, none

\* The children of an item may come in any order: however many there are, known
\* to the reader or not, with whatever texts, as long as no two of them name
\* the same thing, parse_feed (rss.rs) reads the item the same from any two
\* orders, since what prefers what is settled when the item ends.
THEOREM ChildrenUnordered ==
    ASSUME NEW said, IsList(said), NamedApart(said), \A i \in DOMAIN said : IsChild(said[i]),
           NEW order \in [DOMAIN said -> DOMAIN said],
           \A i, j \in DOMAIN said : order[i] = order[j] => i = j,
           \A i \in DOMAIN said : \E k \in DOMAIN said : order[k] = i
    PROVE  ItemIsUnordered([i \in DOMAIN said |-> Child(said[i])], [i \in DOMAIN said |-> Child(said[order[i]])])
  <1> DEFINE n == Len(said)
             other == [i \in DOMAIN said |-> said[order[i]]]
             children == [i \in DOMAIN said |-> Child(said[i])]
             canonical == [i \in DOMAIN said |-> Child(said[order[i]])]
             others == [i \in DOMAIN other |-> Child(other[i])]
             item == ItemOf(said, n)
             same == ItemOf(other, n)
  <1>1. n \in Nat /\ DOMAIN said = 1..n /\ said \in Seq(ToSet(said))
    BY ListIs DEF IsList
  <1>2. DOMAIN other = 1..n /\ \A i \in 1..n : order[i] \in 1..n /\ other[i] = said[order[i]]
    BY <1>1
  <1>3. IsList(other) /\ Len(other) = n
    <2> DEFINE A == ToSet(said)
    <2>1. \A i \in 1..n : said[i] \in A
      BY <1>1 DEF ToSet
    <2> HIDE DEF A, n
    <2>2. other \in [1..n -> A]
      BY <1>1, <2>1
    <2> HIDE DEF other
    <2>3. other \in Seq(A) /\ Len(other) = n
      BY <1>1, <2>2
    <2> QED BY <2>3, ListIs
  <1>4. others = canonical
    BY <1>1, <1>2
  <1> HIDE DEF other
  <1>5. NamedApart(other) /\ \A i \in DOMAIN other : IsChild(other[i])
    <2>1. ASSUME NEW i \in 1..n, NEW j \in 1..n, i # j PROVE Fills(other[i]) \cap Fills(other[j]) = {}
      <3>1. order[i] \in DOMAIN said /\ order[j] \in DOMAIN said /\ order[i] # order[j]
        BY <1>1, <1>2, <2>1
      <3>2. Fills(said[order[i]]) \cap Fills(said[order[j]]) = {}
        BY <3>1 DEF NamedApart
      <3> QED BY <1>2, <3>2
    <2> QED BY <1>1, <1>2, <2>1 DEF NamedApart
  <1> HIDE DEF n
  <1>6. n \in 0..n
    BY <1>1
  <1>7. /\ IsItem(item)
        /\ \A f \in ItemFields : \A j : FillsAt(said, n, f, j) => item[f] = Received(said[j], ItemAcc)[f]
        /\ \A f \in ItemFields : (\A j : ~FillsAt(said, n, f, j)) => item[f] = ItemAcc[f]
    BY <1>6, ItemOfIs DEF n
  <1>8. /\ IsItem(same)
        /\ \A f \in ItemFields : \A j : FillsAt(other, n, f, j) => same[f] = Received(other[j], ItemAcc)[f]
        /\ \A f \in ItemFields : (\A j : ~FillsAt(other, n, f, j)) => same[f] = ItemAcc[f]
    BY <1>3, <1>5, <1>6, ItemOfIs
  <1>9. ASSUME NEW f \in ItemFields PROVE item[f] = same[f]
    <2> HIDE DEF item, same
    <2>1. CASE \E j : FillsAt(said, n, f, j)
      <3>1. PICK j : FillsAt(said, n, f, j)
        BY <2>1
      <3>2. j \in 1..n /\ f \in Fills(said[j])
        BY <3>1 DEF FillsAt
      <3>3. PICK k \in 1..n : order[k] = j
        BY <1>1, <3>2
      <3>4. other[k] = said[j]
        BY <1>2, <3>3
      <3>5. FillsAt(other, n, f, k)
        BY <3>2, <3>4 DEF FillsAt
      <3>6. item[f] = Received(said[j], ItemAcc)[f] /\ same[f] = Received(other[k], ItemAcc)[f]
        BY <1>7, <1>8, <3>1, <3>5
      <3> QED BY <3>4, <3>6
    <2>2. CASE \A j : ~FillsAt(said, n, f, j)
      <3>1. ASSUME NEW k, FillsAt(other, n, f, k) PROVE FALSE
        <4>1. k \in 1..n /\ f \in Fills(said[order[k]]) /\ order[k] \in 1..n
          BY <1>2, <3>1 DEF FillsAt
        <4> QED BY <2>2, <4>1 DEF FillsAt
      <3> QED BY <1>7, <1>8, <2>2, <3>1
    <2> QED BY <2>1, <2>2
  <1>10. item = same
    <2> HIDE DEF item, same
    <2> QED BY <1>7, <1>8, <1>9, ItemsAreOne
  <1>11. ASSUME NEW open, NEW done, IsList(open)
         PROVE  Turns(open, done, ItemAcc, Glue(children), item) /\ Turns(open, done, ItemAcc, Glue(canonical), item)
    <2>1. Turns(open, done, ItemAcc, Glue(children), item)
      BY <1>11, ChildrenRead DEF n
    <2>2. Turns(open, done, ItemAcc, Glue(others), ItemOf(other, Len(other)))
      BY <1>3, <1>5, <1>11, ChildrenRead
    <2>3. Turns(open, done, ItemAcc, Glue(canonical), item)
      BY <1>3, <1>4, <1>10, <2>2, Zenon
    <2> QED BY <2>1, <2>3
  <1> HIDE DEF children, canonical, item
  <1>12. ParseFeed(Inside("rss", Inside("channel", Inside("item", Glue(children)))))
           = [ok |-> TRUE, releases |-> Append(<<>>, IntoRelease(item))]
    BY <1>11, LoneItemReads
  <1>13. ParseFeed(Inside("rss", Inside("channel", Inside("item", Glue(canonical)))))
           = [ok |-> TRUE, releases |-> Append(<<>>, IntoRelease(item))]
    BY <1>11, LoneItemReads
  <1>14. ItemIsUnordered(children, canonical)
    BY <1>12, <1>13, Zenon DEF ItemIsUnordered
  <1> QED BY <1>14 DEF children, canonical

-----------------------------------------------------------------------------
(***************************************************************************)
(* The fields of a login form: what is laid over what.                     *)
(***************************************************************************)
LEMMA PlaceIs ==
    ASSUME NEW P, NEW s \in Seq(P), NEW t \in NamesIn(s)
    PROVE  /\ PlaceOf(s, t) \in 1..Len(s) /\ s[PlaceOf(s, t)][1] = t
           /\ \A k \in 1..Len(s) : s[k][1] = t => PlaceOf(s, t) <= k
  <1> DEFINE K == {i \in 1..Len(s) : s[i][1] = t}
  <1>1. DOMAIN s = 1..Len(s) /\ Len(s) \in Nat
    OBVIOUS
  <1>2. K \in SUBSET Nat /\ K # {}
    BY <1>1 DEF NamesIn
  <1>3. PICK i \in K : \A k \in K : i <= k
    BY <1>2, LeastOf
  <1>4. \E j \in DOMAIN s : s[j][1] = t /\ \A k \in DOMAIN s : s[k][1] = t => j <= k
    BY <1>1, <1>3
  <1> DEFINE p == PlaceOf(s, t)
  <1>5. p \in DOMAIN s /\ s[p][1] = t /\ \A k \in DOMAIN s : s[k][1] = t => p <= k
    BY <1>4, Zenon DEF PlaceOf
  <1> QED BY <1>1, <1>5

LEMMA PlaceIsOne ==
    ASSUME NEW P, NEW s \in Seq(P), NEW i \in 1..Len(s),
           \A k \in 1..Len(s) : s[k][1] = s[i][1] => i <= k
    PROVE  PlaceOf(s, s[i][1]) = i
  <1> DEFINE t == s[i][1]
  <1>1. DOMAIN s = 1..Len(s) /\ Len(s) \in Nat
    OBVIOUS
  <1>2. t \in NamesIn(s)
    BY <1>1 DEF NamesIn
  <1> DEFINE p == PlaceOf(s, t)
  <1>3. p \in 1..Len(s) /\ s[p][1] = t /\ \A k \in 1..Len(s) : s[k][1] = t => p <= k
    <2> HIDE DEF t
    <2> QED BY <1>2, PlaceIs
  <1> HIDE DEF p
  <1>4. i <= p /\ p <= i
    BY <1>3
  <1>5. p = i
    BY <1>1, <1>3, <1>4
  <1> QED BY <1>5 DEF p

LEMMA LastIs ==
    ASSUME NEW P, NEW s \in Seq(P), NEW t \in NamesIn(s)
    PROVE  \E i \in 1..Len(s) : /\ s[i][1] = t /\ LastSaid(s, t) = s[i][2]
                                /\ \A k \in 1..Len(s) : s[k][1] = t => k <= i
  <1> DEFINE n == Len(s)
             K == {j \in Nat : n - j \in 1..n /\ s[n - j][1] = t}
  <1>1. DOMAIN s = 1..n /\ n \in Nat
    OBVIOUS
  <1> HIDE DEF n
  <1>2. PICK i \in 1..n : s[i][1] = t
    BY <1>1 DEF NamesIn
  <1>3. n - i \in Nat /\ n - (n - i) = i
    BY <1>1
  <1>4. K \in SUBSET Nat /\ K # {}
    BY <1>2, <1>3
  <1>5. PICK j \in K : \A k \in K : j <= k
    BY <1>4, LeastOf
  <1>6. ASSUME NEW k \in 1..n, s[k][1] = t PROVE k <= n - j
    <2>1. n - k \in Nat /\ n - (n - k) = k
      BY <1>1
    <2>2. n - k \in K
      BY <1>6, <2>1
    <2>3. j <= n - k
      BY <1>5, <2>2
    <2> QED BY <1>1, <1>5, <2>3
  <1>7. \E m \in DOMAIN s : s[m][1] = t /\ \A k \in DOMAIN s : s[k][1] = t => k <= m
    BY <1>1, <1>5, <1>6
  <1> DEFINE m == CHOOSE m \in DOMAIN s : s[m][1] = t /\ \A k \in DOMAIN s : s[k][1] = t => k <= m
  <1>8. m \in DOMAIN s /\ s[m][1] = t /\ \A k \in DOMAIN s : s[k][1] = t => k <= m
    BY <1>7, Zenon
  <1>9. LastSaid(s, t) = s[m][2]
    BY Zenon DEF LastSaid
  <1> HIDE DEF m
  <1> QED BY <1>1, <1>8, <1>9 DEF n

LEMMA LastIsOne ==
    ASSUME NEW P, NEW s \in Seq(P), NEW i \in 1..Len(s),
           \A k \in 1..Len(s) : s[k][1] = s[i][1] => k <= i
    PROVE  LastSaid(s, s[i][1]) = s[i][2]
  <1> DEFINE t == s[i][1]
  <1>1. DOMAIN s = 1..Len(s) /\ Len(s) \in Nat
    OBVIOUS
  <1>2. t \in NamesIn(s)
    BY <1>1 DEF NamesIn
  <1>3. PICK m \in 1..Len(s) : /\ s[m][1] = t /\ LastSaid(s, t) = s[m][2]
                               /\ \A k \in 1..Len(s) : s[k][1] = t => k <= m
    <2> HIDE DEF t
    <2> QED BY <1>2, LastIs
  <1>4. m <= i /\ i <= m
    BY <1>3
  <1>5. m = i
    BY <1>1, <1>4
  <1> QED BY <1>3, <1>5

LEMMA NamesJoin ==
    ASSUME NEW P, NEW a \in Seq(P), NEW b \in Seq(P)
    PROVE  /\ a \o b \in Seq(P) /\ Len(a \o b) = Len(a) + Len(b)
           /\ \A i \in 1..Len(a) : (a \o b)[i] = a[i]
           /\ \A i \in 1..Len(b) : (a \o b)[Len(a) + i] = b[i]
           /\ \A k \in 1..Len(a \o b) : k \in 1..Len(a) \/ (k - Len(a) \in 1..Len(b) /\ (a \o b)[k] = b[k - Len(a)])
           /\ NamesIn(a \o b) = NamesIn(a) \cup NamesIn(b)
  <1> DEFINE both == a \o b
  <1>1. both \in Seq(P) /\ Len(both) = Len(a) + Len(b) /\ Len(a) \in Nat /\ Len(b) \in Nat
    OBVIOUS
  <1>2. \A i \in 1..Len(a) : both[i] = a[i]
    OBVIOUS
  <1>3. \A i \in 1..Len(b) : both[Len(a) + i] = b[i]
    OBVIOUS
  <1> HIDE DEF both
  <1>4. ASSUME NEW k \in 1..Len(both)
        PROVE  k \in 1..Len(a) \/ (k - Len(a) \in 1..Len(b) /\ both[k] = b[k - Len(a)])
    <2>1. CASE k <= Len(a)
      BY <1>1, <2>1
    <2>2. CASE k > Len(a)
      <3>1. k - Len(a) \in 1..Len(b) /\ Len(a) + (k - Len(a)) = k
        BY <1>1, <2>2
      <3> QED BY <1>3, <3>1
    <2> QED BY <1>1, <2>1, <2>2
  <1>5. NamesIn(both) = NamesIn(a) \cup NamesIn(b)
    <2>1. DOMAIN both = 1..Len(both) /\ DOMAIN a = 1..Len(a) /\ DOMAIN b = 1..Len(b)
      BY <1>1
    <2>2. ASSUME NEW t \in NamesIn(both) PROVE t \in NamesIn(a) \cup NamesIn(b)
      <3>1. PICK k \in 1..Len(both) : t = both[k][1]
        BY <2>1 DEF NamesIn
      <3> QED BY <1>2, <1>4, <2>1, <3>1 DEF NamesIn
    <2>3. ASSUME NEW t \in NamesIn(a) PROVE t \in NamesIn(both)
      <3>1. PICK k \in 1..Len(a) : t = a[k][1]
        BY <2>1 DEF NamesIn
      <3>2. k \in 1..Len(both) /\ both[k] = a[k]
        BY <1>1, <1>2
      <3> QED BY <2>1, <3>1, <3>2 DEF NamesIn
    <2>4. ASSUME NEW t \in NamesIn(b) PROVE t \in NamesIn(both)
      <3>1. PICK k \in 1..Len(b) : t = b[k][1]
        BY <2>1 DEF NamesIn
      <3>2. Len(a) + k \in 1..Len(both) /\ both[Len(a) + k] = b[k]
        BY <1>1, <1>3
      <3> QED BY <2>1, <3>1, <3>2 DEF NamesIn
    <2> QED BY <2>2, <2>3, <2>4
  <1> QED BY <1>1, <1>2, <1>3, <1>4, <1>5 DEF both

\* What is first and last said of a name in one list after another.
LEMMA JoinedSay ==
    ASSUME NEW P, NEW a \in Seq(P), NEW b \in Seq(P), NEW t
    PROVE  /\ t \in NamesIn(a) => PlaceOf(a \o b, t) = PlaceOf(a, t)
           /\ t \in NamesIn(b) /\ t \notin NamesIn(a) => PlaceOf(a \o b, t) > Len(a)
           /\ t \in NamesIn(b) => LastSaid(a \o b, t) = LastSaid(b, t)
           /\ t \in NamesIn(a) /\ t \notin NamesIn(b) => LastSaid(a \o b, t) = LastSaid(a, t)
  <1> DEFINE s == a \o b
  <1>1. /\ s \in Seq(P) /\ Len(s) = Len(a) + Len(b)
        /\ \A i \in 1..Len(a) : s[i] = a[i]
        /\ \A i \in 1..Len(b) : s[Len(a) + i] = b[i]
        /\ \A k \in 1..Len(s) : k \in 1..Len(a) \/ (k - Len(a) \in 1..Len(b) /\ s[k] = b[k - Len(a)])
        /\ NamesIn(s) = NamesIn(a) \cup NamesIn(b)
    BY NamesJoin
  <1>2. Len(a) \in Nat /\ Len(b) \in Nat /\ DOMAIN a = 1..Len(a) /\ DOMAIN b = 1..Len(b)
    OBVIOUS
  <1> HIDE DEF s
  <1>3. ASSUME t \in NamesIn(a) PROVE PlaceOf(s, t) = PlaceOf(a, t)
    <2> DEFINE p == PlaceOf(a, t)
    <2>1. p \in 1..Len(a) /\ a[p][1] = t /\ \A k \in 1..Len(a) : a[k][1] = t => p <= k
      BY <1>3, PlaceIs
    <2> HIDE DEF p
    <2>2. p \in 1..Len(s) /\ s[p][1] = t
      BY <1>1, <1>2, <2>1
    <2>3. ASSUME NEW k \in 1..Len(s), s[k][1] = t PROVE p <= k
      <3>1. CASE k \in 1..Len(a)
        BY <1>1, <2>1, <2>3, <3>1
      <3>2. CASE k \notin 1..Len(a)
        BY <1>1, <1>2, <2>1, <3>2
      <3> QED BY <3>1, <3>2
    <2>4. PlaceOf(s, s[p][1]) = p
      BY <1>1, <2>2, <2>3, PlaceIsOne
    <2> QED BY <2>2, <2>4 DEF p
  <1>4. ASSUME t \in NamesIn(b), t \notin NamesIn(a) PROVE PlaceOf(s, t) > Len(a)
    <2> DEFINE p == PlaceOf(s, t)
    <2>1. p \in 1..Len(s) /\ s[p][1] = t
      BY <1>1, <1>4, PlaceIs
    <2> HIDE DEF p
    <2>2. ASSUME p \in 1..Len(a) PROVE FALSE
      BY <1>1, <1>2, <1>4, <2>1, <2>2 DEF NamesIn
    <2>3. p > Len(a)
      BY <1>1, <1>2, <2>1, <2>2
    <2> QED BY <2>3 DEF p
  <1>5. ASSUME t \in NamesIn(b) PROVE LastSaid(s, t) = LastSaid(b, t)
    <2>1. PICK i \in 1..Len(b) : /\ b[i][1] = t /\ LastSaid(b, t) = b[i][2]
                                 /\ \A k \in 1..Len(b) : b[k][1] = t => k <= i
      BY <1>5, LastIs
    <2> DEFINE p == Len(a) + i
    <2>2. p \in 1..Len(s) /\ s[p] = b[i] /\ p \in Nat
      BY <1>1, <1>2
    <2>3. ASSUME NEW k \in 1..Len(s), s[k][1] = t PROVE k <= p
      <3>1. CASE k \in 1..Len(a)
        BY <1>2, <3>1
      <3>2. CASE k \notin 1..Len(a)
        <4>1. k - Len(a) \in 1..Len(b) /\ s[k] = b[k - Len(a)]
          BY <1>1, <3>2
        <4>2. k - Len(a) <= i
          BY <2>1, <2>3, <4>1
        <4> QED BY <1>2, <4>1, <4>2
      <3> QED BY <3>1, <3>2
    <2> HIDE DEF p
    <2>4. LastSaid(s, s[p][1]) = s[p][2]
      BY <1>1, <2>1, <2>2, <2>3, LastIsOne, ZenonT(30)
    <2> QED BY <2>1, <2>2, <2>4
  <1>6. ASSUME t \in NamesIn(a), t \notin NamesIn(b) PROVE LastSaid(s, t) = LastSaid(a, t)
    <2>1. PICK i \in 1..Len(a) : /\ a[i][1] = t /\ LastSaid(a, t) = a[i][2]
                                 /\ \A k \in 1..Len(a) : a[k][1] = t => k <= i
      BY <1>6, LastIs
    <2>2. i \in 1..Len(s) /\ s[i] = a[i]
      BY <1>1, <1>2
    <2>3. ASSUME NEW k \in 1..Len(s), s[k][1] = t PROVE k <= i
      <3>1. CASE k \in 1..Len(a)
        BY <1>1, <2>1, <2>3, <3>1
      <3>2. CASE k \notin 1..Len(a)
        BY <1>1, <1>2, <1>6, <2>3, <3>2 DEF NamesIn
      <3> QED BY <3>1, <3>2
    <2>4. LastSaid(s, s[i][1]) = s[i][2]
      BY <1>1, <2>1, <2>2, <2>3, LastIsOne
    <2> QED BY <2>1, <2>2, <2>4
  <1> QED BY <1>3, <1>4, <1>5, <1>6 DEF s

\* p holds each name of s once, in the order in which s names them first, with
\* what s says of it last.
Laid(p, s) ==
    /\ NamesIn(p) = NamesIn(s)
    /\ \A i, k \in DOMAIN p : i < k => PlaceOf(s, p[i][1]) < PlaceOf(s, p[k][1])
    /\ \A i \in DOMAIN p : p[i][2] = LastSaid(s, p[i][1])

LEMMA OnePair ==
    ASSUME NEW P, NEW x \in P
    PROVE  <<x>> \in Seq(P) /\ NamesIn(<<x>>) = {x[1]} /\ LastSaid(<<x>>, x[1]) = x[2]
  <1> DEFINE s == <<x>>
  <1>1. s \in Seq(P) /\ Len(s) = 1 /\ s[1] = x /\ DOMAIN s = {1}
    OBVIOUS
  <1> HIDE DEF s
  <1>2. NamesIn(s) = {x[1]}
    BY <1>1 DEF NamesIn
  <1>3. 1 \in 1..Len(s) /\ \A k \in 1..Len(s) : k <= 1
    BY <1>1
  <1>4. LastSaid(s, s[1][1]) = s[1][2]
    BY <1>1, <1>3, LastIsOne
  <1> QED BY <1>1, <1>2, <1>4 DEF s

LEMMA UpsertLays ==
    ASSUME NEW T, NEW V, NEW p \in Seq(T \X V), NEW s \in Seq(T \X V), Laid(p, s), NEW x \in T \X V
    PROVE  /\ Upsert(p, x[1], x[2]) \in Seq(T \X V)
           /\ Laid(Upsert(p, x[1], x[2]), s \o <<x>>)
  <1> DEFINE P == T \X V
             name == x[1]
             q == Upsert(p, name, x[2])
             r == s \o <<x>>
  <1>1. DOMAIN p = 1..Len(p) /\ Len(p) \in Nat /\ DOMAIN s = 1..Len(s) /\ x = <<x[1], x[2]>>
    OBVIOUS
  <1>2. <<x>> \in Seq(P) /\ NamesIn(<<x>>) = {name} /\ LastSaid(<<x>>, name) = x[2]
    BY OnePair
  <1>3. r \in Seq(P) /\ NamesIn(r) = NamesIn(s) \cup {name}
    <2> DEFINE b == <<x>>
    <2>1. b \in Seq(P) /\ NamesIn(b) = {name}
      BY <1>2
    <2> HIDE DEF b, P, name
    <2>2. s \in Seq(P)
      BY DEF P
    <2>3. s \o b \in Seq(P) /\ NamesIn(s \o b) = NamesIn(s) \cup NamesIn(b)
      BY <2>1, <2>2, NamesJoin
    <2> QED BY <2>1, <2>3 DEF b
  <1>4. /\ \A t \in NamesIn(s) : PlaceOf(r, t) = PlaceOf(s, t) /\ PlaceOf(s, t) \in 1..Len(s)
        /\ name \notin NamesIn(s) => PlaceOf(r, name) > Len(s)
        /\ LastSaid(r, name) = x[2]
        /\ \A t \in NamesIn(s) : t # name => LastSaid(r, t) = LastSaid(s, t)
    <2> DEFINE b == <<x>>
    <2>1. b \in Seq(P) /\ NamesIn(b) = {name} /\ LastSaid(b, name) = x[2]
      BY <1>2
    <2> HIDE DEF b, P, name
    <2>2. s \in Seq(P)
      BY DEF P
    <2>3. ASSUME NEW t \in NamesIn(s) PROVE PlaceOf(s \o b, t) = PlaceOf(s, t) /\ PlaceOf(s, t) \in 1..Len(s)
      BY <2>1, <2>2, JoinedSay, PlaceIs
    <2>4. name \notin NamesIn(s) => PlaceOf(s \o b, name) > Len(s)
      BY <2>1, <2>2, JoinedSay
    <2>5. LastSaid(s \o b, name) = x[2]
      BY <2>1, <2>2, JoinedSay
    <2>6. ASSUME NEW t \in NamesIn(s), t # name PROVE LastSaid(s \o b, t) = LastSaid(s, t)
      BY <2>1, <2>2, <2>6, JoinedSay
    <2> QED BY <2>3, <2>4, <2>5, <2>6, Zenon DEF b
  <1> HIDE DEF r
  <1>5. CASE name \in NamesIn(p)
    <2>1. q = [i \in 1..Len(p) |-> IF p[i][1] = name THEN <<name, x[2]>> ELSE p[i]]
      BY <1>1, <1>5 DEF Upsert, NamesIn
    <2>2. q \in Seq(P) /\ DOMAIN q = 1..Len(p)
      BY <1>1, <2>1
    <2>3. \A i \in 1..Len(p) : q[i][1] = p[i][1] /\ q[i][2] = (IF p[i][1] = name THEN x[2] ELSE p[i][2])
      BY <2>1
    <2> HIDE DEF q, name
    <2>4. \A i \in 1..Len(p) : p[i][1] \in NamesIn(s)
      BY <1>1 DEF NamesIn, Laid
    <2>5. NamesIn(q) = NamesIn(r)
      <3>1. NamesIn(q) = NamesIn(p)
        BY <1>1, <2>2, <2>3 DEF NamesIn
      <3> QED BY <1>3, <1>5, <3>1 DEF Laid
    <2>6. \A i, k \in DOMAIN q : i < k => PlaceOf(r, q[i][1]) < PlaceOf(r, q[k][1])
      BY <1>1, <1>4, <2>2, <2>3, <2>4 DEF Laid
    <2>7. \A i \in DOMAIN q : q[i][2] = LastSaid(r, q[i][1])
      BY <1>1, <1>4, <2>2, <2>3, <2>4 DEF Laid
    <2>8. Laid(q, r)
      BY <2>5, <2>6, <2>7 DEF Laid
    <2> QED BY <2>2, <2>8 DEF q, r, name
  <1>6. CASE name \notin NamesIn(p)
    <2>1. q = Append(p, x)
      BY <1>1, <1>6 DEF Upsert, NamesIn
    <2>2. /\ q \in Seq(P) /\ Len(q) = Len(p) + 1 /\ q[Len(p) + 1] = x
          /\ \A i \in 1..Len(p) : q[i] = p[i]
      <3>1. p \in Seq(P) /\ x \in P
        OBVIOUS
      <3> HIDE DEF P, q
      <3> QED BY <2>1, <3>1, LastOfAppended
    <2> HIDE DEF q, name
    <2>3. DOMAIN q = 1..(Len(p) + 1)
      BY <1>1, <2>2
    <2>4. \A i \in 1..Len(p) : p[i][1] \in NamesIn(s)
      BY <1>1 DEF NamesIn, Laid
    <2>5. name \notin NamesIn(s)
      BY <1>6 DEF Laid
    <2>6. NamesIn(q) = NamesIn(r)
      <3>1. NamesIn(q) = NamesIn(p) \cup {name}
        <4>1. ASSUME NEW t \in NamesIn(q) PROVE t \in NamesIn(p) \cup {name}
          <5>1. PICK i \in 1..(Len(p) + 1) : t = q[i][1]
            BY <2>3 DEF NamesIn
          <5>2. CASE i \in 1..Len(p)
            BY <1>1, <2>2, <5>1, <5>2 DEF NamesIn
          <5>3. CASE i = Len(p) + 1
            BY <2>2, <5>1, <5>3 DEF name
          <5> QED BY <1>1, <5>2, <5>3
        <4>2. \A t \in NamesIn(p) : t \in NamesIn(q)
          BY <1>1, <2>2, <2>3 DEF NamesIn
        <4>3. name \in NamesIn(q)
          <5>1. Len(p) + 1 \in DOMAIN q
            BY <1>1, <2>3
          <5> QED BY <2>2, <5>1 DEF NamesIn, name
        <4> QED BY <4>1, <4>2, <4>3
      <3> QED BY <1>3, <3>1 DEF Laid
    <2>7. ASSUME NEW i \in DOMAIN q, NEW k \in DOMAIN q, i < k
          PROVE  PlaceOf(r, q[i][1]) < PlaceOf(r, q[k][1])
      <3>1. CASE k \in 1..Len(p)
        <4>1. i \in 1..Len(p)
          BY <1>1, <2>3, <2>7, <3>1
        <4> QED BY <1>1, <1>4, <2>2, <2>4, <2>7, <3>1, <4>1 DEF Laid
      <3>2. CASE k = Len(p) + 1
        <4>1. i \in 1..Len(p)
          BY <1>1, <2>3, <2>7, <3>2
        <4>2. q[i][1] \in NamesIn(s) /\ q[k][1] = name
          BY <2>2, <2>4, <3>2, <4>1 DEF name
        <4>3. PlaceOf(r, q[i][1]) \in 1..Len(s) /\ PlaceOf(r, name) > Len(s)
          BY <1>4, <2>5, <4>2
        <4>4. PlaceOf(r, name) \in Nat
          <5>1. name \in NamesIn(r)
            BY <1>3
          <5> HIDE DEF P
          <5> QED BY <1>3, <5>1, PlaceIs
        <4>5. Len(s) \in Nat
          OBVIOUS
        <4> QED BY <4>2, <4>3, <4>4, <4>5
      <3> QED BY <1>1, <2>3, <3>1, <3>2
    <2>8. ASSUME NEW i \in DOMAIN q PROVE q[i][2] = LastSaid(r, q[i][1])
      <3>1. CASE i \in 1..Len(p)
        <4>1. q[i] = p[i] /\ p[i][1] \in NamesIn(s) /\ p[i][1] # name
          BY <1>1, <2>2, <2>4, <2>5, <3>1
        <4>2. p[i][2] = LastSaid(s, p[i][1])
          BY <1>1, <3>1 DEF Laid
        <4> QED BY <1>4, <4>1, <4>2
      <3>2. CASE i = Len(p) + 1
        BY <1>4, <2>2, <3>2 DEF name
      <3> QED BY <1>1, <2>3, <3>1, <3>2
    <2>9. Laid(q, r)
      BY <2>6, <2>7, <2>8 DEF Laid
    <2> QED BY <2>2, <2>9 DEF q, r, name
  <1> QED BY <1>5, <1>6

LEMMA ListsAgree ==
    ASSUME NEW P, NEW a \in Seq(P), NEW b \in Seq(P), NEW c \in Seq(P)
    PROVE  (a \o b) \o c = a \o (b \o c)
  OBVIOUS

Filling(pairs, more, at, n) ==
    at = [i \in 0..n |-> IF i = 0 THEN pairs ELSE Upsert(at[i - 1], more[i][1], more[i][2])]

LEMMA FillingGoesOn ==
    ASSUME NEW pairs, NEW more, NEW n \in Nat, NEW at, Filling(pairs, more, at, n)
    PROVE  \E next : Filling(pairs, more, next, n + 1)
  <1> DEFINE g == [i \in 0..(n + 1) |-> IF i <= n THEN at[i] ELSE Upsert(at[n], more[n + 1][1], more[n + 1][2])]
  <1>1. at[0] = pairs /\ \A i \in 1..n : at[i] = Upsert(at[i - 1], more[i][1], more[i][2])
    BY DEF Filling
  <1>2. DOMAIN g = 0..(n + 1) /\ \A i \in 0..n : g[i] = at[i]
    OBVIOUS
  <1>3. g[n + 1] = Upsert(at[n], more[n + 1][1], more[n + 1][2])
    OBVIOUS
  <1>4. ASSUME NEW i \in 0..(n + 1)
        PROVE  g[i] = IF i = 0 THEN pairs ELSE Upsert(g[i - 1], more[i][1], more[i][2])
    <2> HIDE DEF g
    <2>1. CASE i = 0
      BY <1>1, <1>2, <2>1
    <2>2. CASE i \in 1..n
      <3>1. i - 1 \in 0..n /\ i \in 0..n /\ i # 0
        BY <2>2
      <3> QED BY <1>1, <1>2, <2>2, <3>1
    <2>3. CASE i = n + 1
      <3>1. i - 1 = n /\ n \in 0..n /\ i # 0
        BY <2>3
      <3> QED BY <1>2, <1>3, <2>3, <3>1
    <2> QED BY <2>1, <2>2, <2>3
  <1>5. g = [i \in 0..(n + 1) |-> g[i]]
    BY <1>2
  <1> HIDE DEF g
  <1>6. [i \in 0..(n + 1) |-> g[i]]
          = [i \in 0..(n + 1) |-> IF i = 0 THEN pairs ELSE Upsert(g[i - 1], more[i][1], more[i][2])]
    BY <1>4
  <1>7. Filling(pairs, more, g, n + 1)
    BY <1>5, <1>6 DEF Filling
  <1> QED BY <1>7

LEMMA FillingExists ==
    ASSUME NEW pairs, NEW more
    PROVE  \A n \in Nat : \E at : Filling(pairs, more, at, n)
  <1> DEFINE S == {n \in Nat : \E at : Filling(pairs, more, at, n)}
  <1>1. 0 \in S
    <2> DEFINE g == [i \in 0..0 |-> pairs]
    <2>1. g = [i \in 0..0 |-> IF i = 0 THEN pairs ELSE Upsert(g[i - 1], more[i][1], more[i][2])]
      OBVIOUS
    <2> HIDE DEF g
    <2>2. Filling(pairs, more, g, 0)
      BY <2>1 DEF Filling
    <2> QED BY <2>2
  <1>2. \A n \in Nat : n \in S => n + 1 \in S
    BY FillingGoesOn
  <1>3. Nat \subseteq S
    <2> HIDE DEF S
    <2> QED BY <1>1, <1>2, Inductively
  <1> QED BY <1>3

LEMMA UpsertAllIs ==
    ASSUME NEW pairs, NEW more, Len(more) \in Nat
    PROVE  \E at : /\ UpsertAll(pairs, more) = at[Len(more)] /\ at[0] = pairs
                   /\ \A i \in 1..Len(more) : at[i] = Upsert(at[i - 1], more[i][1], more[i][2])
  <1> DEFINE f == CHOOSE f : f = [n \in 0..Len(more) |-> IF n = 0 THEN pairs ELSE Upsert(f[n - 1], more[n][1], more[n][2])]
  <1>1. \E g : g = [n \in 0..Len(more) |-> IF n = 0 THEN pairs ELSE Upsert(g[n - 1], more[n][1], more[n][2])]
    <2>1. PICK at : Filling(pairs, more, at, Len(more))
      BY FillingExists
    <2> QED BY <2>1 DEF Filling
  <1>2. f = [n \in 0..Len(more) |-> IF n = 0 THEN pairs ELSE Upsert(f[n - 1], more[n][1], more[n][2])]
    BY <1>1, Zenon
  <1>3. UpsertAll(pairs, more) = f[Len(more)]
    BY Zenon DEF UpsertAll
  <1> HIDE DEF f
  <1>4. f[0] = pairs /\ \A i \in 1..Len(more) : f[i] = Upsert(f[i - 1], more[i][1], more[i][2])
    BY <1>2
  <1> QED BY <1>3, <1>4

LEMMA UpsertAllLays ==
    ASSUME NEW T, NEW V, NEW p \in Seq(T \X V), NEW s \in Seq(T \X V), Laid(p, s), NEW more \in Seq(T \X V)
    PROVE  UpsertAll(p, more) \in Seq(T \X V) /\ Laid(UpsertAll(p, more), s \o more)
  <1> DEFINE P == T \X V
             n == Len(more)
             so(i) == s \o SubSeq(more, 1, i)
  <1>1. n \in Nat /\ \A i \in 1..n : more[i] \in P
    OBVIOUS
  <1>2. PICK at : /\ UpsertAll(p, more) = at[n] /\ at[0] = p
                  /\ \A i \in 1..n : at[i] = Upsert(at[i - 1], more[i][1], more[i][2])
    BY <1>1, UpsertAllIs
  <1>3. /\ \A i \in 0..n : so(i) \in Seq(P)
        /\ so(0) = s /\ so(n) = s \o more
        /\ \A i \in 1..n : so(i) = so(i - 1) \o <<more[i]>>
    <2>1. IsList(more)
      BY ListIs
    <2>2. /\ SubSeq(more, 1, 0) = <<>> /\ SubSeq(more, 1, n) = more
          /\ \A i \in 1..n : SubSeq(more, 1, i) = SubSeq(more, 1, i - 1) \o <<more[i]>>
      BY <2>1, PrefixesAre
    <2>3. \A i \in 0..n : SubSeq(more, 1, i) \in Seq(P)
      OBVIOUS
    <2>4. s \in Seq(P) /\ \A i \in 1..n : <<more[i]>> \in Seq(P)
      BY <1>1
    <2> HIDE DEF P
    <2>5. ASSUME NEW i \in 0..n PROVE so(i) \in Seq(P)
      BY <2>3, <2>4
    <2>6. so(0) = s
      <3>1. so(0) = s \o <<>>
        BY <2>2, Zenon
      <3>2. s \o <<>> = s
        BY <2>4
      <3> QED BY <3>1, <3>2, Zenon
    <2>7. so(n) = s \o more
      BY <2>2, Zenon
    <2>8. ASSUME NEW i \in 1..n PROVE so(i) = so(i - 1) \o <<more[i]>>
      <3> DEFINE a == SubSeq(more, 1, i - 1)
                 b == <<more[i]>>
      <3>1. i - 1 \in 0..n
        BY <1>1
      <3>2. a \in Seq(P) /\ b \in Seq(P)
        BY <2>3, <2>4, <3>1
      <3>3. so(i) = s \o (a \o b)
        BY <2>2, Zenon
      <3> HIDE DEF a, b
      <3>4. (s \o a) \o b = s \o (a \o b)
        BY <2>4, <3>2, ListsAgree, SMTT(30)
      <3> QED BY <3>3, <3>4, Zenon DEF a, b
    <2> QED BY <2>5, <2>6, <2>7, <2>8
  <1> HIDE DEF so, n
  <1> DEFINE S == {i \in Nat : i <= n => at[i] \in Seq(P) /\ Laid(at[i], so(i))}
  <1>4. 0 \in S
    BY <1>2, <1>3
  <1>5. ASSUME NEW i \in Nat, i \in S PROVE i + 1 \in S
    <2>1. CASE i + 1 <= n
      <3> DEFINE j == i + 1
                 q == at[i]
                 x == more[j]
      <3>1. j \in 1..n /\ j - 1 = i /\ i \in 0..n /\ i <= n
        BY <1>1, <2>1
      <3>2. q \in Seq(P) /\ Laid(q, so(i)) /\ so(i) \in Seq(P) /\ x \in P
        BY <1>1, <1>3, <1>5, <3>1
      <3>3. at[j] = Upsert(q, x[1], x[2]) /\ so(j) = so(i) \o <<x>>
        BY <1>2, <1>3, <3>1
      <3> HIDE DEF q, x, j
      <3> DEFINE z == so(i)
      <3>4. z \in Seq(P) /\ Laid(q, z) /\ so(j) = z \o <<x>>
        BY <3>2, <3>3
      <3> HIDE DEF z
      <3>5. Upsert(q, x[1], x[2]) \in Seq(T \X V) /\ Laid(Upsert(q, x[1], x[2]), z \o <<x>>)
        BY <3>2, <3>4, UpsertLays
      <3>6. at[j] \in Seq(P) /\ Laid(at[j], so(j))
        BY <3>3, <3>4, <3>5
      <3> QED BY <3>6 DEF j
    <2>2. CASE ~(i + 1 <= n)
      BY <2>2
    <2> QED BY <2>1, <2>2
  <1>6. Nat \subseteq S
    <2> HIDE DEF S
    <2> QED BY <1>4, <1>5, Inductively
  <1>7. at[n] \in Seq(P) /\ Laid(at[n], so(n))
    BY <1>1, <1>6
  <1> QED BY <1>2, <1>3, <1>7

\* Whatever fields a page has, how often it has each, and whatever is scraped and
\* rendered for it: what is posted is the page's form, each field once and in its
\* place, over it what was scraped, over that the credentials (form_login, upsert).
THEOREM FormComesBack ==
    ASSUME NEW T, NEW V, NEW page \in Seq(T \X V), NEW scraped \in Seq(T \X V), NEW rendered \in Seq(T \X V)
    PROVE  FilledIn(UpsertAll(UpsertAll(<<>>, page), scraped \o rendered), page, scraped, rendered)
  <1> DEFINE P == T \X V
             begun == <<>>
             shown == UpsertAll(begun, page)
             more == scraped \o rendered
             posted == UpsertAll(shown, more)
             all == page \o more
  <1>1. more \in Seq(P) /\ NamesIn(more) = NamesIn(scraped) \cup NamesIn(rendered)
    <2>1. scraped \in Seq(P) /\ rendered \in Seq(P)
      OBVIOUS
    <2> HIDE DEF P
    <2> QED BY <2>1, NamesJoin
  <1>2. shown \in Seq(P) /\ Laid(shown, page)
    <2>1. begun \in Seq(P) /\ begun \o page = page
      OBVIOUS
    <2>2. Laid(begun, begun)
      BY DEF Laid, NamesIn
    <2> HIDE DEF begun
    <2>3. begun \in Seq(T \X V) /\ page \in Seq(T \X V)
      BY <2>1
    <2>4. UpsertAll(begun, page) \in Seq(T \X V) /\ Laid(UpsertAll(begun, page), begun \o page)
      BY <2>2, <2>3, UpsertAllLays
    <2> QED BY <2>1, <2>4, Zenon
  <1> HIDE DEF shown, more
  <1>3. posted \in Seq(P) /\ Laid(posted, all)
    BY <1>1, <1>2, UpsertAllLays
  <1> HIDE DEF posted
  <1>4. /\ all \in Seq(P) /\ NamesIn(all) = NamesIn(page) \cup NamesIn(more)
        /\ \A t \in NamesIn(page) : PlaceOf(all, t) = PlaceOf(page, t) /\ PlaceOf(page, t) \in 1..Len(page)
        /\ \A t \in NamesIn(more) : t \notin NamesIn(page) => PlaceOf(all, t) > Len(page)
        /\ \A t \in NamesIn(more) : LastSaid(all, t) = LastSaid(more, t)
        /\ \A t \in NamesIn(page) : t \notin NamesIn(more) => LastSaid(all, t) = LastSaid(page, t)
    <2>1. page \in Seq(P)
      OBVIOUS
    <2> HIDE DEF P
    <2>2. all \in Seq(P) /\ NamesIn(all) = NamesIn(page) \cup NamesIn(more)
      BY <1>1, <2>1, NamesJoin
    <2>3. ASSUME NEW t \in NamesIn(page) PROVE PlaceOf(all, t) = PlaceOf(page, t) /\ PlaceOf(page, t) \in 1..Len(page)
      BY <1>1, <2>1, JoinedSay, PlaceIs
    <2>4. ASSUME NEW t \in NamesIn(more), t \notin NamesIn(page) PROVE PlaceOf(all, t) > Len(page)
      BY <1>1, <2>1, <2>4, JoinedSay
    <2>5. ASSUME NEW t \in NamesIn(more) PROVE LastSaid(all, t) = LastSaid(more, t)
      BY <1>1, <2>1, JoinedSay
    <2>6. ASSUME NEW t \in NamesIn(page), t \notin NamesIn(more) PROVE LastSaid(all, t) = LastSaid(page, t)
      BY <1>1, <2>1, <2>6, JoinedSay
    <2> QED BY <2>2, <2>3, <2>4, <2>5, <2>6
  <1>5. /\ \A t \in NamesIn(rendered) : LastSaid(more, t) = LastSaid(rendered, t)
        /\ \A t \in NamesIn(scraped) : t \notin NamesIn(rendered) => LastSaid(more, t) = LastSaid(scraped, t)
    <2>1. scraped \in Seq(P) /\ rendered \in Seq(P)
      OBVIOUS
    <2> HIDE DEF P
    <2>2. ASSUME NEW t \in NamesIn(rendered) PROVE LastSaid(more, t) = LastSaid(rendered, t)
      BY <2>1, JoinedSay DEF more
    <2>3. ASSUME NEW t \in NamesIn(scraped), t \notin NamesIn(rendered) PROVE LastSaid(more, t) = LastSaid(scraped, t)
      BY <2>1, <2>3, JoinedSay DEF more
    <2> QED BY <2>2, <2>3
  <1>6. \A t \in NamesIn(all) : PlaceOf(all, t) \in Nat
    <2> DEFINE A == all
    <2>1. A \in Seq(P)
      BY <1>4
    <2> HIDE DEF A, P
    <2>2. \A t \in NamesIn(A) : PlaceOf(A, t) \in 1..Len(A) /\ Len(A) \in Nat
      BY <2>1, PlaceIs
    <2>3. \A t \in NamesIn(A) : PlaceOf(A, t) \in Nat
      BY <2>2
    <2> QED BY <2>3 DEF A
  <1> HIDE DEF all
  <1>7. DOMAIN posted = 1..Len(posted) /\ Len(posted) \in Nat /\ Len(page) \in Nat
    BY <1>3
  <1>8. \A i \in DOMAIN posted : posted[i][1] \in NamesIn(all)
    BY <1>3 DEF Laid, NamesIn
  <1>9. NamesIn(posted) = NamesIn(page) \cup NamesIn(scraped) \cup NamesIn(rendered)
    BY <1>1, <1>3, <1>4 DEF Laid
  <1>10. \A i, k \in DOMAIN posted : posted[i][1] = posted[k][1] => i = k
    <2> SUFFICES ASSUME NEW i \in DOMAIN posted, NEW k \in DOMAIN posted, posted[i][1] = posted[k][1], i < k
                 PROVE  FALSE
      BY <1>7, SMTT(30)
    <2>1. PlaceOf(all, posted[i][1]) < PlaceOf(all, posted[k][1])
      BY <1>3 DEF Laid
    <2>2. PlaceOf(all, posted[i][1]) \in Nat
      BY <1>6, <1>8
    <2> QED BY <2>1, <2>2
  <1>11. ASSUME NEW i \in DOMAIN posted, NEW k \in DOMAIN posted, i < k, posted[k][1] \in NamesIn(page)
         PROVE  posted[i][1] \in NamesIn(page) /\ PlaceOf(page, posted[i][1]) < PlaceOf(page, posted[k][1])
    <2> DEFINE t == posted[i][1]
               u == posted[k][1]
    <2>1. PlaceOf(all, t) < PlaceOf(all, u)
      BY <1>3, <1>11 DEF Laid
    <2>2. t \in NamesIn(all) /\ u \in NamesIn(page) /\ PlaceOf(all, t) \in Nat
      BY <1>6, <1>8, <1>11
    <2> HIDE DEF t, u
    <2>3. PlaceOf(all, u) = PlaceOf(page, u) /\ PlaceOf(page, u) \in 1..Len(page)
      BY <1>4, <2>2
    <2>4. t \in NamesIn(page)
      <3> SUFFICES ASSUME t \notin NamesIn(page) PROVE FALSE
        OBVIOUS
      <3>1. PlaceOf(all, t) > Len(page)
        BY <1>4, <2>2
      <3> QED BY <1>7, <2>1, <2>2, <2>3, <3>1
    <2>5. PlaceOf(all, t) = PlaceOf(page, t)
      BY <1>4, <2>4
    <2> QED BY <2>1, <2>3, <2>4, <2>5 DEF t, u
  <1>12. ASSUME NEW i \in DOMAIN posted
         PROVE  LET name == posted[i][1]
                IN posted[i][2] = IF name \in NamesIn(rendered) THEN LastSaid(rendered, name)
                                  ELSE IF name \in NamesIn(scraped) THEN LastSaid(scraped, name)
                                  ELSE LastSaid(page, name)
    <2> DEFINE name == posted[i][1]
    <2>1. posted[i][2] = LastSaid(all, name) /\ name \in NamesIn(all)
      BY <1>3, <1>8 DEF Laid
    <2> HIDE DEF name
    <2>2. CASE name \in NamesIn(rendered)
      BY <1>1, <1>4, <1>5, <2>1, <2>2 DEF name
    <2>3. CASE name \notin NamesIn(rendered) /\ name \in NamesIn(scraped)
      BY <1>1, <1>4, <1>5, <2>1, <2>3 DEF name
    <2>4. CASE name \notin NamesIn(rendered) /\ name \notin NamesIn(scraped)
      BY <1>1, <1>4, <2>1, <2>4 DEF name
    <2> QED BY <2>2, <2>3, <2>4
  <1>13. FilledIn(posted, page, scraped, rendered)
    BY <1>9, <1>10, <1>11, <1>12, Zenon DEF FilledIn
  <1> QED BY <1>13 DEF posted, shown, more

-----------------------------------------------------------------------------
(***************************************************************************)
(* Texts taken apart and put together again.                               *)
(***************************************************************************)

\* A recursion that goes on further to the right, or stops.
ChainedFrom(k, n, stops, last, piece, next, rest) ==
    rest = [i \in k..(n + 1) |-> IF i \in stops THEN last[i] ELSE piece[i] \o rest[next[i]]]

LEMMA ChainGoesOn ==
    ASSUME NEW stops, NEW last, NEW piece, NEW next, NEW n \in Nat, NEW k \in 1..(n + 1),
           \A i \in 1..(n + 1) : i \notin stops => next[i] \in (i + 1)..(n + 1),
           NEW f, ChainedFrom(k + 1, n, stops, last, piece, next, f)
    PROVE  \E g : ChainedFrom(k, n, stops, last, piece, next, g)
  <1> DEFINE new == IF k \in stops THEN last[k] ELSE piece[k] \o f[next[k]]
             g == [i \in k..(n + 1) |-> IF i = k THEN new ELSE f[i]]
  <1>1. \A i \in (k + 1)..(n + 1) : f[i] = IF i \in stops THEN last[i] ELSE piece[i] \o f[next[i]]
    BY DEF ChainedFrom
  <1>2. DOMAIN g = k..(n + 1) /\ g[k] = new /\ \A i \in (k + 1)..(n + 1) : g[i] = f[i]
    <2>1. k \in k..(n + 1) /\ \A i \in (k + 1)..(n + 1) : i # k /\ i \in k..(n + 1)
      OBVIOUS
    <2> HIDE DEF new
    <2> QED BY <2>1
  <1>3. g = [i \in k..(n + 1) |-> g[i]]
    <2> HIDE DEF new
    <2> QED OBVIOUS
  <1> HIDE DEF g
  <1>4. ASSUME NEW i \in k..(n + 1)
        PROVE  g[i] = IF i \in stops THEN last[i] ELSE piece[i] \o g[next[i]]
    <2>1. CASE i \in stops
      <3>1. CASE i = k
        BY <1>2, <2>1, <3>1
      <3>2. CASE i \in (k + 1)..(n + 1)
        BY <1>1, <1>2, <2>1, <3>2
      <3> QED BY <3>1, <3>2
    <2>2. CASE i \notin stops
      <3>1. next[i] \in (k + 1)..(n + 1)
        BY <2>2
      <3>2. g[next[i]] = f[next[i]]
        BY <1>2, <3>1
      <3>3. CASE i = k
        BY <1>2, <2>2, <3>2, <3>3
      <3>4. CASE i \in (k + 1)..(n + 1)
        BY <1>1, <1>2, <2>2, <3>2, <3>4
      <3> QED BY <3>3, <3>4
    <2> QED BY <2>1, <2>2
  <1>5. [i \in k..(n + 1) |-> g[i]] = [i \in k..(n + 1) |-> IF i \in stops THEN last[i] ELSE piece[i] \o g[next[i]]]
    BY <1>4
  <1>6. ChainedFrom(k, n, stops, last, piece, next, g)
    BY <1>3, <1>5, Zenon DEF ChainedFrom
  <1> QED BY <1>6

LEMMA ChainExists ==
    ASSUME NEW stops, NEW last, NEW piece, NEW next, NEW n \in Nat,
           \A i \in 1..(n + 1) : i \notin stops => next[i] \in (i + 1)..(n + 1)
    PROVE  \E rest : ChainedFrom(1, n, stops, last, piece, next, rest)
  <1> DEFINE Going(k) == \E g : ChainedFrom(k, n, stops, last, piece, next, g)
             S == {m \in Nat : m <= n + 1 => Going(n + 2 - m)}
  <1>1. 0 \in S
    <2> DEFINE g == [i \in (n + 2)..(n + 1) |-> 0]
    <2>1. ChainedFrom(n + 2, n, stops, last, piece, next, g)
      <3>1. (n + 2)..(n + 1) = {}
        OBVIOUS
      <3> QED BY <3>1 DEF ChainedFrom
    <2>2. n + 2 - 0 = n + 2
      OBVIOUS
    <2> HIDE DEF g
    <2>3. Going(n + 2)
      BY <2>1
    <2> HIDE DEF Going
    <2> QED BY <2>2, <2>3
  <1>2. ASSUME NEW m \in Nat, m \in S PROVE m + 1 \in S
    <2> DEFINE k == n + 2 - (m + 1)
    <2>1. CASE m + 1 <= n + 1
      <3>1. k \in 1..(n + 1) /\ k + 1 = n + 2 - m /\ m <= n + 1
        BY <2>1
      <3>2. Going(n + 2 - m)
        <4> HIDE DEF Going
        <4> QED BY <1>2, <3>1
      <3> HIDE DEF k
      <3>3. PICK f : ChainedFrom(k + 1, n, stops, last, piece, next, f)
        BY <3>1, <3>2
      <3>4. Going(k)
        BY <3>1, <3>3, ChainGoesOn
      <3> HIDE DEF Going
      <3> QED BY <3>4 DEF k
    <2>2. CASE ~(m + 1 <= n + 1)
      <3> HIDE DEF Going
      <3> QED BY <2>2
    <2> QED BY <2>1, <2>2
  <1>3. Nat \subseteq S
    <2> HIDE DEF S
    <2> QED BY <1>1, <1>2, Inductively
  <1>4. Going(1)
    <2>1. n + 1 \in Nat /\ n + 2 - (n + 1) = 1 /\ n + 1 <= n + 1
      OBVIOUS
    <2>2. n + 1 \in S
      BY <1>3, <2>1
    <2> HIDE DEF Going
    <2> QED BY <2>1, <2>2
  <1> QED BY <1>4

\* What is said of the right end and handed on to the left holds of every place.
LEMMA FromTheEnd ==
    ASSUME NEW n \in Nat, NEW T,
           \A i \in 1..n : (\A k \in (i + 1)..n : k \in T) => i \in T
    PROVE  1..n \subseteq T
  <1> DEFINE S == {m \in Nat : \A k \in 1..n : k > n - m => k \in T}
  <1>1. 0 \in S
    OBVIOUS
  <1>2. ASSUME NEW m \in Nat, m \in S PROVE m + 1 \in S
    <2> SUFFICES ASSUME NEW k \in 1..n, k > n - (m + 1) PROVE k \in T
      OBVIOUS
    <2>1. \A j \in (k + 1)..n : j \in 1..n /\ j > n - m
      OBVIOUS
    <2> QED BY <1>2, <2>1
  <1>3. Nat \subseteq S
    <2> HIDE DEF S
    <2> QED BY <1>1, <1>2, Inductively
  <1>4. n \in S
    BY <1>3
  <1>5. \A k \in 1..n : k > n - n
    OBVIOUS
  <1> QED BY <1>4, <1>5

LEMMA ChainedIs ==
    ASSUME NEW stops, NEW last, NEW piece, NEW next, NEW n \in Nat, NEW rest,
           ChainedFrom(1, n, stops, last, piece, next, rest)
    PROVE  \A i \in 1..(n + 1) : rest[i] = IF i \in stops THEN last[i] ELSE piece[i] \o rest[next[i]]
  BY DEF ChainedFrom

LEMMA ChainedIn ==
    ASSUME NEW A, NEW stops, NEW last, NEW piece, NEW next, NEW n \in Nat, NEW rest,
           ChainedFrom(1, n, stops, last, piece, next, rest),
           \A i \in 1..(n + 1) : i \notin stops => next[i] \in (i + 1)..(n + 1) /\ piece[i] \in Seq(A),
           \A i \in 1..(n + 1) : i \in stops => last[i] \in Seq(A)
    PROVE  \A i \in 1..(n + 1) : rest[i] \in Seq(A)
  <1> DEFINE T == {i \in 1..(n + 1) : rest[i] \in Seq(A)}
  <1>0. \A i \in 1..(n + 1) : rest[i] = IF i \in stops THEN last[i] ELSE piece[i] \o rest[next[i]]
    BY DEF ChainedFrom
  <1>1. ASSUME NEW i \in 1..(n + 1), \A k \in (i + 1)..(n + 1) : k \in T PROVE i \in T
    <2>1. CASE i \in stops
      BY <1>0, <2>1
    <2>2. CASE i \notin stops
      <3>1. rest[i] = piece[i] \o rest[next[i]]
        BY <1>0, <2>2
      <3>2. next[i] \in T
        BY <1>1, <2>2
      <3>3. piece[i] \in Seq(A) /\ rest[next[i]] \in Seq(A)
        BY <2>2, <3>2
      <3>4. piece[i] \o rest[next[i]] \in Seq(A)
        BY <3>3
      <3> QED BY <3>1, <3>4
    <2> QED BY <2>1, <2>2
  <1>2. n + 1 \in Nat
    OBVIOUS
  <1>3. 1..(n + 1) \subseteq T
    <2> HIDE DEF T
    <2> QED BY <1>1, <1>2, FromTheEnd
  <1> QED BY <1>3

\* Where the parts of a text lie that is glued of them.
Lying(parts, off, whole) ==
    /\ off[0] = 0 /\ off[Len(parts)] = Len(whole)
    /\ \A i \in 0..Len(parts) : off[i] \in 0..Len(whole)
    /\ \A i \in 1..Len(parts) : off[i] = off[i - 1] + Len(parts[i])
    /\ \A i \in 1..Len(parts) : \A j \in 1..Len(parts[i]) : whole[off[i - 1] + j] = parts[i][j]

LEMMA GlueLies ==
    ASSUME NEW Glyphs, NEW parts \in Seq(Seq(Glyphs))
    PROVE  Glue(parts) \in Seq(Glyphs) /\ \E off : Lying(parts, off, Glue(parts))
  <1> DEFINE n == Len(parts)
  <1>0. n \in Nat /\ \A i \in 1..n : parts[i] \in Seq(Glyphs)
    OBVIOUS
  <1>1. CASE n = 0
    <2>1. parts = <<>>
      BY <1>1
    <2>2. Glue(parts) = <<>>
      BY <2>1, GlueNone
    <2> DEFINE off == [i \in {0} |-> 0]
    <2>3. off[0] = 0 /\ Len(<<>>) = 0 /\ <<>> \in Seq(Glyphs) /\ Len(parts) = 0
      BY <2>1
    <2> HIDE DEF off
    <2>4. Lying(parts, off, <<>>)
      BY <2>3 DEF Lying
    <2> QED BY <2>2, <2>3, <2>4
  <1>2. CASE n # 0
    <2>1. PICK at : Gluing(parts, at, n) /\ Glue(parts) = at[n]
      BY <1>0, <1>2, GlueIs
    <2>2. \A i \in 1..n : at[i] = IF i = 1 THEN parts[i] ELSE at[i - 1] \o parts[i]
      BY <2>1 DEF Gluing
    <2> DEFINE off == [i \in 0..n |-> IF i = 0 THEN 0 ELSE Len(at[i])]
               Good(m) == /\ at[m] \in Seq(Glyphs)
                          /\ \A i \in 1..m : off[i] = off[i - 1] + Len(parts[i]) /\ off[i - 1] \in 0..off[m]
                          /\ \A i \in 1..m : \A j \in 1..Len(parts[i]) : at[m][off[i - 1] + j] = parts[i][j]
               S == {m \in Nat : m \in 1..n => Good(m)}
    <2>3. off[0] = 0 /\ \A i \in 1..n : off[i] = Len(at[i])
      BY <1>0
    <2> HIDE DEF n, off
    <2>4. 0 \in S
      OBVIOUS
    <2>5. ASSUME NEW m \in Nat, m \in S PROVE m + 1 \in S
      <3> SUFFICES ASSUME m + 1 \in 1..n PROVE Good(m + 1)
        OBVIOUS
      <3>1. CASE m = 0
        <4>1. at[1] = parts[1] /\ parts[1] \in Seq(Glyphs) /\ m + 1 = 1 /\ 1 - 1 = 0 /\ off[1] = Len(parts[1])
          BY <1>0, <2>2, <2>3, <3>1
        <4>2. \A i \in 1..1 : i = 1 /\ i - 1 = 0
          OBVIOUS
        <4>3. Len(parts[1]) \in Nat
          BY <4>1
        <4>4. \A i \in 1..1 : off[i] = off[i - 1] + Len(parts[i]) /\ off[i - 1] \in 0..off[1]
          BY <2>3, <4>1, <4>2, <4>3
        <4>5. \A i \in 1..1 : \A j \in 1..Len(parts[i]) : at[1][off[i - 1] + j] = parts[i][j]
          BY <2>3, <4>1, <4>2
        <4>6. Good(1)
          BY <4>1, <4>4, <4>5
        <4> HIDE DEF Good
        <4> QED BY <4>1, <4>6
      <3>2. CASE m # 0
        <4>1. m \in 1..n /\ m + 1 # 1 /\ (m + 1) - 1 = m
          BY <1>0, <3>2
        <4> DEFINE a == at[m]
                   b == parts[m + 1]
                   c == a \o b
        <4>2. at[m + 1] = c
          BY <2>2, <4>1
        <4>3. a \in Seq(Glyphs) /\ b \in Seq(Glyphs)
          BY <1>0, <2>5, <4>1
        <4>4. off[m] = Len(a) /\ off[m + 1] = Len(c)
          BY <2>3, <4>1, <4>2
        <4>5. /\ \A i \in 1..m : off[i] = off[i - 1] + Len(parts[i]) /\ off[i - 1] \in 0..off[m]
              /\ \A i \in 1..m : \A j \in 1..Len(parts[i]) : a[off[i - 1] + j] = parts[i][j]
          BY <2>5, <4>1
        <4> HIDE DEF a, b
        <4>6. /\ c \in Seq(Glyphs) /\ Len(c) = Len(a) + Len(b) /\ Len(a) \in Nat /\ Len(b) \in Nat
              /\ \A j \in 1..Len(a) : c[j] = a[j]
              /\ \A j \in 1..Len(b) : c[Len(a) + j] = b[j]
          BY <4>3
        <4> HIDE DEF c
        <4>7. off[m + 1] = off[m] + Len(b) /\ off[m] \in 0..off[m + 1]
          BY <4>4, <4>6
        <4>8. ASSUME NEW i \in 1..(m + 1)
              PROVE  off[i] = off[i - 1] + Len(parts[i]) /\ off[i - 1] \in 0..off[m + 1]
          <5>1. CASE i = m + 1
            <6>1. off[i - 1] = off[m] /\ off[i] = off[m + 1] /\ parts[i] = b
              BY <4>1, <5>1 DEF b
            <6> QED BY <4>7, <6>1
          <5>2. CASE i \in 1..m
            <6>1. off[i] = off[i - 1] + Len(parts[i]) /\ off[i - 1] \in 0..off[m]
              BY <4>5, <5>2
            <6>2. 0..off[m] \subseteq 0..off[m + 1]
              BY <4>7
            <6> QED BY <6>1, <6>2
          <5> QED BY <5>1, <5>2
        <4>9. ASSUME NEW i \in 1..(m + 1), NEW j \in 1..Len(parts[i])
              PROVE  c[off[i - 1] + j] = parts[i][j]
          <5>1. CASE i = m + 1
            <6>1. off[i - 1] = Len(a) /\ parts[i] = b
              BY <4>1, <4>4, <5>1 DEF b
            <6> QED BY <4>6, <6>1
          <5>2. CASE i \in 1..m
            <6>1. off[i] \in 0..Len(a)
              <7>1. CASE i = m
                BY <4>4, <4>6, <7>1
              <7>2. CASE i + 1 \in 1..m
                <8>1. (i + 1) - 1 = i
                  OBVIOUS
                <8> QED BY <4>4, <4>5, <7>2, <8>1
              <7> QED BY <5>2, <7>1, <7>2
            <6>2. off[i] = off[i - 1] + Len(parts[i]) /\ off[i - 1] \in 0..Len(a)
              BY <4>4, <4>5, <5>2
            <6>3. parts[i] \in Seq(Glyphs)
              BY <1>0, <4>1, <5>2
            <6>4. Len(parts[i]) \in Nat
              BY <6>3
            <6>5. off[i - 1] + j \in 1..Len(a)
              BY <4>6, <6>1, <6>2, <6>4, SMTT(30)
            <6> QED BY <4>5, <4>6, <5>2, <6>5
          <5> QED BY <5>1, <5>2
        <4> QED BY <4>2, <4>6, <4>8, <4>9
      <3> QED BY <3>1, <3>2
    <2>6. Nat \subseteq S
      <3> HIDE DEF S
      <3> QED BY <2>4, <2>5, Inductively
    <2>7. n \in 1..n
      BY <1>0, <1>2
    <2>8. Good(n)
      BY <1>0, <2>6, <2>7
    <2>9. off[n] = Len(at[n]) /\ off[n] \in Nat
      BY <2>3, <2>7, <2>8
    <2>10. \A i \in 0..n : off[i] \in 0..Len(at[n])
      <3> SUFFICES ASSUME NEW i \in 0..n PROVE off[i] \in 0..off[n]
        BY <2>9
      <3>1. CASE i = n
        BY <2>9, <3>1
      <3>2. CASE i + 1 \in 1..n
        <4>1. (i + 1) - 1 = i
          OBVIOUS
        <4> QED BY <2>8, <3>2, <4>1
      <3> QED BY <1>0, <3>1, <3>2
    <2>11. Lying(parts, off, at[n])
      BY <2>3, <2>8, <2>9, <2>10 DEF Lying, n
    <2> QED BY <2>1, <2>8, <2>11
  <1> QED BY <1>1, <1>2

LEMMA EarliestIs ==
    ASSUME NEW T \in SUBSET Nat, T # {}
    PROVE  Earliest(T) \in T /\ \A k \in T : Earliest(T) <= k
  <1>1. \E i \in T : \A k \in T : i <= k
    BY LeastOf
  <1> QED BY <1>1, Zenon DEF Earliest

LEMMA EarliestAt ==
    ASSUME NEW T \in SUBSET Nat, NEW i \in T, \A k \in T : i <= k
    PROVE  Earliest(T) = i
  <1>1. Earliest(T) \in T /\ \A k \in T : Earliest(T) <= k
    BY EarliestIs
  <1>2. Earliest(T) <= i /\ i <= Earliest(T) /\ Earliest(T) \in Nat /\ i \in Nat
    BY <1>1
  <1> QED BY <1>2

LEMMA FindIs ==
    ASSUME NEW s, NEW p, NEW i \in Nat \ {0}, Len(s) \in Nat
    PROVE  /\ \/ FindFrom(s, p, i) = 0
              \/ FindFrom(s, p, i) \in i..(Len(s) + 1) /\ StandsAt(s, p, FindFrom(s, p, i))
           /\ \A k \in i..(Len(s) + 1) : StandsAt(s, p, k) => FindFrom(s, p, i) # 0 /\ FindFrom(s, p, i) <= k
  <1> DEFINE T == {k \in i..(Len(s) + 1) : StandsAt(s, p, k)}
  <1>1. T \in SUBSET Nat /\ 0 \notin T
    OBVIOUS
  <1>2. FindFrom(s, p, i) = Earliest(T)
    BY Zenon DEF FindFrom
  <1>3. CASE T = {}
    <2>1. Earliest(T) = 0
      BY <1>3 DEF Earliest
    <2> QED BY <1>2, <1>3, <2>1
  <1>4. CASE T # {}
    <2> HIDE DEF T
    <2>1. Earliest(T) \in T /\ \A k \in T : Earliest(T) <= k
      BY <1>1, <1>4, EarliestIs
    <2>2. Earliest(T) # 0
      BY <1>1, <2>1
    <2> QED BY <1>2, <2>1, <2>2 DEF T
  <1> QED BY <1>3, <1>4

\* The first place of p at or after i, whatever way it is known to be that.
LEMMA FindAt ==
    ASSUME NEW s, NEW p, NEW i \in Nat \ {0}, Len(s) \in Nat, NEW f \in i..(Len(s) + 1), StandsAt(s, p, f),
           \A k \in i..(f - 1) : ~StandsAt(s, p, k)
    PROVE  FindFrom(s, p, i) = f
  <1> DEFINE g == FindFrom(s, p, i)
  <1>1. g # 0 /\ g <= f
    BY FindIs
  <1>2. g \in i..(Len(s) + 1) /\ StandsAt(s, p, g)
    BY <1>1, FindIs
  <1> HIDE DEF g
  <1>3. ~(g \in i..(f - 1))
    BY <1>2
  <1>4. g = f
    BY <1>1, <1>2, <1>3
  <1> QED BY <1>4 DEF g

LEMMA FindNone ==
    ASSUME NEW s, NEW p, NEW i \in Nat \ {0}, Len(s) \in Nat,
           \A k \in i..(Len(s) + 1) : ~StandsAt(s, p, k)
    PROVE  FindFrom(s, p, i) = 0
  BY FindIs

LEMMA StandsOne ==
    ASSUME NEW A, NEW s \in Seq(A), NEW c, NEW i \in 1..(Len(s) + 1)
    PROVE  StandsAt(s, <<c>>, i) <=> i <= Len(s) /\ s[i] = c
  <1>1. Len(<<c>>) = 1 /\ <<c>>[1] = c /\ i + 1 - 1 = i
    OBVIOUS
  <1>2. StandsAt(s, <<c>>, i) <=> i <= Len(s) /\ SubSeq(s, i, i) = <<c>>
    BY <1>1, Zenon DEF StandsAt
  <1>3. ASSUME i <= Len(s) PROVE SubSeq(s, i, i) = <<s[i]>>
    <2>1. i \in 1..Len(s)
      BY <1>3
    <2> DEFINE one == SubSeq(s, i, i)
    <2>2. one \in Seq(A) /\ Len(one) = 1 /\ one[1] = s[i]
      BY <2>1
    <2> HIDE DEF one
    <2>3. one = <<s[i]>>
      BY <2>2
    <2> QED BY <2>3 DEF one
  <1>4. <<s[i]>> = <<c>> <=> s[i] = c
    OBVIOUS
  <1> QED BY <1>2, <1>3, <1>4

LEMMA FindOne ==
    ASSUME NEW A, NEW s \in Seq(A), NEW c, NEW i \in Nat \ {0}
    PROVE  /\ FindFrom(s, <<c>>, i) = 0 \/ (FindFrom(s, <<c>>, i) \in i..Len(s) /\ s[FindFrom(s, <<c>>, i)] = c)
           /\ \A k \in i..Len(s) : s[k] = c => FindFrom(s, <<c>>, i) # 0 /\ FindFrom(s, <<c>>, i) <= k
  <1> DEFINE f == FindFrom(s, <<c>>, i)
             p == <<c>>
  <1>0. Len(s) \in Nat
    OBVIOUS
  <1>1. /\ f = 0 \/ (f \in i..(Len(s) + 1) /\ StandsAt(s, p, f))
        /\ \A k \in i..(Len(s) + 1) : StandsAt(s, p, k) => f # 0 /\ f <= k
    <2> HIDE DEF p
    <2> QED BY <1>0, FindIs DEF p
  <1>2. \A k \in 1..(Len(s) + 1) : StandsAt(s, p, k) <=> k <= Len(s) /\ s[k] = c
    BY StandsOne
  <1> HIDE DEF f, p
  <1>3. f = 0 \/ (f \in i..Len(s) /\ s[f] = c)
    BY <1>0, <1>1, <1>2
  <1>4. ASSUME NEW k \in i..Len(s), s[k] = c PROVE f # 0 /\ f <= k
    <2>1. k \in 1..(Len(s) + 1) /\ k \in i..(Len(s) + 1) /\ k <= Len(s)
      BY <1>0
    <2> QED BY <1>1, <1>2, <1>4, <2>1
  <1> QED BY <1>3, <1>4 DEF f

LEMMA SplitIs ==
    ASSUME NEW A, NEW s \in Seq(A), NEW sep \in Seq(A), sep # <<>>
    PROVE  \E rest : /\ SplitOn(s, sep) = rest[1]
                     /\ \A i \in 1..(Len(s) + 1) :
                          rest[i] = IF FindFrom(s, sep, i) = 0 THEN <<From(s, i)>>
                                    ELSE <<SubSeq(s, i, FindFrom(s, sep, i) - 1)>> \o rest[FindFrom(s, sep, i) + Len(sep)]
                     /\ \A i \in 1..(Len(s) + 1) : rest[i] \in Seq(Seq(A))
  <1> DEFINE n == Len(s)
             at(i) == FindFrom(s, sep, i)
             stops == {i \in 1..(n + 1) : at(i) = 0}
             last == [i \in 1..(n + 1) |-> <<From(s, i)>>]
             piece == [i \in 1..(n + 1) |-> <<SubSeq(s, i, at(i) - 1)>>]
             next == [i \in 1..(n + 1) |-> at(i) + Len(sep)]
             Goes(rest) == rest = [i \in 1..(n + 1) |-> IF at(i) = 0 THEN <<From(s, i)>>
                                       ELSE <<SubSeq(s, i, at(i) - 1)>> \o rest[at(i) + Len(sep)]]
             g == CHOOSE rest : Goes(rest)
  <1>1. n \in Nat /\ Len(sep) \in Nat \ {0}
    OBVIOUS
  <1>2. SplitOn(s, sep) = g[1]
    BY Zenon DEF SplitOn
  <1>3. \A i \in 1..(n + 1) : at(i) = 0 \/ (at(i) \in i..(n + 1) /\ at(i) + Len(sep) - 1 <= n)
    <2> SUFFICES ASSUME NEW i \in 1..(n + 1), at(i) # 0 PROVE at(i) \in i..(n + 1) /\ at(i) + Len(sep) - 1 <= n
      OBVIOUS
    <2>1. i \in Nat \ {0}
      BY <1>1
    <2>2. at(i) \in i..(n + 1) /\ StandsAt(s, sep, at(i))
      BY <1>1, <2>1, FindIs
    <2> QED BY <2>2, Zenon DEF StandsAt
  <1> HIDE DEF at
  <1>4. \A i \in 1..(n + 1) : last[i] = <<From(s, i)>> /\ piece[i] = <<SubSeq(s, i, at(i) - 1)>>
                              /\ next[i] = at(i) + Len(sep) /\ (i \in stops <=> at(i) = 0)
    OBVIOUS
  <1>5. \A i \in 1..(n + 1) : last[i] \in Seq(Seq(A)) /\ (i \notin stops => piece[i] \in Seq(Seq(A)))
    <2> TAKE i \in 1..(n + 1)
    <2>1. From(s, i) \in Seq(A)
      BY <1>1 DEF From
    <2>2. at(i) # 0 => SubSeq(s, i, at(i) - 1) \in Seq(A)
      <3> SUFFICES ASSUME at(i) # 0 PROVE SubSeq(s, i, at(i) - 1) \in Seq(A)
        OBVIOUS
      <3>1. at(i) - 1 \in 0..n /\ at(i) - 1 <= n
        BY <1>1, <1>3
      <3> QED BY <1>1, <3>1
    <2>3. \A x \in Seq(A) : <<x>> \in Seq(Seq(A))
      OBVIOUS
    <2> HIDE DEF last, piece, stops
    <2> QED BY <1>4, <2>1, <2>2, <2>3
  <1> HIDE DEF last, piece, next, stops
  <1>6. \A i \in 1..(n + 1) : i \notin stops => next[i] \in (i + 1)..(n + 1)
    BY <1>1, <1>3, <1>4
  <1>7. \A rest : ChainedFrom(1, n, stops, last, piece, next, rest) <=> Goes(rest)
    <2> TAKE rest
    <2>1. \A i \in 1..(n + 1) : (IF i \in stops THEN last[i] ELSE piece[i] \o rest[next[i]])
               = (IF at(i) = 0 THEN <<From(s, i)>> ELSE <<SubSeq(s, i, at(i) - 1)>> \o rest[at(i) + Len(sep)])
      BY <1>4, Zenon
    <2>2. [i \in 1..(n + 1) |-> IF i \in stops THEN last[i] ELSE piece[i] \o rest[next[i]]]
          = [i \in 1..(n + 1) |-> IF at(i) = 0 THEN <<From(s, i)>>
                                  ELSE <<SubSeq(s, i, at(i) - 1)>> \o rest[at(i) + Len(sep)]]
      BY <2>1, Zenon
    <2> QED BY <2>2, Zenon DEF ChainedFrom
  <1>8. \E rest : ChainedFrom(1, n, stops, last, piece, next, rest)
    <2> HIDE DEF n
    <2> QED BY <1>1, <1>6, ChainExists
  <1>9. Goes(g)
    <2>1. \E rest : Goes(rest)
      <3> HIDE DEF Goes
      <3> QED BY <1>7, <1>8
    <2> HIDE DEF Goes
    <2> QED BY <2>1, Zenon
  <1>10. ChainedFrom(1, n, stops, last, piece, next, g)
    <2> HIDE DEF Goes, g
    <2> QED BY <1>7, <1>9
  <1> HIDE DEF g
  <1>11. \A i \in 1..(n + 1) : g[i] \in Seq(Seq(A))
    <2> DEFINE B == Seq(A)
    <2>1. \A i \in 1..(n + 1) : last[i] \in Seq(B) /\ (i \notin stops => piece[i] \in Seq(B))
      BY <1>5
    <2> HIDE DEF n, B
    <2>2. \A i \in 1..(n + 1) : i \notin stops => next[i] \in (i + 1)..(n + 1) /\ piece[i] \in Seq(B)
      BY <1>6, <2>1
    <2>3. \A i \in 1..(n + 1) : i \in stops => last[i] \in Seq(B)
      BY <2>1
    <2>4. \A i \in 1..(n + 1) : g[i] \in Seq(B)
      BY <1>1, <1>10, <2>2, <2>3, ChainedIn
    <2> QED BY <2>4 DEF B
  <1>12. \A i \in 1..(n + 1) : g[i] = IF at(i) = 0 THEN <<From(s, i)>>
                                      ELSE <<SubSeq(s, i, at(i) - 1)>> \o g[at(i) + Len(sep)]
    BY <1>9, Zenon
  <1> QED BY <1>2, <1>11, <1>12, Zenon DEF at, n

\* A text joined part by part.
LEMMA JoinOne ==
    ASSUME NEW A, NEW x \in Seq(A), NEW sep \in Seq(A)
    PROVE  JoinWith(<<x>>, sep) = x
  <1> DEFINE q == [i \in DOMAIN <<x>> |-> IF i = 1 THEN <<x>>[1] ELSE sep \o <<x>>[i]]
  <1>1. DOMAIN <<x>> = {1} /\ <<x>>[1] = x
    OBVIOUS
  <1>2. q = <<x>>
    BY <1>1
  <1>3. JoinWith(<<x>>, sep) = Glue(q)
    BY Zenon DEF JoinWith
  <1> HIDE DEF q
  <1>4. Len(q) = 1 /\ q[1] = x
    BY <1>2
  <1>5. PICK at : Gluing(q, at, Len(q)) /\ Glue(q) = at[Len(q)]
    <2>1. Len(q) \in Nat \ {0}
      BY <1>4
    <2> QED BY <2>1, GlueIs
  <1>6. Gluing(q, at, 1) /\ Glue(q) = at[1]
    BY <1>4, <1>5
  <1>7. at[1] = x
    BY <1>4, <1>6 DEF Gluing
  <1> QED BY <1>3, <1>6, <1>7

LEMMA Associates ==
    ASSUME NEW A, NEW x \in Seq(A), NEW y \in Seq(A), NEW z \in Seq(A)
    PROVE  (x \o y) \o z = x \o (y \o z) /\ x \o y \in Seq(A) /\ y \o z \in Seq(A)
  BY ListsAgree

\* Three lists may be appended in either order.
EitherOrder(x, y, z) == (x \o y) \o z = x \o (y \o z)

LEMMA AppendsAssociate == \A A : \A x, y, z \in Seq(A) : EitherOrder(x, y, z)
  BY Associates DEF EitherOrder

LEMMA JoinMore ==
    ASSUME NEW A, NEW x \in Seq(A), NEW sep \in Seq(A), NEW more \in Seq(Seq(A)), more # <<>>
    PROVE  JoinWith(<<x>> \o more, sep) = x \o (sep \o JoinWith(more, sep)) /\ JoinWith(more, sep) \in Seq(A)
  <1> DEFINE n == Len(more)
             all == <<x>> \o more
             q == [i \in DOMAIN more |-> IF i = 1 THEN more[1] ELSE sep \o more[i]]
             r == [i \in DOMAIN all |-> IF i = 1 THEN all[1] ELSE sep \o all[i]]
  <1>1. n \in Nat \ {0} /\ DOMAIN more = 1..n /\ \A i \in 1..n : more[i] \in Seq(A)
    OBVIOUS
  <1>2. DOMAIN all = 1..(n + 1) /\ all[1] = x /\ \A i \in 1..n : all[i + 1] = more[i]
    <2> DEFINE B == Seq(A)
    <2>1. x \in B /\ more \in Seq(B)
      OBVIOUS
    <2> HIDE DEF B
    <2>2. <<x>> \in Seq(B) /\ Len(<<x>>) = 1 /\ <<x>>[1] = x
      BY <2>1
    <2> QED BY <1>1, <2>1, <2>2
  <1> HIDE DEF all
  <1>3. JoinWith(more, sep) = Glue(q) /\ JoinWith(all, sep) = Glue(r)
    BY Zenon DEF JoinWith
  <1>4. /\ Len(q) = n /\ Len(r) = n + 1
        /\ \A i \in 1..n : q[i] = IF i = 1 THEN more[1] ELSE sep \o more[i]
        /\ \A i \in 1..(n + 1) : r[i] = IF i = 1 THEN all[1] ELSE sep \o all[i]
    <2> HIDE DEF n
    <2> QED BY <1>1, <1>2
  <1> HIDE DEF q, r, n
  <1>5. PICK at : Gluing(q, at, n) /\ Glue(q) = at[n]
    <2>1. Len(q) \in Nat \ {0}
      BY <1>1, <1>4
    <2> QED BY <1>4, <2>1, GlueIs
  <1>6. PICK bt : Gluing(r, bt, n + 1) /\ Glue(r) = bt[n + 1]
    <2>1. Len(r) \in Nat \ {0}
      BY <1>1, <1>4
    <2> QED BY <1>4, <2>1, GlueIs
  <1>7. \A i \in 1..n : at[i] = IF i = 1 THEN q[i] ELSE at[i - 1] \o q[i]
    BY <1>5 DEF Gluing
  <1>8. \A i \in 1..(n + 1) : bt[i] = IF i = 1 THEN r[i] ELSE bt[i - 1] \o r[i]
    BY <1>6 DEF Gluing
  <1> DEFINE Good(m) == at[m] \in Seq(A) /\ bt[m + 1] = x \o (sep \o at[m])
             S == {m \in Nat : m \in 1..n => Good(m)}
  <1>9. 0 \in S
    OBVIOUS
  <1>10. ASSUME NEW m \in Nat, m \in S PROVE m + 1 \in S
    <2> SUFFICES ASSUME m + 1 \in 1..n PROVE Good(m + 1)
      OBVIOUS
    <2>1. CASE m = 0
      <3>1. 1 \in 1..n /\ 1 \in 1..(n + 1) /\ 2 \in 1..(n + 1) /\ 2 # 1 /\ 2 - 1 = 1 /\ 1 + 1 = 2 /\ m + 1 = 1
        BY <1>1, <2>1
      <3>2. at[1] = more[1] /\ more[1] \in Seq(A)
        BY <1>1, <1>4, <1>7, <3>1
      <3>3. bt[1] = x
        BY <1>2, <1>4, <1>8, <3>1
      <3>4. bt[2] = bt[1] \o r[2] /\ r[2] = sep \o all[2] /\ all[2] = more[1]
        BY <1>2, <1>4, <1>8, <3>1
      <3>5. Good(1)
        BY <3>1, <3>2, <3>3, <3>4
      <3> HIDE DEF Good
      <3> QED BY <3>1, <3>5
    <2>2. CASE m # 0
      <3>1. /\ m \in 1..n /\ m + 1 # 1 /\ (m + 1) - 1 = m /\ m + 1 \in 1..(n + 1)
            /\ m + 2 \in 1..(n + 1) /\ m + 2 # 1 /\ (m + 2) - 1 = m + 1 /\ (m + 1) + 1 = m + 2
        BY <1>1, <2>2
      <3> DEFINE a == at[m]
                 b == more[m + 1]
      <3>2. a \in Seq(A) /\ bt[m + 1] = x \o (sep \o a)
        BY <1>10, <3>1
      <3>3. at[m + 1] = a \o (sep \o b) /\ b \in Seq(A)
        BY <1>1, <1>4, <1>7, <3>1
      <3>4. bt[m + 2] = bt[m + 1] \o r[m + 2] /\ r[m + 2] = sep \o all[m + 2] /\ all[m + 2] = b
        <4>1. all[(m + 1) + 1] = more[m + 1]
          BY <1>2
        <4>2. bt[m + 2] = bt[(m + 2) - 1] \o r[m + 2]
          BY <1>8, <3>1
        <4>3. r[m + 2] = sep \o all[m + 2]
          BY <1>4, <3>1
        <4> QED BY <3>1, <4>1, <4>2, <4>3
      <3> HIDE DEF a, b
      <3> DEFINE c == sep \o b
                 d == sep \o a
      <3>5. c \in Seq(A) /\ d \in Seq(A)
        BY <3>2, <3>3
      <3> HIDE DEF c, d
      <3>6. bt[m + 2] = (x \o d) \o c
        BY <3>2, <3>4, Zenon DEF c, d
      <3>7. (x \o d) \o c = x \o (d \o c)
        <4>1. x \in Seq(A)
          OBVIOUS
        <4>2. EitherOrder(x, d, c)
          BY <3>5, <4>1, AppendsAssociate, Zenon
        <4> QED BY <4>2, Zenon DEF EitherOrder
      <3>8. d \o c = sep \o (a \o c)
        <4>1. sep \in Seq(A) /\ a \in Seq(A) /\ c \in Seq(A)
          BY <3>2, <3>5
        <4>2. EitherOrder(sep, a, c)
          BY <4>1, AppendsAssociate, Zenon
        <4> QED BY <4>2, Zenon DEF EitherOrder, d
      <3>9. at[m + 1] = a \o c /\ a \o c \in Seq(A)
        BY <3>2, <3>3, <3>5, Associates DEF c
      <3>10. Good(m + 1)
        BY <3>1, <3>6, <3>7, <3>8, <3>9
      <3> QED BY <3>10
    <2> QED BY <2>1, <2>2
  <1>11. Nat \subseteq S
    <2> HIDE DEF S
    <2> QED BY <1>9, <1>10, Inductively
  <1>12. Good(n)
    <2>1. n \in Nat /\ n \in 1..n
      BY <1>1
    <2> QED BY <1>11, <2>1
  <1> QED BY <1>3, <1>5, <1>6, <1>12 DEF all

LEMMA Both ==
    ASSUME NEW A, NEW x \in Seq(A), NEW y \in Seq(A)
    PROVE  /\ x \o y \in Seq(A) /\ Len(x \o y) = Len(x) + Len(y) /\ Len(x) \in Nat /\ Len(y) \in Nat
           /\ \A j \in 1..Len(x) : (x \o y)[j] = x[j]
           /\ \A j \in 1..(Len(x) + Len(y)) : j > Len(x) => (x \o y)[j] = y[j - Len(x)]
  OBVIOUS

LEMMA Sliced ==
    ASSUME NEW A, NEW s \in Seq(A), NEW i \in 1..(Len(s) + 1), NEW m \in Nat, NEW k \in i..(Len(s) + 1), k + m - 1 <= Len(s)
    PROVE  SubSeq(s, i, k - 1) \o (SubSeq(s, k, k + m - 1) \o From(s, k + m)) = From(s, i)
  <1> DEFINE a == SubSeq(s, i, k - 1)
             b == SubSeq(s, k, k + m - 1)
             c == SubSeq(s, k + m, Len(s))
             d == SubSeq(s, i, Len(s))
             n == Len(s)
  <1>1. n \in Nat /\ i \in 1..(n + 1) /\ k \in i..(n + 1) /\ k + m - 1 <= n
    OBVIOUS
  <1>2. a \in Seq(A) /\ Len(a) = k - i /\ \A j \in 1..(k - i) : a[j] = s[i + j - 1]
    BY <1>1
  <1>3. b \in Seq(A) /\ Len(b) = m /\ \A j \in 1..m : b[j] = s[k + j - 1]
    BY <1>1
  <1>4. c \in Seq(A) /\ Len(c) = n + 1 - k - m /\ \A j \in 1..(n + 1 - k - m) : c[j] = s[k + m + j - 1]
    BY <1>1
  <1>5. d \in Seq(A) /\ Len(d) = n + 1 - i /\ \A j \in 1..(n + 1 - i) : d[j] = s[i + j - 1]
    BY <1>1
  <1> HIDE DEF a, b, c, d, n
  <1> DEFINE e == b \o c
             f == a \o e
  <1>6. /\ e \in Seq(A) /\ Len(e) = n + 1 - k
        /\ \A j \in 1..m : e[j] = b[j]
        /\ \A j \in 1..(n + 1 - k) : j > m => e[j] = c[j - m]
    <2>1. /\ e \in Seq(A) /\ Len(e) = Len(b) + Len(c)
          /\ \A j \in 1..Len(b) : e[j] = b[j]
          /\ \A j \in 1..(Len(b) + Len(c)) : j > Len(b) => e[j] = c[j - Len(b)]
      BY <1>3, <1>4, Both, ZenonT(30)
    <2>2. Len(b) = m /\ Len(b) + Len(c) = n + 1 - k
      BY <1>1, <1>3, <1>4
    <2> QED BY <2>1, <2>2
  <1> HIDE DEF e
  <1>7. \A j \in 1..(n + 1 - k) : e[j] = s[k + j - 1]
    <2> TAKE j \in 1..(n + 1 - k)
    <2>1. CASE j <= m
      BY <1>1, <1>3, <1>6, <2>1
    <2>2. CASE j > m
      <3>1. j - m \in 1..(n + 1 - k - m) /\ k + m + (j - m) - 1 = k + j - 1
        BY <1>1, <2>2
      <3> QED BY <1>4, <1>6, <2>2, <3>1
    <2> QED BY <1>1, <2>1, <2>2
  <1>8. /\ f \in Seq(A) /\ Len(f) = n + 1 - i
        /\ \A j \in 1..(k - i) : f[j] = a[j]
        /\ \A j \in 1..(n + 1 - i) : j > k - i => f[j] = e[j - (k - i)]
    <2>1. /\ f \in Seq(A) /\ Len(f) = Len(a) + Len(e)
          /\ \A j \in 1..Len(a) : f[j] = a[j]
          /\ \A j \in 1..(Len(a) + Len(e)) : j > Len(a) => f[j] = e[j - Len(a)]
      BY <1>2, <1>6, Both
    <2>2. Len(a) = k - i /\ Len(a) + Len(e) = n + 1 - i
      BY <1>1, <1>2, <1>6
    <2> QED BY <2>1, <2>2
  <1> HIDE DEF f
  <1>9. \A j \in 1..(n + 1 - i) : f[j] = s[i + j - 1]
    <2> TAKE j \in 1..(n + 1 - i)
    <2>1. CASE j <= k - i
      BY <1>1, <1>2, <1>8, <2>1
    <2>2. CASE j > k - i
      <3>1. j - (k - i) \in 1..(n + 1 - k) /\ k + (j - (k - i)) - 1 = i + j - 1
        BY <1>1, <2>2
      <3> QED BY <1>7, <1>8, <2>2, <3>1
    <2> QED BY <1>1, <2>1, <2>2
  <1>10. f = d
    BY <1>1, <1>5, <1>8, <1>9
  <1> QED BY <1>10 DEF a, b, c, d, e, f, n, From

LEMMA SplitJoins ==
    ASSUME NEW A, NEW s \in Seq(A), NEW sep \in Seq(A), sep # <<>>
    PROVE  /\ SplitOn(s, sep) \in Seq(Seq(A)) /\ SplitOn(s, sep) # <<>>
           /\ JoinWith(SplitOn(s, sep), sep) = s
  <1> DEFINE n == Len(s)
             m == Len(sep)
             at(i) == FindFrom(s, sep, i)
  <1>1. PICK rest : /\ SplitOn(s, sep) = rest[1]
                    /\ \A i \in 1..(n + 1) : rest[i] = IF at(i) = 0 THEN <<From(s, i)>>
                                                       ELSE <<SubSeq(s, i, at(i) - 1)>> \o rest[at(i) + m]
                    /\ \A i \in 1..(n + 1) : rest[i] \in Seq(Seq(A))
    BY SplitIs
  <1> DEFINE T == {i \in 1..(n + 1) : rest[i] # <<>> /\ JoinWith(rest[i], sep) = From(s, i)}
  <1>2. n \in Nat /\ m \in Nat \ {0} /\ n + 1 \in Nat
    OBVIOUS
  <1>3. ASSUME NEW i \in 1..(n + 1), \A k \in (i + 1)..(n + 1) : k \in T PROVE i \in T
    <2>1. From(s, i) \in Seq(A)
      BY <1>2 DEF From
    <2>2. CASE at(i) = 0
      <3> DEFINE x == From(s, i)
      <3>1. rest[i] = <<x>> /\ <<x>> # <<>>
        BY <1>1, <2>2
      <3>2. JoinWith(<<x>>, sep) = x
        <4> HIDE DEF x
        <4> QED BY <2>1, JoinOne DEF x
      <3> QED BY <3>1, <3>2
    <2>3. CASE at(i) # 0
      <3> DEFINE k == at(i)
      <3>1. k \in i..(n + 1) /\ StandsAt(s, sep, k)
        <4>1. i \in Nat \ {0}
          BY <1>2
        <4> QED BY <1>2, <2>3, <4>1, FindIs
      <3>2. rest[i] = <<SubSeq(s, i, k - 1)>> \o rest[k + m]
        BY <1>1, <2>3
      <3> HIDE DEF k
      <3>3. k + m - 1 <= n /\ SubSeq(s, k, k + m - 1) = sep
        BY <3>1, Zenon DEF StandsAt
      <3>4. k + m \in (i + 1)..(n + 1) /\ k + m \in 1..(n + 1) /\ k - 1 <= n /\ k - 1 \in Nat
        BY <1>2, <3>1, <3>3
      <3> DEFINE x == SubSeq(s, i, k - 1)
                 more == rest[k + m]
                 y == From(s, k + m)
      <3>5. more \in Seq(Seq(A)) /\ more # <<>> /\ JoinWith(more, sep) = y
        BY <1>1, <1>3, <3>4
      <3>6. x \in Seq(A)
        BY <1>2, <3>4
      <3>7. x \o (sep \o y) = From(s, i)
        <4>1. x \o (SubSeq(s, k, k + m - 1) \o From(s, k + m)) = From(s, i)
          BY <1>2, <3>1, <3>3, Sliced
        <4> QED BY <3>3, <4>1
      <3> HIDE DEF x, more, y
      <3>8. JoinWith(<<x>> \o more, sep) = x \o (sep \o y)
        BY <3>5, <3>6, JoinMore, ZenonT(30)
      <3>9. <<x>> \o more # <<>>
        <4> DEFINE B == Seq(A)
        <4>1. x \in B /\ more \in Seq(B)
          BY <3>5, <3>6
        <4> HIDE DEF B
        <4>2. Len(<<x>> \o more) = 1 + Len(more) /\ Len(more) \in Nat /\ Len(<<>>) = 0
          BY <4>1
        <4> QED BY <4>2
      <3>10. rest[i] # <<>> /\ JoinWith(rest[i], sep) = From(s, i)
        BY <3>2, <3>7, <3>8, <3>9, Zenon DEF x, more
      <3> QED BY <3>10
    <2> QED BY <2>2, <2>3
  <1>4. 1..(n + 1) \subseteq T
    <2> HIDE DEF T, n
    <2> QED BY <1>2, <1>3, FromTheEnd
  <1>5. 1 \in T /\ 1 \in 1..(n + 1)
    BY <1>2, <1>4
  <1>6. From(s, 1) = s
    BY DEF From
  <1> QED BY <1>1, <1>5, <1>6

\* The parts of a split on "": the characters, and an empty part at each end.
LEMMA Letters ==
    ASSUME NEW A, NEW s \in Seq(A)
    PROVE  LET parts == Parts(s, <<>>)
           IN parts \in Seq(Seq(A)) /\ parts # <<>> /\ JoinWith(parts, <<>>) = s
  <1> DEFINE n == Len(s)
             none == <<>>
             letters == [i \in DOMAIN s |-> <<s[i]>>]
             parts == (<<none>> \o letters) \o <<none>>
             q == [i \in DOMAIN parts |-> IF i = 1 THEN parts[1] ELSE none \o parts[i]]
  <1>1. n \in Nat /\ DOMAIN s = 1..n /\ \A i \in 1..n : s[i] \in A
    OBVIOUS
  <1>2. none \in Seq(A) /\ Len(none) = 0
    OBVIOUS
  <1>3. letters \in Seq(Seq(A)) /\ Len(letters) = n /\ \A i \in 1..n : letters[i] = <<s[i]>>
    <2>1. \A i \in 1..n : <<s[i]>> \in Seq(A)
      BY <1>1
    <2> DEFINE B == Seq(A)
    <2>2. letters \in [1..n -> B]
      BY <1>1, <2>1
    <2> HIDE DEF B
    <2>3. letters \in Seq(B) /\ Len(letters) = n
      BY <1>1, <2>2
    <2> QED BY <1>1, <2>3 DEF B
  <1>4. Parts(s, <<>>) = parts
    <2>1. <<<<>>>> \o [i \in DOMAIN s |-> <<s[i]>>] \o <<<<>>>> = parts
      OBVIOUS
    <2> QED BY <2>1, Zenon DEF Parts
  <1> HIDE DEF none, letters
  <1>5. /\ parts \in Seq(Seq(A)) /\ Len(parts) = n + 2
        /\ parts[1] = none /\ parts[n + 2] = none /\ \A i \in 1..n : parts[i + 1] = <<s[i]>>
    <2> DEFINE B == Seq(A)
               a == <<none>>
               b == a \o letters
    <2>1. a \in Seq(B) /\ Len(a) = 1 /\ a[1] = none
      BY <1>2
    <2>2. letters \in Seq(B)
      BY <1>3
    <2> HIDE DEF a, B
    <2>3. /\ b \in Seq(B) /\ Len(b) = n + 1 /\ b[1] = none
          /\ \A i \in 1..n : b[i + 1] = letters[i]
      <3>1. /\ b \in Seq(B) /\ Len(b) = Len(a) + Len(letters)
            /\ \A j \in 1..Len(a) : b[j] = a[j]
            /\ \A j \in 1..(Len(a) + Len(letters)) : j > Len(a) => b[j] = letters[j - Len(a)]
        BY <2>1, <2>2, Both
      <3>2. Len(a) = 1 /\ Len(a) + Len(letters) = n + 1 /\ 1 \in 1..1
        BY <1>1, <1>3, <2>1
      <3>3. \A i \in 1..n : i + 1 \in 1..(n + 1) /\ i + 1 > 1 /\ (i + 1) - 1 = i
        BY <1>1
      <3> HIDE DEF b, n
      <3> QED BY <2>1, <3>1, <3>2, <3>3
    <2>4. parts = b \o a
      BY DEF a
    <2> HIDE DEF b, parts
    <2>5. /\ parts \in Seq(B) /\ Len(parts) = n + 2
          /\ \A i \in 1..(n + 1) : parts[i] = b[i]
          /\ parts[n + 2] = a[1]
      <3>1. /\ parts \in Seq(B) /\ Len(parts) = Len(b) + Len(a)
            /\ \A j \in 1..Len(b) : parts[j] = b[j]
            /\ \A j \in 1..(Len(b) + Len(a)) : j > Len(b) => parts[j] = a[j - Len(b)]
        BY <2>1, <2>3, <2>4, Both
      <3>2. Len(b) = n + 1 /\ Len(b) + Len(a) = n + 2 /\ n + 2 \in 1..(n + 2) /\ n + 2 > n + 1 /\ (n + 2) - (n + 1) = 1
        BY <1>1, <2>1, <2>3
      <3> HIDE DEF n
      <3> QED BY <3>1, <3>2
    <2>6. parts[1] = none /\ \A i \in 1..n : parts[i + 1] = <<s[i]>>
      <3>1. 1 \in 1..(n + 1) /\ \A i \in 1..n : i + 1 \in 1..(n + 1)
        BY <1>1
      <3> HIDE DEF n
      <3> QED BY <1>3, <2>3, <2>5, <3>1
    <2> HIDE DEF n
    <2> QED BY <2>1, <2>5, <2>6 DEF B
  <1> HIDE DEF parts
  <1>6. JoinWith(parts, <<>>) = Glue(q)
    BY Zenon DEF JoinWith, none
  <1>7. q = parts
    <2>1. DOMAIN parts = 1..(n + 2) /\ \A i \in 1..(n + 2) : parts[i] \in Seq(A)
      BY <1>5
    <2>2. \A i \in 1..(n + 2) : parts[i] = none \o parts[i]
      BY <2>1 DEF none
    <2>3. \A i \in 1..(n + 2) : q[i] = parts[i]
      <3>1. \A i \in 1..(n + 2) : q[i] = IF i = 1 THEN parts[1] ELSE none \o parts[i]
        BY <2>1
      <3> HIDE DEF q
      <3> QED BY <2>2, <3>1
    <2>4. DOMAIN q = 1..(n + 2) /\ q = [i \in 1..(n + 2) |-> q[i]] /\ parts = [i \in 1..(n + 2) |-> parts[i]]
      BY <1>5, <2>1
    <2> HIDE DEF q
    <2> QED BY <2>3, <2>4, Zenon
  <1> HIDE DEF q
  <1> DEFINE w == Glue(parts)
  <1>8. w \in Seq(A) /\ \E off : Lying(parts, off, w)
    BY <1>5, GlueLies
  <1>9. PICK off : Lying(parts, off, w)
    BY <1>8
  <1> HIDE DEF w
  <1>10. /\ off[0] = 0 /\ off[n + 2] = Len(w)
         /\ \A i \in 1..(n + 2) : off[i] = off[i - 1] + Len(parts[i])
         /\ \A i \in 1..(n + 2) : \A j \in 1..Len(parts[i]) : w[off[i - 1] + j] = parts[i][j]
    BY <1>5, <1>9 DEF Lying
  <1> DEFINE S == {m \in Nat : m <= n => off[m + 1] = m}
  <1>11. 0 \in S
    <2>1. 1 \in 1..(n + 2) /\ 1 - 1 = 0 /\ Len(parts[1]) = 0
      BY <1>1, <1>2, <1>5
    <2>2. off[1] = off[1 - 1] + Len(parts[1])
      BY <1>10, <2>1
    <2>3. off[0 + 1] = 0
      BY <1>10, <2>1, <2>2
    <2> QED BY <2>3
  <1>12. ASSUME NEW m \in Nat, m \in S PROVE m + 1 \in S
    <2> SUFFICES ASSUME m + 1 <= n PROVE off[(m + 1) + 1] = m + 1
      OBVIOUS
    <2>1. m + 1 \in 1..n /\ (m + 1) + 1 \in 1..(n + 2) /\ ((m + 1) + 1) - 1 = m + 1
      BY <1>1
    <2>2. parts[(m + 1) + 1] = <<s[m + 1]>> /\ Len(<<s[m + 1]>>) = 1
      BY <1>5, <2>1
    <2>3. off[m + 1] = m
      BY <1>1, <1>12
    <2>4. off[(m + 1) + 1] = off[((m + 1) + 1) - 1] + Len(parts[(m + 1) + 1])
      BY <1>10, <2>1
    <2> QED BY <2>1, <2>2, <2>3, <2>4
  <1>13. Nat \subseteq S
    <2> HIDE DEF S
    <2> QED BY <1>11, <1>12, Inductively
  <1>14. \A m \in 0..n : off[m + 1] = m
    BY <1>1, <1>13
  <1>15. Len(w) = n
    <2>1. n + 2 \in 1..(n + 2) /\ (n + 2) - 1 = n + 1 /\ n \in 0..n
      BY <1>1
    <2>2. off[n + 2] = off[(n + 2) - 1] + Len(parts[n + 2])
      BY <1>10, <2>1
    <2>3. off[n + 1] = n /\ Len(parts[n + 2]) = 0 /\ off[n + 2] = Len(w)
      BY <1>2, <1>5, <1>10, <1>14, <2>1
    <2> QED BY <1>1, <2>1, <2>2, <2>3
  <1>16. \A i \in 1..n : w[i] = s[i]
    <2> TAKE i \in 1..n
    <2>1. i + 1 \in 1..(n + 2) /\ (i + 1) - 1 = i /\ i - 1 \in 0..n /\ (i - 1) + 1 = i
      BY <1>1
    <2>2. parts[i + 1] = <<s[i]>> /\ Len(<<s[i]>>) = 1 /\ <<s[i]>>[1] = s[i] /\ 1 \in 1..1
      BY <1>5
    <2>3. off[i] = i - 1
      BY <1>14, <2>1
    <2>4. w[off[(i + 1) - 1] + 1] = parts[i + 1][1]
      BY <1>10, <2>1, <2>2
    <2> QED BY <1>1, <2>1, <2>2, <2>3, <2>4
  <1>17. w = s
    BY <1>1, <1>8, <1>15, <1>16
  <1>18. parts # <<>>
    BY <1>1, <1>5
  <1>19. JoinWith(parts, <<>>) = s
    BY <1>6, <1>7, <1>17 DEF w
  <1> QED BY <1>4, <1>5, <1>18, <1>19, Zenon

\* Any text split at anything: the parts, joined again, are the text, each is
\* reached by its place from the front and from the end, and past either end there
\* is nothing (apply, resolve_split_index).
THEOREM SplitReaches ==
    ASSUME NEW A, NEW input \in Seq(A), NEW sep \in Seq(A)
    PROVE  SplitReachesEveryPart(input, sep)
  <1> DEFINE parts == Parts(input, sep)
             n == Len(parts)
  <1>1. parts \in Seq(Seq(A)) /\ parts # <<>> /\ JoinWith(parts, sep) = input
    <2>1. CASE sep = <<>>
      BY <2>1, Letters
    <2>2. CASE sep # <<>>
      <3>1. parts = SplitOn(input, sep)
        BY <2>2, Zenon DEF Parts
      <3> QED BY <2>2, <3>1, SplitJoins
    <2> QED BY <2>1, <2>2
  <1> HIDE DEF parts
  <1>2. n \in Nat /\ n # 0
    BY <1>1
  <1> HIDE DEF n
  <1>3. \A x : SplitPart(input, sep, x) = IF ResolveSplitIndex(x, n) = 0 THEN <<>> ELSE parts[ResolveSplitIndex(x, n)]
    BY Zenon DEF SplitPart, parts, n
  <1>4. ASSUME NEW k \in 0..(n - 1)
        PROVE  ResolveSplitIndex(k, n) = k + 1 /\ ResolveSplitIndex(k - n, n) = k + 1
    <2>1. ~(k < 0) /\ k - n < 0 /\ (k - n) + n = k
      BY <1>2
    <2> QED BY <2>1 DEF ResolveSplitIndex
  <1>5. ResolveSplitIndex(n, n) = 0 /\ ResolveSplitIndex(-n - 1, n) = 0
    BY <1>2 DEF ResolveSplitIndex
  <1>6. \A k \in 0..(n - 1) : SplitPart(input, sep, k) = parts[k + 1] /\ SplitPart(input, sep, k - n) = parts[k + 1]
    <2> TAKE k \in 0..(n - 1)
    <2>1. k + 1 # 0
      OBVIOUS
    <2> QED BY <1>3, <1>4, <2>1
  <1>7. SplitPart(input, sep, n) = <<>> /\ SplitPart(input, sep, -n - 1) = <<>>
    BY <1>3, <1>5
  <1> QED BY <1>1, <1>6, <1>7, Zenon DEF SplitReachesEveryPart, parts, n

\* Where the parts of a joined text lie.
JoinedAt(parts, sep, start, whole) ==
    LET n == Len(parts)
        Behind(k) == start[k] + Len(parts[k])
    IN /\ start[1] = 1 /\ Behind(n) = Len(whole) + 1
       /\ \A k \in 1..n : start[k] \in 1..(Len(whole) + 1) /\ Behind(k) \in start[k]..(Len(whole) + 1)
       /\ \A k \in 1..n : \A j \in 1..Len(parts[k]) : whole[start[k] + j - 1] = parts[k][j]
       /\ \A k \in 1..(n - 1) : start[k + 1] = Behind(k) + Len(sep)
       /\ \A k \in 1..(n - 1) : \A j \in 1..Len(sep) : whole[Behind(k) + j - 1] = sep[j]

LEMMA JoinLies ==
    ASSUME NEW A, NEW parts \in Seq(Seq(A)), parts # <<>>, NEW sep \in Seq(A)
    PROVE  JoinWith(parts, sep) \in Seq(A) /\ \E start : JoinedAt(parts, sep, start, JoinWith(parts, sep))
  <1> DEFINE n == Len(parts)
             m == Len(sep)
             q == [i \in DOMAIN parts |-> IF i = 1 THEN parts[1] ELSE sep \o parts[i]]
             w == Glue(q)
  <1>1. n \in Nat \ {0} /\ DOMAIN parts = 1..n /\ m \in Nat /\ \A i \in 1..n : parts[i] \in Seq(A) /\ Len(parts[i]) \in Nat
    OBVIOUS
  <1>2. JoinWith(parts, sep) = w
    BY Zenon DEF JoinWith
  <1>3. \A i \in 1..n : i # 1 => sep \o parts[i] \in Seq(A)
    BY <1>1
  <1>4. /\ q \in Seq(Seq(A)) /\ Len(q) = n
        /\ \A i \in 1..n : q[i] = IF i = 1 THEN parts[1] ELSE sep \o parts[i]
    <2> DEFINE B == Seq(A)
    <2>1. parts[1] \in B /\ \A i \in 1..n : i # 1 => sep \o parts[i] \in B
      BY <1>1, <1>3
    <2> HIDE DEF B
    <2>2. q \in [1..n -> B]
      BY <1>1, <2>1
    <2>3. \A i \in 1..n : q[i] = IF i = 1 THEN parts[1] ELSE sep \o parts[i]
      BY <1>1
    <2> HIDE DEF q, n
    <2>4. q \in Seq(B) /\ Len(q) = n
      BY <1>1, <2>2
    <2> QED BY <2>3, <2>4 DEF B
  <1>5. /\ q[1] = parts[1]
        /\ \A i \in 1..n : i # 1 => Len(q[i]) = m + Len(parts[i])
        /\ \A i \in 1..n : i # 1 => \A j \in 1..m : q[i][j] = sep[j]
        /\ \A i \in 1..n : i # 1 => \A j \in 1..Len(parts[i]) : q[i][m + j] = parts[i][j]
    <2>1. 1 \in 1..n
      BY <1>1
    <2>2. q[1] = parts[1] /\ \A i \in 1..n : i # 1 => q[i] = sep \o parts[i]
      BY <1>4, <2>1
    <2> HIDE DEF q, n
    <2>3. ASSUME NEW i \in 1..n, i # 1
          PROVE  /\ Len(q[i]) = m + Len(parts[i])
                 /\ \A j \in 1..m : q[i][j] = sep[j]
                 /\ \A j \in 1..Len(parts[i]) : q[i][m + j] = parts[i][j]
      <3> DEFINE p == parts[i]
                 o == sep \o p
      <3>1. p \in Seq(A) /\ q[i] = o
        BY <1>1, <2>2, <2>3
      <3> HIDE DEF p
      <3>2. Len(o) = m + Len(p) /\ (\A j \in 1..m : o[j] = sep[j]) /\ (\A j \in 1..Len(p) : o[m + j] = p[j])
        BY <3>1
      <3> HIDE DEF o, m
      <3> QED BY <3>1, <3>2 DEF p
    <2> QED BY <2>2, <2>3
  <1> HIDE DEF q
  <1>6. w \in Seq(A) /\ \E off : Lying(q, off, w)
    BY <1>4, GlueLies
  <1>7. PICK off : Lying(q, off, w)
    BY <1>6
  <1> HIDE DEF w
  <1>8. Len(w) \in Nat
    BY <1>6
  <1>9. /\ off[0] = 0 /\ off[n] = Len(w)
        /\ \A i \in 0..n : off[i] \in 0..Len(w)
        /\ \A i \in 1..n : off[i] = off[i - 1] + Len(q[i])
        /\ \A i \in 1..n : \A j \in 1..Len(q[i]) : w[off[i - 1] + j] = q[i][j]
    BY <1>4, <1>7 DEF Lying
  <1> DEFINE start == [k \in 1..n |-> IF k = 1 THEN 1 ELSE off[k - 1] + m + 1]
  <1>10. start[1] = 1 /\ \A k \in 1..n : k # 1 => start[k] = off[k - 1] + m + 1
    BY <1>1
  <1> HIDE DEF start, n, m
  <1>11. \A k \in 1..n : start[k] + Len(parts[k]) = off[k] + 1 /\ start[k] \in 1..(Len(w) + 1) /\ off[k] \in 0..Len(w)
    <2> TAKE k \in 1..n
    <2>1. off[k] \in 0..Len(w) /\ off[k - 1] \in 0..Len(w) /\ off[k] = off[k - 1] + Len(q[k])
      <3>1. k \in 0..n /\ k - 1 \in 0..n
        BY <1>1
      <3> QED BY <1>9, <3>1
    <2>2. CASE k = 1
      <3>1. off[1] = 0 + Len(parts[1])
        BY <1>5, <1>9, <2>1, <2>2
      <3>2. Len(parts[1]) \in Nat
        BY <1>1, <2>2
      <3> QED BY <1>8, <1>10, <2>1, <2>2, <3>1, <3>2
    <2>3. CASE k # 1
      <3>1. start[k] = off[k - 1] + m + 1 /\ Len(q[k]) = m + Len(parts[k]) /\ Len(parts[k]) \in Nat
        BY <1>1, <1>5, <1>10, <2>3
      <3> QED BY <1>1, <1>8, <2>1, <3>1, SMTT(30)
    <2> QED BY <2>2, <2>3
  <1>12. ASSUME NEW k \in 1..n, NEW j \in 1..Len(parts[k])
         PROVE  w[start[k] + j - 1] = parts[k][j]
    <2>1. CASE k = 1
      <3>1. Len(q[1]) = Len(parts[1]) /\ off[1 - 1] = 0 /\ start[1] = 1
        BY <1>5, <1>9, <1>10
      <3>2. w[off[1 - 1] + j] = q[1][j]
        BY <1>9, <2>1, <3>1
      <3>3. off[1 - 1] + j = start[1] + j - 1
        BY <1>1, <2>1, <3>1
      <3> QED BY <1>5, <2>1, <3>2, <3>3
    <2>2. CASE k # 1
      <3>1. m + j \in 1..Len(q[k]) /\ q[k][m + j] = parts[k][j]
        BY <1>1, <1>5, <2>2
      <3>2. w[off[k - 1] + (m + j)] = q[k][m + j]
        BY <1>9, <3>1
      <3>3. off[k - 1] + (m + j) = start[k] + j - 1
        <4>1. start[k] = off[k - 1] + m + 1 /\ off[k - 1] \in Nat /\ j \in Nat
          <5>1. k - 1 \in 0..n
            BY <1>1
          <5> QED BY <1>9, <1>10, <2>2, <5>1, <1>1, <1>8
        <4> QED BY <1>1, <4>1
      <3> QED BY <3>1, <3>2, <3>3
    <2> QED BY <2>1, <2>2
  <1>13. ASSUME NEW k \in 1..(n - 1)
         PROVE  /\ start[k + 1] = start[k] + Len(parts[k]) + m
                /\ \A j \in 1..m : w[start[k] + Len(parts[k]) + j - 1] = sep[j]
    <2>1. k \in 1..n /\ k + 1 \in 1..n /\ k + 1 # 1 /\ (k + 1) - 1 = k
      BY <1>1
    <2>2. start[k + 1] = off[k] + m + 1 /\ start[k] + Len(parts[k]) = off[k] + 1 /\ off[k] \in Nat
      BY <1>10, <1>11, <2>1, <1>8
    <2>3. ASSUME NEW j \in 1..m PROVE w[start[k] + Len(parts[k]) + j - 1] = sep[j]
      <3>1. j \in 1..Len(q[k + 1]) /\ q[k + 1][j] = sep[j]
        BY <1>1, <1>5, <2>1
      <3>2. w[off[(k + 1) - 1] + j] = q[k + 1][j]
        BY <1>9, <2>1, <3>1
      <3>3. start[k] + Len(parts[k]) + j - 1 = off[k] + j
        BY <1>1, <2>2
      <3> QED BY <2>1, <3>1, <3>2, <3>3
    <2>4. start[k + 1] = start[k] + Len(parts[k]) + m
      BY <1>1, <2>2
    <2> QED BY <2>3, <2>4
  <1>14. start[n] + Len(parts[n]) = Len(w) + 1
    <2>1. n \in 1..n
      BY <1>1
    <2> QED BY <1>9, <1>11, <2>1
  <1>15. \A k \in 1..n : start[k] \in 1..(Len(w) + 1) /\ start[k] + Len(parts[k]) \in start[k]..(Len(w) + 1)
    <2> TAKE k \in 1..n
    <2>1. start[k] + Len(parts[k]) = off[k] + 1 /\ start[k] \in 1..(Len(w) + 1) /\ off[k] \in 0..Len(w)
      BY <1>11
    <2>2. Len(parts[k]) \in Nat
      BY <1>1
    <2> QED BY <1>8, <2>1, <2>2, SMTT(30)
  <1>16. JoinedAt(parts, sep, start, w)
    BY <1>10, <1>12, <1>13, <1>14, <1>15, Zenon DEF JoinedAt, n, m
  <1> QED BY <1>2, <1>6, <1>16

LEMMA SameText ==
    ASSUME NEW A, NEW w \in Seq(A), NEW p \in Seq(A), NEW i \in 1..(Len(w) + 1), i + Len(p) - 1 <= Len(w),
           \A j \in 1..Len(p) : w[i + j - 1] = p[j]
    PROVE  SubSeq(w, i, i + Len(p) - 1) = p
  <1> DEFINE s == SubSeq(w, i, i + Len(p) - 1)
  <1>1. Len(p) \in Nat /\ Len(w) \in Nat
    OBVIOUS
  <1>2. s \in Seq(A) /\ Len(s) = Len(p) /\ \A j \in 1..Len(p) : s[j] = w[i + j - 1]
    BY <1>1
  <1> HIDE DEF s
  <1>3. s = p
    BY <1>1, <1>2
  <1> QED BY <1>3 DEF s

LEMMA RestOf ==
    ASSUME NEW B, NEW s \in Seq(B), NEW k \in 1..Len(s)
    PROVE  <<s[k]>> \o SubSeq(s, k + 1, Len(s)) = SubSeq(s, k, Len(s))
  <1> DEFINE n == Len(s)
             a == <<s[k]>>
             b == SubSeq(s, k + 1, n)
             c == SubSeq(s, k, n)
             d == a \o b
  <1>1. n \in Nat /\ k \in 1..n
    OBVIOUS
  <1>2. a \in Seq(B) /\ Len(a) = 1 /\ a[1] = s[k]
    OBVIOUS
  <1>3. b \in Seq(B) /\ Len(b) = n - k /\ \A j \in 1..(n - k) : b[j] = s[k + j]
    BY <1>1
  <1>4. c \in Seq(B) /\ Len(c) = n - k + 1 /\ \A j \in 1..(n - k + 1) : c[j] = s[k + j - 1]
    BY <1>1
  <1> HIDE DEF a, b, c, n
  <1>5. /\ d \in Seq(B) /\ Len(d) = Len(a) + Len(b)
        /\ \A j \in 1..Len(a) : d[j] = a[j]
        /\ \A j \in 1..(Len(a) + Len(b)) : j > Len(a) => d[j] = b[j - Len(a)]
    BY <1>2, <1>3, Both
  <1> HIDE DEF d
  <1>6. Len(d) = n - k + 1 /\ \A j \in 1..(n - k + 1) : d[j] = s[k + j - 1]
    <2>1. Len(a) + Len(b) = n - k + 1
      BY <1>1, <1>2, <1>3
    <2>2. ASSUME NEW j \in 1..(n - k + 1) PROVE d[j] = s[k + j - 1]
      <3>1. CASE j = 1
        BY <1>1, <1>2, <1>5, <3>1
      <3>2. CASE j > 1
        <4>1. j - 1 \in 1..(n - k) /\ k + (j - 1) = k + j - 1
          BY <1>1, <3>2
        <4>2. d[j] = b[j - 1]
          BY <1>2, <1>5, <2>1, <3>2
        <4> QED BY <1>3, <4>1, <4>2
      <3> QED BY <1>1, <3>1, <3>2
    <2> QED BY <1>5, <2>1, <2>2
  <1>7. d = c
    <2>1. Len(d) = Len(c) /\ \A j \in 1..Len(c) : d[j] = c[j]
      BY <1>4, <1>6
    <2>2. d \in Seq(B) /\ c \in Seq(B)
      BY <1>4, <1>5
    <2> QED BY <2>1, <2>2
  <1> QED BY <1>7 DEF a, b, c, d, n

LEMMA JoinedSplits ==
    ASSUME NEW A, NEW parts \in Seq(Seq(A)), parts # <<>>, NEW c \in A,
           \A k \in 1..Len(parts) : \A j \in 1..Len(parts[k]) : parts[k][j] # c
    PROVE  SplitOn(JoinWith(parts, <<c>>), <<c>>) = parts
  <1> DEFINE n == Len(parts)
             sep == <<c>>
             w == JoinWith(parts, sep)
             len(k) == Len(parts[k])
  <1>1. n \in Nat \ {0} /\ \A i \in 1..n : parts[i] \in Seq(A) /\ len(i) \in Nat
    OBVIOUS
  <1>2. sep \in Seq(A) /\ Len(sep) = 1 /\ sep[1] = c /\ sep # <<>>
    OBVIOUS
  <1> HIDE DEF sep
  <1>3. w \in Seq(A) /\ \E start : JoinedAt(parts, sep, start, w)
    BY <1>2, JoinLies
  <1>4. PICK start : JoinedAt(parts, sep, start, w)
    BY <1>3
  <1> HIDE DEF w
  <1>5. /\ start[1] = 1 /\ start[n] + len(n) = Len(w) + 1
        /\ \A k \in 1..n : start[k] \in 1..(Len(w) + 1) /\ start[k] + len(k) \in start[k]..(Len(w) + 1)
        /\ \A k \in 1..n : \A j \in 1..len(k) : w[start[k] + j - 1] = parts[k][j]
        /\ \A k \in 1..(n - 1) : start[k + 1] = start[k] + len(k) + 1
        /\ \A k \in 1..(n - 1) : w[start[k] + len(k)] = c
    <2>1. /\ start[1] = 1 /\ start[n] + len(n) = Len(w) + 1
          /\ \A k \in 1..n : start[k] \in 1..(Len(w) + 1) /\ start[k] + len(k) \in start[k]..(Len(w) + 1)
          /\ \A k \in 1..n : \A j \in 1..len(k) : w[start[k] + j - 1] = parts[k][j]
          /\ \A k \in 1..(n - 1) : start[k + 1] = start[k] + len(k) + Len(sep)
          /\ \A k \in 1..(n - 1) : \A j \in 1..Len(sep) : w[start[k] + len(k) + j - 1] = sep[j]
      BY <1>4, Zenon DEF JoinedAt
    <2>2. ASSUME NEW k \in 1..(n - 1) PROVE w[start[k] + len(k)] = c
      <3>1. w[start[k] + len(k) + 1 - 1] = sep[1]
        BY <1>2, <2>1
      <3>2. start[k] + len(k) \in Int
        <4>1. k \in 1..n
          BY <1>1
        <4>2. start[k] \in 1..(Len(w) + 1) /\ len(k) \in Nat
          BY <1>1, <2>1, <4>1
        <4> QED BY <4>2
      <3>3. start[k] + len(k) + 1 - 1 = start[k] + len(k)
        <4> HIDE DEF len
        <4> QED BY <3>2
      <3> QED BY <1>2, <3>1, <3>3
    <2> HIDE DEF len, n
    <2> QED BY <1>2, <2>1, <2>2
  <1>6. Len(w) \in Nat
    BY <1>3
  <1>7. PICK rest : /\ SplitOn(w, sep) = rest[1]
                    /\ \A i \in 1..(Len(w) + 1) :
                          rest[i] = IF FindFrom(w, sep, i) = 0 THEN <<From(w, i)>>
                                    ELSE <<SubSeq(w, i, FindFrom(w, sep, i) - 1)>> \o rest[FindFrom(w, sep, i) + Len(sep)]
    <2>1. w \in Seq(A) /\ sep \in Seq(A) /\ sep # <<>>
      BY <1>2, <1>3
    <2> QED BY <2>1, SplitIs
  <1>8. \A i \in 1..(Len(w) + 1) : StandsAt(w, sep, i) <=> i <= Len(w) /\ w[i] = c
    BY <1>3, StandsOne DEF sep
  <1>9. ASSUME NEW k \in 1..n
        PROVE  /\ \A i \in start[k]..(start[k] + len(k) - 1) : ~StandsAt(w, sep, i)
               /\ SubSeq(w, start[k], start[k] + len(k) - 1) = parts[k]
    <2>1. /\ start[k] \in 1..(Len(w) + 1) /\ start[k] + len(k) \in start[k]..(Len(w) + 1) /\ len(k) \in Nat
          /\ parts[k] \in Seq(A) /\ \A j \in 1..len(k) : w[start[k] + j - 1] = parts[k][j]
      BY <1>1, <1>5
    <2>2. ASSUME NEW i \in start[k]..(start[k] + len(k) - 1) PROVE ~StandsAt(w, sep, i)
      <3> DEFINE j == i - start[k] + 1
      <3>1. j \in 1..len(k) /\ start[k] + j - 1 = i /\ i \in 1..(Len(w) + 1)
        <4> DEFINE a == start[k]
                   b == len(k)
        <4>1. a \in 1..(Len(w) + 1) /\ a + b \in a..(Len(w) + 1) /\ b \in Nat /\ i \in a..(a + b - 1)
          BY <2>1
        <4> HIDE DEF a, b
        <4>2. i - a + 1 \in 1..b /\ a + (i - a + 1) - 1 = i /\ i \in 1..(Len(w) + 1)
          BY <1>6, <4>1
        <4> QED BY <4>2 DEF a, b
      <3>2. w[i] = parts[k][j] /\ parts[k][j] # c
        BY <2>1, <3>1
      <3> QED BY <1>8, <3>1, <3>2
    <2>3. start[k] + len(k) - 1 <= Len(w)
      <3> HIDE DEF len
      <3> QED BY <1>6, <2>1
    <2>4. SubSeq(w, start[k], start[k] + len(k) - 1) = parts[k]
      <3> DEFINE p == parts[k]
                 a == start[k]
      <3>1. /\ w \in Seq(A) /\ p \in Seq(A) /\ a \in 1..(Len(w) + 1) /\ a + Len(p) - 1 <= Len(w)
            /\ \A j \in 1..Len(p) : w[a + j - 1] = p[j]
        BY <1>3, <2>1, <2>3
      <3> HIDE DEF p, a
      <3>2. SubSeq(w, a, a + Len(p) - 1) = p
        BY <3>1, SameText
      <3> QED BY <3>2 DEF p, a
    <2> QED BY <2>2, <2>4
  <1> HIDE DEF len, n
  <1> DEFINE T == {k \in 1..n : rest[start[k]] = SubSeq(parts, k, n)}
  <1>10. ASSUME NEW k \in 1..n, \A i \in (k + 1)..n : i \in T PROVE k \in T
    <2>1. start[k] \in 1..(Len(w) + 1) /\ start[k] + len(k) \in start[k]..(Len(w) + 1) /\ len(k) \in Nat
      BY <1>1, <1>5
    <2> DEFINE f == start[k] + len(k)
    <2>4. (\A i \in start[k]..(f - 1) : ~StandsAt(w, sep, i)) /\ SubSeq(w, start[k], f - 1) = parts[k]
      <3>1. f - 1 = start[k] + len(k) - 1
        BY <1>6, <2>1
      <3> QED BY <1>9, <3>1
    <2>2. CASE k = n
      <3>1. start[k] + len(k) - 1 = Len(w)
        BY <1>5, <1>6, <2>1, <2>2
      <3>2. FindFrom(w, sep, start[k]) = 0
        <4>1. ~StandsAt(w, sep, Len(w) + 1)
          <5>1. Len(w) + 1 \in 1..(Len(w) + 1) /\ ~(Len(w) + 1 <= Len(w))
            BY <1>6
          <5> QED BY <1>8, <5>1
        <4>2. \A i \in start[k]..(Len(w) + 1) : ~StandsAt(w, sep, i)
          <5> TAKE i \in start[k]..(Len(w) + 1)
          <5>1. i = Len(w) + 1 \/ i \in start[k]..(f - 1)
            BY <1>6, <2>1, <3>1
          <5> QED BY <2>4, <4>1, <5>1
        <4>3. start[k] \in Nat \ {0}
          BY <1>6, <2>1
        <4> QED BY <1>6, <4>2, <4>3, FindNone
      <3>3. From(w, start[k]) = parts[k]
        <4>1. f - 1 = Len(w)
          BY <1>6, <2>1, <3>1
        <4> QED BY <2>4, <4>1 DEF From
      <3>4. rest[start[k]] = <<parts[k]>>
        BY <1>7, <2>1, <3>2, <3>3
      <3>5. SubSeq(parts, n, n) = <<parts[n]>>
        <4> DEFINE B == Seq(A)
        <4>1. parts \in Seq(B)
          OBVIOUS
        <4> HIDE DEF B
        <4>6. n \in Nat \ {0} /\ n = Len(parts)
          BY <1>1 DEF n
        <4>2. <<parts[n]>> \o SubSeq(parts, n + 1, n) = SubSeq(parts, n, n)
          <5>1. n \in 1..Len(parts)
            BY <4>6
          <5> QED BY <4>1, <4>6, <5>1, RestOf
        <4>3. SubSeq(parts, n + 1, n) = <<>>
          BY <4>1, <4>6
        <4>4. parts[n] \in B
          BY <4>1, <4>6
        <4>5. <<parts[n]>> \o <<>> = <<parts[n]>>
          BY <4>4
        <4> QED BY <4>2, <4>3, <4>5
      <3> QED BY <2>2, <3>4, <3>5
    <2>3. CASE k # n
      <3>1. k \in 1..(n - 1) /\ k + 1 \in (k + 1)..n /\ k + 1 \in 1..n
        BY <1>1, <2>3
      <3>2. w[f] = c /\ start[k + 1] = f + 1
        BY <1>5, <3>1
      <3>3. f \in 1..(Len(w) + 1) /\ f <= Len(w)
        <4>1. start[k + 1] \in 1..(Len(w) + 1)
          BY <1>5, <3>1
        <4> QED BY <1>6, <2>1, <3>2, <4>1
      <3>4. FindFrom(w, sep, start[k]) = f
        <4>1. StandsAt(w, sep, f) /\ start[k] \in Nat \ {0} /\ f \in start[k]..(Len(w) + 1)
          BY <1>6, <1>8, <2>1, <3>2, <3>3
        <4>2. \A i \in start[k]..(f - 1) : ~StandsAt(w, sep, i)
          BY <2>4
        <4> HIDE DEF f
        <4> QED BY <1>6, <4>1, <4>2, FindAt
      <3>5. SubSeq(w, start[k], f - 1) = parts[k]
        BY <2>4
      <3>6. rest[start[k]] = <<parts[k]>> \o rest[f + 1]
        <4>1. f # 0
          BY <1>6, <3>3
        <4> HIDE DEF f
        <4> QED BY <1>2, <1>7, <2>1, <3>4, <3>5, <4>1
      <3>7. rest[f + 1] = SubSeq(parts, k + 1, n)
        BY <1>10, <3>1, <3>2
      <3>8. <<parts[k]>> \o SubSeq(parts, k + 1, n) = SubSeq(parts, k, n)
        <4> DEFINE B == Seq(A)
        <4>1. parts \in Seq(B)
          OBVIOUS
        <4> HIDE DEF B
        <4> QED BY <4>1, RestOf DEF n
      <3> QED BY <3>6, <3>7, <3>8
    <2> QED BY <2>2, <2>3
  <1>11. 1..n \subseteq T
    <2> HIDE DEF T
    <2> QED BY <1>1, <1>10, FromTheEnd
  <1>12. rest[1] = SubSeq(parts, 1, n)
    <2>1. 1 \in 1..n
      BY <1>1
    <2>2. 1 \in T
      <3> HIDE DEF T
      <3> QED BY <1>11, <2>1
    <2> QED BY <1>5, <2>2
  <1>13. SubSeq(parts, 1, n) = parts
    BY DEF n
  <1> QED BY <1>7, <1>12, <1>13 DEF w, sep

LEMMA ThenOne ==
    ASSUME NEW A, NEW x \in Seq(A), NEW y \in Seq(A), Len(y) = 1
    PROVE  /\ x \o y \in Seq(A) /\ Len(x \o y) = Len(x) + 1 /\ Len(x) \in Nat
           /\ (x \o y)[Len(x) + 1] = y[1]
           /\ \A j \in 1..Len(x) : (x \o y)[j] = x[j]
  <1> DEFINE z == x \o y
  <1>1. /\ z \in Seq(A) /\ Len(z) = Len(x) + Len(y) /\ Len(x) \in Nat
        /\ \A j \in 1..Len(x) : z[j] = x[j]
        /\ \A j \in 1..(Len(x) + Len(y)) : j > Len(x) => z[j] = y[j - Len(x)]
    BY Both
  <1> HIDE DEF z
  <1>2. Len(x) + 1 \in 1..(Len(x) + Len(y)) /\ Len(x) + 1 > Len(x) /\ (Len(x) + 1) - Len(x) = 1
    BY <1>1
  <1>3. z[Len(x) + 1] = y[1]
    BY <1>1, <1>2
  <1> QED BY <1>1, <1>3 DEF z

LEMMA PairStarts ==
    ASSUME NEW A, "=" \in A, NEW name \in Seq(A), NEW value \in Seq(A), NEW key \in Seq(A),
           \A j \in 1..Len(name) : name[j] # "="
    PROVE  LET text == name \o <<"=">> \o value
           IN /\ text \in Seq(A)
              /\ StartsWith(text, key \o <<"=">>) /\ ~Has(key, <<"=">>) <=> name = key
              /\ From(text, Len(name) + 2) = value
  <1> DEFINE is == <<"=">>
             begin == name \o is
             text == begin \o value
             p == key \o is
             n == Len(name)
             k == Len(key)
             v == Len(value)
  <1>1. is \in Seq(A) /\ Len(is) = 1 /\ is[1] = "="
    OBVIOUS
  <1> HIDE DEF is
  <1>2. n \in Nat /\ k \in Nat /\ v \in Nat
    OBVIOUS
  <1>3. /\ begin \in Seq(A) /\ Len(begin) = n + 1 /\ begin[n + 1] = "="
        /\ \A j \in 1..n : begin[j] = name[j]
    BY <1>1, ThenOne
  <1>4. /\ p \in Seq(A) /\ Len(p) = k + 1 /\ p[k + 1] = "="
        /\ \A j \in 1..k : p[j] = key[j]
    BY <1>1, ThenOne
  <1> HIDE DEF begin, p
  <1>5. /\ text \in Seq(A) /\ Len(text) = (n + 1) + v
        /\ \A j \in 1..(n + 1) : text[j] = begin[j]
        /\ \A j \in 1..v : text[(n + 1) + j] = value[j]
    BY <1>3, SMTT(30)
  <1> HIDE DEF text, n, k, v
  <1>6. Has(key, is) <=> \E j \in 1..k : key[j] = "="
    <2>1. /\ FindFrom(key, is, 1) = 0 \/ (FindFrom(key, is, 1) \in 1..k /\ key[FindFrom(key, is, 1)] = "=")
          /\ \A j \in 1..k : key[j] = "=" => FindFrom(key, is, 1) # 0 /\ FindFrom(key, is, 1) <= j
      <3>1. 1 \in Nat \ {0}
        OBVIOUS
      <3> QED BY <3>1, FindOne DEF is, k
    <2>2. 0 \notin 1..k
      OBVIOUS
    <2> HIDE <2>1
    <2>3. CASE FindFrom(key, is, 1) = 0
      BY <2>1, <2>3 DEF Has
    <2>4. CASE FindFrom(key, is, 1) # 0
      BY <2>1, <2>4 DEF Has
    <2> QED BY <2>3, <2>4
  <1>7. ASSUME StartsWith(text, p), ~Has(key, is) PROVE name = key
    <2>1. 1 + Len(p) - 1 <= Len(text) /\ SubSeq(text, 1, 1 + Len(p) - 1) = p
      BY <1>7, Zenon DEF StartsWith, StandsAt
    <2>2. 1 + Len(p) - 1 = k + 1 /\ k + 1 <= Len(text)
      BY <1>2, <1>4, <2>1
    <2>3. \A j \in 1..(k + 1) : SubSeq(text, 1, k + 1)[j] = text[j]
      BY <1>2, <1>5, <2>2
    <2>4. \A j \in 1..(k + 1) : text[j] = p[j]
      BY <2>1, <2>2, <2>3
    <2>5. ~(n < k)
      <3> SUFFICES ASSUME n < k PROVE FALSE
        OBVIOUS
      <3>1. n + 1 \in 1..(n + 1) /\ n + 1 \in 1..k /\ n + 1 \in 1..(k + 1)
        BY <1>2
      <3>2. key[n + 1] = "="
        BY <1>3, <1>4, <1>5, <2>4, <3>1
      <3> QED BY <1>6, <1>7, <3>1, <3>2
    <2>6. ~(k < n)
      <3> SUFFICES ASSUME k < n PROVE FALSE
        OBVIOUS
      <3>1. k + 1 \in 1..(n + 1) /\ k + 1 \in 1..n /\ k + 1 \in 1..(k + 1)
        BY <1>2
      <3>2. name[k + 1] = "="
        BY <1>3, <1>4, <1>5, <2>4, <3>1
      <3> QED BY <3>1, <3>2 DEF n
    <2>7. n = k
      BY <1>2, <2>5, <2>6
    <2>8. \A j \in 1..n : name[j] = key[j]
      <3> TAKE j \in 1..n
      <3>1. j \in 1..(n + 1) /\ j \in 1..(k + 1) /\ j \in 1..k
        BY <1>2, <2>7
      <3> QED BY <1>3, <1>4, <1>5, <2>4, <3>1
    <2>9. Len(name) = Len(key) /\ \A j \in 1..Len(name) : name[j] = key[j]
      BY <2>7, <2>8 DEF n, k
    <2> QED BY <2>9
  <1>8. ASSUME name = key PROVE StartsWith(text, p) /\ ~Has(key, is)
    <2>1. n = k
      BY <1>8 DEF n, k
    <2>2. ~Has(key, is)
      <3>1. \A j \in 1..k : key[j] # "="
        BY <1>8 DEF k
      <3> QED BY <1>6, <3>1
    <2>3. p = begin
      BY <1>8 DEF p, begin
    <2>4. \A j \in 1..Len(p) : text[1 + j - 1] = p[j]
      <3> TAKE j \in 1..Len(p)
      <3>1. 1 + j - 1 = j /\ j \in 1..(n + 1)
        BY <1>2, <1>4, <2>1
      <3> QED BY <1>5, <2>3, <3>1
    <2>5. 1 \in 1..(Len(text) + 1) /\ 1 + Len(p) - 1 <= Len(text)
      BY <1>2, <1>4, <1>5, <2>1
    <2>6. SubSeq(text, 1, 1 + Len(p) - 1) = p
      BY <1>4, <1>5, <2>4, <2>5, SameText
    <2>7. StartsWith(text, p)
      BY <2>5, <2>6, Zenon DEF StartsWith, StandsAt
    <2> QED BY <2>2, <2>7
  <1>9. From(text, n + 2) = value
    <2>1. n + 2 \in 1..(Len(text) + 1) /\ n + 2 + v - 1 = Len(text)
      BY <1>2, <1>5
    <2>2. \A j \in 1..v : text[n + 2 + j - 1] = value[j]
      <3> TAKE j \in 1..v
      <3>1. n + 2 + j - 1 = (n + 1) + j
        BY <1>2
      <3> QED BY <1>5, <3>1
    <2>3. SubSeq(text, n + 2, n + 2 + v - 1) = value
      <3> DEFINE i == n + 2
      <3>1. /\ text \in Seq(A) /\ i \in 1..(Len(text) + 1) /\ i + Len(value) - 1 <= Len(text)
            /\ \A j \in 1..Len(value) : text[i + j - 1] = value[j]
        BY <1>5, <2>1, <2>2, <1>2 DEF v
      <3> HIDE DEF i
      <3>2. SubSeq(text, i, i + Len(value) - 1) = value
        BY <3>1, SameText
      <3> QED BY <3>2 DEF i, v
    <2> QED BY <2>1, <2>3 DEF From
  <1>10. name \o <<"=">> \o value = text /\ key \o <<"=">> = p /\ <<"=">> = is
    BY DEF text, begin, p, is
  <1> QED BY <1>5, <1>7, <1>8, <1>9, <1>10, Zenon DEF n

LEMMA SplitNone ==
    ASSUME NEW A, NEW sep \in Seq(A), sep # <<>>
    PROVE  SplitOn(<<>>, sep) = <<<<>>>>
  <1> DEFINE none == <<>>
  <1>1. none \in Seq(A) /\ Len(none) = 0 /\ From(none, 1) = none
    BY DEF From
  <1>2. Len(sep) \in Nat \ {0}
    OBVIOUS
  <1> HIDE DEF none
  <1>3. PICK rest : /\ SplitOn(none, sep) = rest[1]
                    /\ \A i \in 1..(Len(none) + 1) :
                         rest[i] = IF FindFrom(none, sep, i) = 0 THEN <<From(none, i)>>
                                   ELSE <<SubSeq(none, i, FindFrom(none, sep, i) - 1)>> \o rest[FindFrom(none, sep, i) + Len(sep)]
    <2>1. none \in Seq(A) /\ sep \in Seq(A) /\ sep # <<>>
      BY <1>1
    <2> QED BY <2>1, SplitIs
  <1>4. FindFrom(none, sep, 1) = 0
    <2>1. \A k \in 1..(Len(none) + 1) : ~StandsAt(none, sep, k)
      BY <1>1, <1>2 DEF StandsAt
    <2>2. 1 \in Nat \ {0} /\ Len(none) \in Nat
      BY <1>1
    <2> QED BY <2>1, <2>2, FindNone
  <1>5. rest[1] = <<none>>
    <2>1. 1 \in 1..(Len(none) + 1)
      BY <1>1
    <2>2. rest[1] = IF FindFrom(none, sep, 1) = 0 THEN <<From(none, 1)>>
                    ELSE <<SubSeq(none, 1, FindFrom(none, sep, 1) - 1)>> \o rest[FindFrom(none, sep, 1) + Len(sep)]
      BY <1>3, <2>1
    <2> QED BY <1>1, <1>4, <2>2, Zenon
  <1> QED BY <1>3, <1>5 DEF none

LEMMA JoinNone == \A sep : JoinWith(<<>>, sep) = <<>>
  <1> TAKE sep
  <1> DEFINE none == <<>>
             q == [i \in DOMAIN none |-> IF i = 1 THEN none[1] ELSE sep \o none[i]]
  <1>1. q = <<>>
    <2>1. DOMAIN none = {}
      OBVIOUS
    <2> HIDE DEF none
    <2>2. q = [i \in {} |-> i]
      BY <2>1
    <2>3. <<>> = [i \in {} |-> i]
      OBVIOUS
    <2> QED BY <2>2, <2>3
  <1>2. JoinWith(none, sep) = Glue(q)
    BY Zenon DEF JoinWith
  <1> QED BY <1>1, <1>2, GlueNone DEF none

\* Whatever parameters a link has: the one asked for is found by its whole name,
\* the first of several, and one that is not there is empty (query_param).
THEOREM ParamIsFirst ==
    ASSUME NEW A, NEW pairs \in Seq(Seq(A \ {"&", "="}) \X Seq(A \ {"&"})), NEW key \in Seq(A)
    PROVE  ParamIsTheFirst(pairs, key)
  <1> DEFINE B == A \cup {"x", "?", "=", "&"}
             n == Len(pairs)
             name(i) == pairs[i][1]
             value(i) == pairs[i][2]
             texts == [i \in DOMAIN pairs |-> pairs[i][1] \o <<"=">> \o pairs[i][2]]
             amp == <<"&">>
             joined == JoinWith(texts, amp)
             url == <<"x", "?">> \o joined
             named == {i \in DOMAIN pairs : pairs[i][1] = key}
  <1>1. n \in Nat /\ DOMAIN pairs = 1..n
    OBVIOUS
  <1>2. \A i \in 1..n : name(i) \in Seq(A \ {"&", "="}) /\ value(i) \in Seq(A \ {"&"})
    OBVIOUS
  <1>3. /\ "=" \in B /\ "&" \in B /\ "x" \in B /\ "?" \in B /\ key \in Seq(B)
        /\ \A i \in 1..n : /\ name(i) \in Seq(B) /\ value(i) \in Seq(B)
                           /\ \A j \in 1..Len(name(i)) : name(i)[j] # "=" /\ name(i)[j] # "&"
                           /\ \A j \in 1..Len(value(i)) : value(i)[j] # "&"
    <2>1. \A X, Y, x : X \subseteq Y /\ x \in Seq(X) => x \in Seq(Y)
      OBVIOUS
    <2>2. A \subseteq B /\ A \ {"&", "="} \subseteq B /\ A \ {"&"} \subseteq B
      OBVIOUS
    <2>3. "=" \in B /\ "&" \in B /\ "x" \in B /\ "?" \in B
      OBVIOUS
    <2>4. \A X, x : x \in Seq(X) => \A j \in 1..Len(x) : x[j] \in X
      OBVIOUS
    <2>5. ASSUME NEW i \in 1..n
          PROVE  /\ \A j \in 1..Len(name(i)) : name(i)[j] # "=" /\ name(i)[j] # "&"
                 /\ \A j \in 1..Len(value(i)) : value(i)[j] # "&"
      <3> HIDE DEF name, value
      <3>1. \A j \in 1..Len(name(i)) : name(i)[j] \in A \ {"&", "="}
        BY <1>2, <2>4
      <3>2. \A j \in 1..Len(value(i)) : value(i)[j] \in A \ {"&"}
        BY <1>2, <2>4
      <3> QED BY <3>1, <3>2
    <2> HIDE DEF B, name, value, n
    <2>6. key \in Seq(B) /\ \A i \in 1..n : name(i) \in Seq(B) /\ value(i) \in Seq(B)
      BY <1>2, <2>1, <2>2
    <2> QED BY <2>3, <2>5, <2>6
  <1> HIDE DEF B
  <1>4. \A i \in 1..n : texts[i] = name(i) \o <<"=">> \o value(i)
    BY <1>1
  <1>5. ASSUME NEW i \in 1..n
        PROVE  /\ texts[i] \in Seq(B)
               /\ StartsWith(texts[i], key \o <<"=">>) /\ ~Has(key, <<"=">>) <=> i \in named
               /\ From(texts[i], Len(name(i)) + 2) = value(i)
               /\ \A j \in 1..Len(texts[i]) : texts[i][j] # "&"
    <2> DEFINE a == name(i)
               b == value(i)
    <2>1. texts[i] = a \o <<"=">> \o b
      BY <1>4
    <2>2. "=" \in B /\ a \in Seq(B) /\ b \in Seq(B) /\ key \in Seq(B)
      BY <1>3
    <2>3. \A j \in 1..Len(a) : a[j] # "=" /\ a[j] # "&"
      BY <1>3
    <2>4. \A j \in 1..Len(b) : b[j] # "&"
      BY <1>3
    <2>5. i \in named <=> a = key
      BY <1>1
    <2> HIDE DEF a, b, texts, named
    <2>6. /\ a \o <<"=">> \o b \in Seq(B)
          /\ StartsWith(a \o <<"=">> \o b, key \o <<"=">>) /\ ~Has(key, <<"=">>) <=> a = key
          /\ From(a \o <<"=">> \o b, Len(a) + 2) = b
      BY <2>2, <2>3, PairStarts
    <2>7. \A j \in 1..Len(a \o <<"=">> \o b) : (a \o <<"=">> \o b)[j] # "&"
      <3> DEFINE is == <<"=">>
                 c == a \o is
                 d == c \o b
      <3>1. is \in Seq(B) /\ Len(is) = 1 /\ is[1] = "="
        BY <2>2
      <3> HIDE DEF is
      <3>2. /\ c \in Seq(B) /\ Len(c) = Len(a) + 1 /\ Len(a) \in Nat
            /\ \A j \in 1..Len(a) : c[j] = a[j]
            /\ c[Len(a) + 1] = "="
        BY <2>2, <3>1, ThenOne
      <3> HIDE DEF c
      <3>3. \A j \in 1..Len(c) : c[j] # "&"
        <4> TAKE j \in 1..Len(c)
        <4>1. j \in 1..Len(a) \/ j = Len(a) + 1
          BY <3>2
        <4> QED BY <2>3, <3>2, <4>1
      <3>4. /\ Len(d) = Len(c) + Len(b) /\ Len(c) \in Nat /\ Len(b) \in Nat
            /\ \A j \in 1..Len(c) : d[j] = c[j]
            /\ \A j \in 1..(Len(c) + Len(b)) : j > Len(c) => d[j] = b[j - Len(c)]
        BY <2>2, <3>2, Both
      <3> HIDE DEF d
      <3>5. \A j \in 1..Len(d) : d[j] # "&"
        <4> TAKE j \in 1..Len(d)
        <4>1. CASE j \in 1..Len(c)
          BY <3>3, <3>4, <4>1
        <4>2. CASE j > Len(c)
          <5>1. j - Len(c) \in 1..Len(b)
            BY <3>4, <4>2
          <5> QED BY <2>4, <3>4, <4>2, <5>1
        <4> QED BY <3>4, <4>1, <4>2
      <3> QED BY <3>5 DEF d, c, is
    <2> QED BY <2>1, <2>5, <2>6, <2>7, Zenon DEF a, b
  <1>6. texts \in Seq(Seq(B)) /\ Len(texts) = n /\ DOMAIN texts = 1..n
    <2> DEFINE D == Seq(B)
    <2>1. DOMAIN texts = 1..n /\ texts = [i \in 1..n |-> texts[i]]
      BY <1>1
    <2>2. \A i \in 1..n : texts[i] \in D
      BY <1>5
    <2> HIDE DEF texts, D, n
    <2>3. texts \in [1..n -> D]
      BY <2>1, <2>2
    <2>4. texts \in Seq(D) /\ Len(texts) = n
      BY <1>1, <2>3
    <2> QED BY <2>1, <2>4 DEF D
  <1> HIDE DEF texts, name, value, n
  <1>7. amp \in Seq(B) /\ amp # <<>>
    BY <1>3
  <1> HIDE DEF amp
  <1>8. joined \in Seq(B)
    <2>1. CASE texts = <<>>
      <3>1. joined = <<>>
        BY <2>1, JoinNone
      <3> QED BY <3>1
    <2>2. CASE texts # <<>>
      BY <1>6, <1>7, <2>2, JoinLies
    <2> QED BY <2>1, <2>2
  <1> DEFINE parts == SplitOn(joined, amp)
             hits == {k \in DOMAIN parts : StartsWith(parts[k], key \o <<"=">>) /\ ~Has(key, <<"=">>)}
  <1>9. QueryParam(url, key) = IF hits = {} THEN <<>>
                               ELSE From(parts[CHOOSE k \in hits : \A l \in hits : k <= l], Len(key) + 2)
    <2> DEFINE ask == <<"?">>
               head == <<"x", "?">>
    <2>1. head \in Seq(B) /\ Len(head) = 2 /\ head[1] = "x" /\ head[2] = "?"
      BY <1>3
    <2> HIDE DEF head
    <2>2. /\ url \in Seq(B) /\ Len(url) = 2 + Len(joined) /\ Len(joined) \in Nat
          /\ url[1] = "x" /\ url[2] = "?"
          /\ \A j \in 1..Len(joined) : url[2 + j] = joined[j]
      <3>1. url = head \o joined
        BY DEF head
      <3> HIDE DEF url, joined
      <3>2. /\ url \in Seq(B) /\ Len(url) = 2 + Len(joined) /\ Len(joined) \in Nat
            /\ \A j \in 1..2 : url[j] = head[j]
            /\ \A j \in 1..(2 + Len(joined)) : j > 2 => url[j] = joined[j - 2]
        <4> DEFINE h == head \o joined
        <4>1. head \in Seq(B) /\ joined \in Seq(B)
          BY <1>8, <2>1
        <4>2. /\ h \in Seq(B) /\ Len(h) = Len(head) + Len(joined) /\ Len(joined) \in Nat
              /\ \A j \in 1..Len(head) : h[j] = head[j]
              /\ \A j \in 1..(Len(head) + Len(joined)) : j > Len(head) => h[j] = joined[j - Len(head)]
          BY <4>1, Both
        <4>3. url = h
          BY <3>1
        <4> HIDE DEF h
        <4> QED BY <2>1, <4>2, <4>3
      <3>3. url[1] = "x" /\ url[2] = "?"
        BY <2>1, <3>2
      <3>4. \A j \in 1..Len(joined) : url[2 + j] = joined[j]
        <4> TAKE j \in 1..Len(joined)
        <4>1. 2 + j \in 1..(2 + Len(joined)) /\ 2 + j > 2 /\ (2 + j) - 2 = j
          BY <3>2
        <4> QED BY <3>2, <4>1
      <3> QED BY <3>2, <3>3, <3>4
    <2> HIDE DEF url, joined
    <2>3. FindFrom(url, ask, 1) = 2
      <3>1. \A i \in 1..(Len(url) + 1) : StandsAt(url, ask, i) <=> i <= Len(url) /\ url[i] = "?"
        BY <2>2, StandsOne
      <3> HIDE DEF ask
      <3>2. 2 \in 1..(Len(url) + 1) /\ 1 \in 1..(Len(url) + 1) /\ 2 <= Len(url) /\ Len(url) \in Nat
        BY <2>2
      <3>3. StandsAt(url, ask, 2) /\ ~StandsAt(url, ask, 1)
        BY <2>2, <3>1, <3>2
      <3>4. \A k \in 1..(2 - 1) : k = 1
        OBVIOUS
      <3> QED BY <3>2, <3>3, <3>4, FindAt
    <2>4. From(url, 3) = joined
      <3>1. 3 \in 1..(Len(url) + 1) /\ 3 + Len(joined) - 1 = Len(url)
        BY <2>2
      <3>2. \A j \in 1..Len(joined) : url[3 + j - 1] = joined[j]
        <4> TAKE j \in 1..Len(joined)
        <4>1. 3 + j - 1 = 2 + j
          BY <2>2
        <4> QED BY <2>2, <4>1
      <3>3. SubSeq(url, 3, 3 + Len(joined) - 1) = joined
        <4> DEFINE i == 3
        <4>1. /\ url \in Seq(B) /\ joined \in Seq(B) /\ i \in 1..(Len(url) + 1) /\ i + Len(joined) - 1 <= Len(url)
              /\ \A j \in 1..Len(joined) : url[i + j - 1] = joined[j]
          BY <1>8, <2>2, <3>1, <3>2
        <4> HIDE DEF i
        <4>2. SubSeq(url, i, i + Len(joined) - 1) = joined
          BY <4>1, SameText
        <4> QED BY <4>2 DEF i
      <3> QED BY <3>1, <3>3 DEF From
    <2>5. 2 # 0 /\ 2 + 1 = 3
      OBVIOUS
    <2> DEFINE mark == FindFrom(url, ask, 1)
    <2>6. mark # 0 /\ mark + 1 = 3
      BY <2>3, <2>5
    <2>7. SplitOn(IF mark = 0 THEN url ELSE From(url, mark + 1), amp) = parts
      <3> HIDE DEF mark
      <3> QED BY <2>4, <2>6, Zenon
    <2> DEFINE cut == SplitOn(IF mark = 0 THEN url ELSE From(url, mark + 1), amp)
               those == {k \in DOMAIN cut : StartsWith(cut[k], key \o <<"=">>) /\ ~Has(key, <<"=">>)}
    <2>8. QueryParam(url, key) = IF those = {} THEN <<>>
                                 ELSE From(cut[CHOOSE k \in those : \A l \in those : k <= l], Len(key) + 2)
      BY Zenon DEF QueryParam, amp, ask
    <2>9. cut = parts
      BY <2>7
    <2> HIDE DEF cut, parts
    <2>10. those = hits
      BY <2>9
    <2> HIDE DEF those, hits
    <2> QED BY <2>8, <2>9, <2>10
  <1>10. hits = named
    <2>1. CASE n = 0
      <3>1. texts = <<>> /\ named = {}
        BY <1>1, <1>6, <2>1
      <3>2. joined = <<>>
        BY <3>1, JoinNone
      <3>3. parts = <<<<>>>>
        <4> HIDE DEF joined
        <4> QED BY <1>7, <3>2, SplitNone
      <3>4. ~StartsWith(<<>>, key \o <<"=">>)
        <4> DEFINE p == key \o <<"=">>
        <4>1. Len(p) = Len(key) + 1 /\ Len(key) \in Nat
          BY <1>3
        <4> HIDE DEF p
        <4>2. ~(1 + Len(p) - 1 <= 0)
          BY <4>1
        <4>3. Len(<<>>) = 0
          OBVIOUS
        <4> QED BY <4>2, <4>3 DEF StartsWith, StandsAt, p
      <3>5. DOMAIN parts = {1} /\ parts[1] = <<>>
        BY <3>3
      <3> HIDE DEF parts
      <3>6. hits = {}
        BY <3>4, <3>5
      <3> QED BY <3>1, <3>6
    <2>2. CASE n # 0
      <3>1. texts # <<>>
        BY <1>6, <2>2
      <3>2. parts = texts
        <4> DEFINE c == "&"
        <4>1. c \in B /\ \A k \in 1..Len(texts) : \A j \in 1..Len(texts[k]) : texts[k][j] # c
          BY <1>3, <1>5, <1>6
        <4> HIDE DEF c
        <4>2. SplitOn(JoinWith(texts, <<c>>), <<c>>) = texts
          BY <1>6, <3>1, <4>1, JoinedSplits
        <4> QED BY <4>2 DEF c, amp
      <3>3. DOMAIN parts = DOMAIN pairs /\ DOMAIN parts = 1..n
        BY <1>1, <1>6, <3>2
      <3>4. \A k \in 1..n : StartsWith(parts[k], key \o <<"=">>) /\ ~Has(key, <<"=">>) <=> k \in named
        BY <1>5, <3>2
      <3> HIDE DEF parts
      <3>5. named \subseteq 1..n
        BY <1>1
      <3> HIDE DEF named
      <3> QED BY <3>3, <3>4, <3>5
    <2> QED BY <2>1, <2>2
  <1>11. named # {} => parts = texts
    <2> SUFFICES ASSUME named # {} PROVE parts = texts
      OBVIOUS
    <2>1. n # 0 /\ texts # <<>>
      BY <1>1, <1>6
    <2> DEFINE c == "&"
    <2>2. c \in B /\ \A k \in 1..Len(texts) : \A j \in 1..Len(texts[k]) : texts[k][j] # c
      BY <1>3, <1>5, <1>6
    <2> HIDE DEF c
    <2>3. SplitOn(JoinWith(texts, <<c>>), <<c>>) = texts
      BY <1>6, <2>1, <2>2, JoinedSplits
    <2> QED BY <2>3 DEF c, amp
  <1> DEFINE first == CHOOSE i \in named : \A k \in named : i <= k
  <1>12. ASSUME named # {} PROVE From(texts[first], Len(key) + 2) = pairs[first][2]
    <2>1. named \in SUBSET Nat /\ named \subseteq 1..n
      BY <1>1
    <2>2. first \in named
      <3>1. \E i \in named : \A k \in named : i <= k
        BY <1>12, <2>1, LeastOf
      <3> HIDE DEF named
      <3> QED BY <3>1, Zenon
    <2> HIDE DEF first
    <2>3. first \in 1..n /\ pairs[first][1] = key
      BY <1>1, <2>2
    <2>4. From(texts[first], Len(name(first)) + 2) = value(first)
      BY <1>5, <2>3
    <2> QED BY <2>3, <2>4 DEF name, value
  <1>13. QueryParam(url, key) = IF named = {} THEN <<>> ELSE pairs[first][2]
    <2> HIDE DEF url, hits, parts, named
    <2>1. CASE named = {}
      BY <1>9, <1>10, <2>1
    <2>2. CASE named # {}
      BY <1>9, <1>10, <1>11, <1>12, <2>2
    <2> QED BY <2>1, <2>2
  <1> QED BY <1>13, Zenon DEF ParamIsTheFirst, texts, amp

\* A decoder that gives one character for each part of a glued text, and starts
\* the next where that part ends, gives the text the parts stand for.
Unwinds(s, off, rest) ==
    /\ off[0] = 0 /\ rest[off[Len(s)] + 1] = <<>>
    /\ \A k \in 1..Len(s) : rest[off[k - 1] + 1] = <<s[k]>> \o rest[off[k] + 1]

LEMMA Undone ==
    ASSUME NEW Glyphs, NEW s \in Seq(Glyphs), NEW off, NEW rest, Unwinds(s, off, rest)
    PROVE  rest[1] = s
  <1> DEFINE n == Len(s)
             at(k) == rest[off[k - 1] + 1]
             T == {k \in 1..(n + 1) : at(k) = SubSeq(s, k, n)}
  <1>0. n \in Nat /\ n + 1 \in Nat /\ (n + 1) - 1 = n /\ 1 - 1 = 0 /\ 0 + 1 = 1
    OBVIOUS
  <1>1. at(n + 1) = <<>>
    BY <1>0, Zenon DEF Unwinds
  <1>2. \A k \in 1..n : at(k) = <<s[k]>> \o at(k + 1)
    <2> TAKE k \in 1..n
    <2>1. (k + 1) - 1 = k
      OBVIOUS
    <2> QED BY <2>1, Zenon DEF Unwinds
  <1>3. at(1) = rest[1]
    BY <1>0, Zenon DEF Unwinds
  <1> HIDE DEF at
  <1>4. SubSeq(s, n + 1, n) = <<>> /\ SubSeq(s, 1, n) = s
    OBVIOUS
  <1>5. ASSUME NEW i \in 1..(n + 1), \A k \in (i + 1)..(n + 1) : k \in T PROVE i \in T
    <2>1. CASE i = n + 1
      BY <1>1, <1>4, <2>1
    <2>2. CASE i \in 1..n
      <3>1. i + 1 \in (i + 1)..(n + 1)
        BY <1>0, <2>2
      <3>2. at(i + 1) = SubSeq(s, i + 1, n)
        BY <1>5, <3>1
      <3>3. at(i) = <<s[i]>> \o at(i + 1)
        BY <1>2, <2>2
      <3>4. <<s[i]>> \o SubSeq(s, i + 1, n) = SubSeq(s, i, n)
        BY <2>2, RestOf
      <3> QED BY <3>2, <3>3, <3>4
    <2> QED BY <1>0, <2>1, <2>2
  <1>6. 1..(n + 1) \subseteq T
    <2> HIDE DEF T
    <2> QED BY <1>0, <1>5, FromTheEnd
  <1>7. 1 \in 1..(n + 1)
    BY <1>0
  <1>8. at(1) = SubSeq(s, 1, n)
    BY <1>6, <1>7
  <1> QED BY <1>3, <1>4, <1>8

HexChars == {"0", "1", "2", "3", "4", "5", "6", "7", "8", "9", "A", "B", "C", "D", "E", "F"}

LEMMA TheDigits ==
    /\ DOMAIN HexDigits = 1..16 /\ HexDigits \in Seq(HexChars)
    /\ HexDigits[1] = "0" /\ HexDigits[2] = "1" /\ HexDigits[3] = "2" /\ HexDigits[4] = "3"
    /\ HexDigits[5] = "4" /\ HexDigits[6] = "5" /\ HexDigits[7] = "6" /\ HexDigits[8] = "7"
    /\ HexDigits[9] = "8" /\ HexDigits[10] = "9" /\ HexDigits[11] = "A" /\ HexDigits[12] = "B"
    /\ HexDigits[13] = "C" /\ HexDigits[14] = "D" /\ HexDigits[15] = "E" /\ HexDigits[16] = "F"
  <1> DEFINE letters == <<"A", "B", "C", "D", "E", "F">>
  <1>1. Digits \in Seq(HexChars) /\ Len(Digits) = 10
    <2>1. \A x \in {"0", "1", "2", "3", "4", "5", "6", "7", "8", "9"} : x \in HexChars
      BY DEF HexChars
    <2> QED BY <2>1 DEF Digits
  <1>2. letters \in Seq(HexChars) /\ Len(letters) = 6
    <2>1. \A x \in {"A", "B", "C", "D", "E", "F"} : x \in HexChars
      BY DEF HexChars
    <2> QED BY <2>1
  <1>3. /\ Digits[1] = "0" /\ Digits[2] = "1" /\ Digits[3] = "2" /\ Digits[4] = "3" /\ Digits[5] = "4"
        /\ Digits[6] = "5" /\ Digits[7] = "6" /\ Digits[8] = "7" /\ Digits[9] = "8" /\ Digits[10] = "9"
    BY DEF Digits
  <1>4. /\ letters[1] = "A" /\ letters[2] = "B" /\ letters[3] = "C"
        /\ letters[4] = "D" /\ letters[5] = "E" /\ letters[6] = "F"
    OBVIOUS
  <1>5. HexDigits = Digits \o letters
    BY DEF HexDigits
  <1> HIDE DEF letters
  <1>6. /\ HexDigits \in Seq(HexChars) /\ Len(HexDigits) = 16
        /\ \A j \in 1..10 : HexDigits[j] = Digits[j]
        /\ \A j \in 1..16 : j > 10 => HexDigits[j] = letters[j - 10]
    <2>1. /\ Digits \o letters \in Seq(HexChars) /\ Len(Digits \o letters) = Len(Digits) + Len(letters)
          /\ \A j \in 1..Len(Digits) : (Digits \o letters)[j] = Digits[j]
          /\ \A j \in 1..(Len(Digits) + Len(letters)) : j > Len(Digits) => (Digits \o letters)[j] = letters[j - Len(Digits)]
      BY <1>1, <1>2, Both, ZenonT(30)
    <2> DEFINE both == Digits \o letters
    <2>2. HexDigits = both
      BY <1>5
    <2> HIDE DEF both
    <2>3. Len(both) = 16 /\ both \in Seq(HexChars) /\ \A j \in 1..10 : both[j] = Digits[j]
      BY <1>1, <1>2, <2>1, SMTT(30) DEF both
    <2>4. \A j \in 1..16 : j > 10 => both[j] = letters[j - 10]
      <3>1. \A j \in 1..(Len(Digits) + Len(letters)) : j > Len(Digits) => both[j] = letters[j - Len(Digits)]
        BY <2>1 DEF both
      <3>2. Len(Digits) = 10 /\ Len(Digits) + Len(letters) = 16
        BY <1>1, <1>2
      <3> QED BY <3>1, <3>2, Zenon
    <2> QED BY <2>2, <2>3, <2>4
  <1>7. /\ HexDigits[11] = letters[1] /\ HexDigits[12] = letters[2] /\ HexDigits[13] = letters[3]
        /\ HexDigits[14] = letters[4] /\ HexDigits[15] = letters[5] /\ HexDigits[16] = letters[6]
    BY <1>6
  <1>8. DOMAIN HexDigits = 1..16
    BY <1>6
  <1> QED BY <1>3, <1>4, <1>6, <1>7, <1>8

\* A digit tells its place.
DigitPlace(c) ==
    CASE c = "0" -> 1 [] c = "1" -> 2 [] c = "2" -> 3 [] c = "3" -> 4 [] c = "4" -> 5 [] c = "5" -> 6
      [] c = "6" -> 7 [] c = "7" -> 8 [] c = "8" -> 9 [] c = "9" -> 10 [] c = "A" -> 11 [] c = "B" -> 12
      [] c = "C" -> 13 [] c = "D" -> 14 [] c = "E" -> 15 [] c = "F" -> 16

LEMMA DigitsCount == \A i \in 1..16 : DigitPlace(HexDigits[i]) = i
  <1>1. /\ DigitPlace("0") = 1 /\ DigitPlace("1") = 2 /\ DigitPlace("2") = 3 /\ DigitPlace("3") = 4
        /\ DigitPlace("4") = 5 /\ DigitPlace("5") = 6 /\ DigitPlace("6") = 7 /\ DigitPlace("7") = 8
        /\ DigitPlace("8") = 9 /\ DigitPlace("9") = 10 /\ DigitPlace("A") = 11 /\ DigitPlace("B") = 12
        /\ DigitPlace("C") = 13 /\ DigitPlace("D") = 14 /\ DigitPlace("E") = 15 /\ DigitPlace("F") = 16
    BY DEF DigitPlace
  <1>2. ASSUME NEW i \in 1..16 PROVE DigitPlace(HexDigits[i]) = i
    <2>1. i = 1 \/ i = 2 \/ i = 3 \/ i = 4 \/ i = 5 \/ i = 6 \/ i = 7 \/ i = 8
          \/ i = 9 \/ i = 10 \/ i = 11 \/ i = 12 \/ i = 13 \/ i = 14 \/ i = 15 \/ i = 16
      OBVIOUS
    <2> QED BY <1>1, <2>1, TheDigits
  <1> QED BY <1>2

\* The value of the digit at a place is one less than the place.
LEMMA DigitIs ==
    ASSUME NEW v \in 0..15
    PROVE  /\ HexDigits[v + 1] \in DOMAIN HexValue /\ HexValue[HexDigits[v + 1]] = v
           /\ HexDigits[v + 1] \in HexChars /\ HexDigits[v + 1] # "+"
  <1> DEFINE d == HexDigits[v + 1]
             small == {"a", "b", "c", "d", "e", "f"}
  <1>1. v + 1 \in 1..16
    OBVIOUS
  <1>2. d \in HexChars
    <2>1. v + 1 = 1 \/ v + 1 = 2 \/ v + 1 = 3 \/ v + 1 = 4 \/ v + 1 = 5 \/ v + 1 = 6 \/ v + 1 = 7 \/ v + 1 = 8
          \/ v + 1 = 9 \/ v + 1 = 10 \/ v + 1 = 11 \/ v + 1 = 12 \/ v + 1 = 13 \/ v + 1 = 14 \/ v + 1 = 15 \/ v + 1 = 16
      OBVIOUS
    <2> QED BY <2>1, TheDigits DEF HexChars
  <1>3. \A i, j \in 1..16 : HexDigits[i] = HexDigits[j] => i = j
    BY DigitsCount, Zenon
  <1>4. (CHOOSE i \in DOMAIN HexDigits : HexDigits[i] = d) = v + 1
    BY <1>1, <1>3, TheDigits
  <1>5. d \in ToSet(HexDigits)
    BY <1>1, TheDigits DEF ToSet
  <1>6. d # "a" /\ d # "b" /\ d # "c" /\ d # "d" /\ d # "e" /\ d # "f" /\ d # "+"
    <2> HIDE DEF d
    <2> QED BY <1>2 DEF HexChars
  <1> HIDE DEF d
  <1>7. d \in DOMAIN HexValue
    BY <1>5 DEF HexValue
  <1>8. HexValue[d] = (CHOOSE i \in DOMAIN HexDigits : HexDigits[i] = d) - 1
    BY <1>5, <1>6 DEF HexValue
  <1>9. HexValue[d] = (v + 1) - 1
    BY <1>4, <1>8, Zenon
  <1>10. HexValue[d] = v
    BY <1>9
  <1> QED BY <1>2, <1>6, <1>7, <1>10 DEF d

\* The two digits that stand for a byte read back as it.
LEMMA HexReads ==
    ASSUME NEW v \in 0..255
    PROVE  /\ Hex(v) \in Seq(HexChars) /\ Len(Hex(v)) = 2
           /\ IsHexPair(Hex(v)) /\ HexPair(Hex(v)) = v
  <1> DEFINE a == HexDigits[(v \div 16) + 1]
             b == HexDigits[(v % 16) + 1]
  <1>1. v \div 16 \in 0..15 /\ v % 16 \in 0..15 /\ 16 * (v \div 16) + (v % 16) = v
    OBVIOUS
  <1>2. a \in DOMAIN HexValue /\ HexValue[a] = v \div 16 /\ a \in HexChars /\ a # "+"
    BY <1>1, DigitIs
  <1>3. b \in DOMAIN HexValue /\ HexValue[b] = v % 16 /\ b \in HexChars
    BY <1>1, DigitIs
  <1>4. Hex(v) = <<a, b>>
    BY DEF Hex
  <1> HIDE DEF a, b
  <1>5. <<a, b>>[1] = a /\ <<a, b>>[2] = b
    OBVIOUS
  <1>6. IsHexPair(<<a, b>>)
    BY <1>2, <1>3, <1>5 DEF IsHexPair
  <1>7. HexPair(<<a, b>>) = 16 * HexValue[a] + HexValue[b]
    BY <1>2, <1>5 DEF HexPair
  <1>8. <<a, b>> \in Seq(HexChars) /\ Len(<<a, b>>) = 2
    BY <1>2, <1>3
  <1> QED BY <1>1, <1>2, <1>3, <1>4, <1>6, <1>7, <1>8

LEMMA CodesRead ==
    ASSUME NEW c \in DOMAIN Code
    PROVE  Code[c] \in 0..255 /\ Byte(Code[c]) = c
  <1> DEFINE sp == " "
             D == {sp, "%", "&", "+", "?", "A", "a", "~"}
             code(d) == Code[d]
  <1>1. DOMAIN Code = D
    BY Zenon DEF Code
  <1>2. /\ code(sp) = 32 /\ code("%") = 37 /\ code("&") = 38 /\ code("+") = 43
        /\ code("?") = 63 /\ code("A") = 65 /\ code("a") = 97 /\ code("~") = 126
    <2>1. \A d \in D : code(d) = CASE d = " " -> 32 [] d = "%" -> 37 [] d = "&" -> 38 [] d = "+" -> 43
             [] d = "?" -> 63 [] d = "A" -> 65 [] d = "a" -> 97 [] d = "~" -> 126
      BY Zenon DEF Code
    <2>2. sp # "%" /\ sp # "&" /\ sp # "+" /\ sp # "?" /\ sp # "A" /\ sp # "a" /\ sp # "~"
      BY Zenon
    <2> HIDE DEF sp
    <2>3. \A d \in D : code(d) = CASE d = sp -> 32 [] d = "%" -> 37 [] d = "&" -> 38 [] d = "+" -> 43
             [] d = "?" -> 63 [] d = "A" -> 65 [] d = "a" -> 97 [] d = "~" -> 126
      BY <2>1, Zenon DEF sp
    <2> HIDE DEF code
    <2> QED BY <2>2, <2>3
  <1> HIDE DEF code, sp
  <1>3. ASSUME NEW d \in D PROVE code(d) \in 0..255 /\ \A e \in D : code(e) = code(d) => e = d
    BY <1>2
  <1> HIDE DEF D
  <1>4. ASSUME NEW d \in D PROVE Byte(code(d)) = d
    <2>1. Byte(code(d)) = CHOOSE e \in D : code(e) = code(d)
      BY <1>1, Zenon DEF Byte, code
    <2>2. (CHOOSE e \in D : code(e) = code(d)) = d
      BY <1>3
    <2> QED BY <2>1, <2>2
  <1> QED BY <1>1, <1>3, <1>4 DEF code

\* A percent sign with a pair of digits after it, at a place of a text.
Escaped(s, i) == s[i] = "%" /\ i + 2 <= Len(s) /\ IsHexPair(SubSeq(s, i + 1, i + 2))
Decoded(s, i) == <<Byte(HexPair(SubSeq(s, i + 1, i + 2)))>>
AsItIs(s, i) == <<IF s[i] = "+" THEN " " ELSE s[i]>>

LEMMA UrlDecodeIs ==
    ASSUME NEW A, NEW s \in Seq(A)
    PROVE  \E rest : /\ UrlDecode(s) = rest[1]
                     /\ \A i \in 1..(Len(s) + 1) :
                          rest[i] = IF i > Len(s) THEN <<>>
                                    ELSE IF Escaped(s, i) THEN Decoded(s, i) \o rest[i + 3]
                                    ELSE AsItIs(s, i) \o rest[i + 1]
  <1> DEFINE n == Len(s)
             stops == {i \in 1..(n + 1) : i > n}
             last == [i \in 1..(n + 1) |-> <<>>]
             piece == [i \in 1..(n + 1) |-> IF Escaped(s, i) THEN Decoded(s, i) ELSE AsItIs(s, i)]
             next == [i \in 1..(n + 1) |-> IF Escaped(s, i) THEN i + 3 ELSE i + 1]
             Goes(rest) == rest = [i \in 1..(n + 1) |-> IF i > n THEN <<>>
                                       ELSE IF Escaped(s, i) THEN Decoded(s, i) \o rest[i + 3]
                                       ELSE AsItIs(s, i) \o rest[i + 1]]
             g == CHOOSE rest : Goes(rest)
  <1>1. n \in Nat
    OBVIOUS
  <1>2. UrlDecode(s) = g[1]
    BY Zenon DEF UrlDecode, Escaped, Decoded, AsItIs
  <1>3. \A i \in 1..(n + 1) : Escaped(s, i) => i + 2 <= n
    BY Zenon DEF Escaped
  <1>4. \A i \in 1..(n + 1) : /\ i \in stops <=> i > n
                              /\ last[i] = <<>>
                              /\ Escaped(s, i) => piece[i] = Decoded(s, i) /\ next[i] = i + 3
                              /\ ~Escaped(s, i) => piece[i] = AsItIs(s, i) /\ next[i] = i + 1
    BY Zenon
  <1> HIDE DEF last, piece, next, stops
  <1>5. \A i \in 1..(n + 1) : i \notin stops => next[i] \in (i + 1)..(n + 1)
    BY <1>1, <1>3, <1>4
  <1>6. \A rest : ChainedFrom(1, n, stops, last, piece, next, rest) <=> Goes(rest)
    <2> TAKE rest
    <2>1. ASSUME NEW i \in 1..(n + 1)
          PROVE  (IF i \in stops THEN last[i] ELSE piece[i] \o rest[next[i]])
               = (IF i > n THEN <<>> ELSE IF Escaped(s, i) THEN Decoded(s, i) \o rest[i + 3]
                                          ELSE AsItIs(s, i) \o rest[i + 1])
      <3>1. CASE i > n
        BY <1>4, <3>1, Zenon
      <3>2. CASE ~(i > n) /\ Escaped(s, i)
        BY <1>4, <3>2, Zenon
      <3>3. CASE ~(i > n) /\ ~Escaped(s, i)
        BY <1>4, <3>3, Zenon
      <3> QED BY <3>1, <3>2, <3>3, Zenon
    <2>2. [i \in 1..(n + 1) |-> IF i \in stops THEN last[i] ELSE piece[i] \o rest[next[i]]]
          = [i \in 1..(n + 1) |-> IF i > n THEN <<>> ELSE IF Escaped(s, i) THEN Decoded(s, i) \o rest[i + 3]
                                                          ELSE AsItIs(s, i) \o rest[i + 1]]
      BY <2>1, Zenon
    <2> QED BY <2>2, Zenon DEF ChainedFrom
  <1>7. \E rest : ChainedFrom(1, n, stops, last, piece, next, rest)
    <2> HIDE DEF n
    <2> QED BY <1>1, <1>5, ChainExists
  <1>8. Goes(g)
    <2>1. \E rest : Goes(rest)
      <3> HIDE DEF Goes
      <3> QED BY <1>6, <1>7
    <2> HIDE DEF Goes
    <2> QED BY <2>1, Zenon
  <1> HIDE DEF g
  <1>9. \A i \in 1..(n + 1) : g[i] = IF i > n THEN <<>>
                                     ELSE IF Escaped(s, i) THEN Decoded(s, i) \o g[i + 3]
                                     ELSE AsItIs(s, i) \o g[i + 1]
    BY <1>8, Zenon
  <1> QED BY <1>2, <1>9, Zenon DEF n

\* How a character is written in the address, and that it is read back.
UrlPiece(c) ==
    IF c = " " THEN <<"+">> ELSE IF c \in DOMAIN Code \ {"A", "a"} THEN <<"%">> \o Hex(Code[c]) ELSE <<c>>

LEMMA UrlPieceIs ==
    ASSUME NEW Glyphs, NEW c \in Glyphs
    PROVE  /\ UrlPiece(c) \in Seq(Glyphs \cup HexChars \cup {"+", "%"})
           /\ \/ UrlPiece(c) = <<"+">> /\ c = " "
              \/ /\ Len(UrlPiece(c)) = 3 /\ UrlPiece(c)[1] = "%" 
                 /\ \E h : /\ Len(h) = 2 /\ h \in Seq(HexChars) /\ IsHexPair(h) /\ Byte(HexPair(h)) = c
                           /\ h[1] = UrlPiece(c)[2] /\ h[2] = UrlPiece(c)[3]
              \/ UrlPiece(c) = <<c>> /\ c # "%" /\ c # "+"
  <1> DEFINE B == Glyphs \cup HexChars \cup {"+", "%"}
  <1>1. CASE c = " "
    <2>1. UrlPiece(c) = <<"+">>
      BY <1>1, Zenon DEF UrlPiece
    <2>2. <<"+">> \in Seq(B)
      OBVIOUS
    <2> QED BY <1>1, <2>1, <2>2, Zenon
  <1>2. CASE c # " " /\ c \in DOMAIN Code \ {"A", "a"}
    <2> DEFINE h == Hex(Code[c])
               p == <<"%">>
               u == p \o h
    <2>1. UrlPiece(c) = u
      BY <1>2, Zenon DEF UrlPiece
    <2>2. c \in DOMAIN Code
      BY <1>2, Zenon
    <2>3. Code[c] \in 0..255 /\ Byte(Code[c]) = c
      BY <2>2, CodesRead, Zenon
    <2>4. h \in Seq(HexChars) /\ Len(h) = 2 /\ IsHexPair(h) /\ HexPair(h) = Code[c]
      BY <2>3, HexReads, Zenon
    <2>5. Byte(HexPair(h)) = c
      BY <2>3, <2>4, Zenon
    <2>6. p \in Seq(B) /\ Len(p) = 1 /\ p[1] = "%"
      OBVIOUS
    <2> HIDE DEF h, p
    <2>7. h \in Seq(B)
      BY <2>4
    <2> HIDE DEF B
    <2>8. /\ u \in Seq(B) /\ Len(u) = Len(p) + Len(h)
          /\ \A j \in 1..Len(p) : u[j] = p[j]
          /\ \A j \in 1..(Len(p) + Len(h)) : j > Len(p) => u[j] = h[j - Len(p)]
      BY <2>6, <2>7, Both
    <2> HIDE DEF u
    <2>9. Len(u) = 3 /\ u[1] = "%" /\ u[2] = h[1] /\ u[3] = h[2]
      <3>1. Len(p) + Len(h) = 3
        BY <2>4, <2>6
      <3>2. 1 \in 1..1 /\ 2 \in 1..3 /\ 3 \in 1..3 /\ 2 > 1 /\ 3 > 1 /\ 2 - 1 = 1 /\ 3 - 1 = 2
        OBVIOUS
      <3> QED BY <2>6, <2>8, <3>1, <3>2
    <2> QED BY <2>1, <2>4, <2>5, <2>8, <2>9, Zenon DEF B
  <1>3. CASE c # " " /\ c \notin DOMAIN Code \ {"A", "a"}
    <2>1. UrlPiece(c) = <<c>>
      BY <1>3, Zenon DEF UrlPiece
    <2>2. c # "%" /\ c # "+"
      BY <1>3, Zenon DEF Code
    <2>3. <<c>> \in Seq(B)
      OBVIOUS
    <2> QED BY <2>1, <2>2, <2>3, Zenon
  <1> QED BY <1>1, <1>2, <1>3, Zenon

UrlRest(w, rest, i) ==
    rest[i] = IF i > Len(w) THEN <<>>
              ELSE IF Escaped(w, i) THEN Decoded(w, i) \o rest[i + 3] ELSE AsItIs(w, i) \o rest[i + 1]

\* A part of a text, from one place on.
LiesAt(w, u, i) == i + Len(u) - 1 <= Len(w) /\ \A j \in 1..Len(u) : w[i + j - 1] = u[j]

LEMMA UrlStep ==
    ASSUME NEW Glyphs, NEW c \in Glyphs, NEW A, NEW w \in Seq(A), NEW i \in 1..Len(w),
           LiesAt(w, UrlPiece(c), i), NEW rest, UrlRest(w, rest, i)
    PROVE  rest[i] = <<c>> \o rest[i + Len(UrlPiece(c))]
  <1> DEFINE u == UrlPiece(c)
             m == Len(u)
  <1>0. Len(w) \in Nat /\ ~(i > Len(w))
    OBVIOUS
  <1>a. i + m - 1 <= Len(w) /\ \A j \in 1..m : w[i + j - 1] = u[j]
    BY Zenon DEF LiesAt
  <1>1. rest[i] = IF Escaped(w, i) THEN Decoded(w, i) \o rest[i + 3] ELSE AsItIs(w, i) \o rest[i + 1]
    BY <1>0, Zenon DEF UrlRest
  <1>2. CASE u = <<"+">> /\ c = " "
    <2>1. m = 1 /\ u[1] = "+"
      <3>1. Len(<<"+">>) = 1 /\ <<"+">>[1] = "+"
        OBVIOUS
      <3> QED BY <1>2, <3>1, Zenon
    <2>2. w[i] = "+"
      <3>1. 1 \in 1..1 /\ i + 1 - 1 = i
        OBVIOUS
      <3>2. w[i + 1 - 1] = u[1]
        BY <1>a, <2>1, <3>1, Zenon
      <3> QED BY <2>1, <3>1, <3>2, Zenon
    <2>3. ~Escaped(w, i)
      BY <2>2, Zenon DEF Escaped
    <2>4. AsItIs(w, i) = <<c>>
      BY <1>2, <2>2, Zenon DEF AsItIs
    <2> QED BY <1>1, <2>1, <2>3, <2>4, Zenon
  <1>3. CASE u = <<c>> /\ c # "%" /\ c # "+"
    <2>1. m = 1 /\ u[1] = c
      <3>1. Len(<<c>>) = 1 /\ <<c>>[1] = c
        OBVIOUS
      <3> QED BY <1>3, <3>1, Zenon
    <2>2. w[i] = c
      <3>1. 1 \in 1..1 /\ i + 1 - 1 = i
        OBVIOUS
      <3>2. w[i + 1 - 1] = u[1]
        BY <1>a, <2>1, <3>1, Zenon
      <3> QED BY <2>1, <3>1, <3>2, Zenon
    <2>3. ~Escaped(w, i)
      BY <1>3, <2>2, Zenon DEF Escaped
    <2>4. AsItIs(w, i) = <<c>>
      BY <1>3, <2>2, Zenon DEF AsItIs
    <2> QED BY <1>1, <2>1, <2>3, <2>4, Zenon
  <1>4. CASE /\ Len(u) = 3 /\ u[1] = "%"
             /\ \E h : /\ Len(h) = 2 /\ h \in Seq(HexChars) /\ IsHexPair(h) /\ Byte(HexPair(h)) = c
                       /\ h[1] = u[2] /\ h[2] = u[3]
    <2>1. PICK h : /\ Len(h) = 2 /\ h \in Seq(HexChars) /\ IsHexPair(h) /\ Byte(HexPair(h)) = c
                   /\ h[1] = u[2] /\ h[2] = u[3]
      BY <1>4, Zenon
    <2>2. m = 3 /\ u[1] = "%"
      BY <1>4, Zenon
    <2>3. w[i] = "%" /\ w[i + 1] = h[1] /\ w[i + 2] = h[2] /\ i + 2 <= Len(w)
      <3>1. 1 \in 1..3 /\ 2 \in 1..3 /\ 3 \in 1..3 /\ i + 1 - 1 = i /\ i + 2 - 1 = i + 1 /\ i + 3 - 1 = i + 2
        OBVIOUS
      <3>2. \A j \in 1..3 : w[i + j - 1] = u[j]
        BY <1>a, <2>2, Zenon
      <3>3. i + 3 - 1 <= Len(w)
        BY <1>a, <2>2, Zenon
      <3> HIDE DEF u, m
      <3> QED BY <2>1, <2>2, <3>1, <3>2, <3>3
    <2> DEFINE p == SubSeq(w, i + 1, i + 2)
    <2>4. p \in Seq(A) /\ Len(p) = 2 /\ p[1] = w[i + 1] /\ p[2] = w[i + 2]
      BY <1>0, <2>3
    <2> HIDE DEF p, u, m
    <2>5. p = h
      <3>1. p \in Seq(A \cup HexChars) /\ h \in Seq(A \cup HexChars)
        BY <2>1, <2>4
      <3>2. p[1] = h[1] /\ p[2] = h[2] /\ Len(p) = 2 /\ Len(h) = 2
        BY <2>1, <2>3, <2>4, Zenon
      <3>3. \A j \in 1..2 : j = 1 \/ j = 2
        OBVIOUS
      <3>4. \A j \in 1..2 : p[j] = h[j]
        BY <3>2, <3>3
      <3> QED BY <3>1, <3>2, <3>4
    <2>6. Escaped(w, i)
      BY <2>1, <2>3, <2>5, Zenon DEF Escaped, p
    <2>7. Decoded(w, i) = <<c>>
      BY <2>1, <2>5, Zenon DEF Decoded, p
    <2> QED BY <1>1, <2>2, <2>6, <2>7, Zenon DEF m, u
  <1>5. \/ u = <<"+">> /\ c = " "
        \/ u = <<c>> /\ c # "%" /\ c # "+"
        \/ /\ Len(u) = 3 /\ u[1] = "%"
           /\ \E h : /\ Len(h) = 2 /\ h \in Seq(HexChars) /\ IsHexPair(h) /\ Byte(HexPair(h)) = c
                     /\ h[1] = u[2] /\ h[2] = u[3]
    BY UrlPieceIs, Zenon
  <1> QED BY <1>2, <1>3, <1>4, <1>5, Zenon

LEMMA UrlUndone ==
    ASSUME NEW Glyphs, NEW s \in Seq(Glyphs)
    PROVE  UrlDecode(UrlEncode(s)) = s
  <1> DEFINE n == Len(s)
             B == Glyphs \cup HexChars \cup {"+", "%"}
             q == [i \in DOMAIN s |-> UrlPiece(s[i])]
             w == UrlEncode(s)
  <1>1. n \in Nat /\ DOMAIN s = 1..n /\ \A i \in 1..n : s[i] \in Glyphs
    OBVIOUS
  <1>2. w = Glue(q)
    BY Zenon DEF UrlEncode, UrlPiece
  <1>3. \A i \in 1..n : q[i] = UrlPiece(s[i]) /\ q[i] \in Seq(B)
    BY <1>1, UrlPieceIs, Zenon
  <1> HIDE DEF w
  <1>4. q \in Seq(Seq(B)) /\ Len(q) = n
    <2> HIDE DEF B
    <2>1. q = [i \in 1..n |-> UrlPiece(s[i])]
      BY <1>1, Zenon
    <2>2. \A i \in 1..n : UrlPiece(s[i]) \in Seq(B)
      BY <1>3, Zenon
    <2> DEFINE P(i) == UrlPiece(s[i])
    <2> HIDE DEF P, q
    <2>3. q = [i \in 1..n |-> P(i)] /\ \A i \in 1..n : P(i) \in Seq(B)
      BY <2>1, <2>2, Zenon DEF P
    <2> HIDE DEF n
    <2> QED BY <1>1, <2>3
  <1> HIDE DEF q
  <1>5. w \in Seq(B) /\ \E off : Lying(q, off, w)
    <2> HIDE DEF B
    <2> QED BY <1>2, <1>4, GlueLies
  <1>6. PICK off : Lying(q, off, w)
    BY <1>5
  <1>7. /\ off[0] = 0 /\ off[n] = Len(w)
        /\ \A i \in 0..n : off[i] \in 0..Len(w)
        /\ \A i \in 1..n : off[i] = off[i - 1] + Len(q[i])
        /\ \A i \in 1..n : \A j \in 1..Len(q[i]) : w[off[i - 1] + j] = q[i][j]
    BY <1>4, <1>6, Zenon DEF Lying
  <1>8. PICK rest : /\ UrlDecode(w) = rest[1]
                    /\ \A i \in 1..(Len(w) + 1) :
                          rest[i] = IF i > Len(w) THEN <<>>
                                    ELSE IF Escaped(w, i) THEN Decoded(w, i) \o rest[i + 3]
                                    ELSE AsItIs(w, i) \o rest[i + 1]
    BY <1>5, UrlDecodeIs
  <1>9. rest[off[n] + 1] = <<>>
    <2>1. Len(w) + 1 \in 1..(Len(w) + 1) /\ Len(w) + 1 > Len(w)
      <3>1. Len(w) \in Nat
        BY <1>5
      <3> QED BY <3>1
    <2>2. rest[Len(w) + 1] = <<>>
      BY <1>8, <2>1, Zenon
    <2> QED BY <1>7, <2>2, Zenon
  <1>10. ASSUME NEW k \in 1..n PROVE rest[off[k - 1] + 1] = <<s[k]>> \o rest[off[k] + 1]
    <2> DEFINE c == s[k]
               i == off[k - 1] + 1
               m == Len(q[k])
    <2>1. c \in Glyphs /\ q[k] = UrlPiece(c) /\ q[k] \in Seq(B) /\ k - 1 \in 0..n /\ k \in 0..n
      BY <1>1, <1>3
    <2>2. m \in Nat \ {0}
      <3>1. Len(<<"+">>) = 1 /\ Len(<<c>>) = 1
        OBVIOUS
      <3>2. m = 1 \/ m = 3
        <4>1. UrlPiece(c) = <<"+">> \/ UrlPiece(c) = <<c>> \/ Len(UrlPiece(c)) = 3
          BY <2>1, UrlPieceIs, Zenon
        <4> QED BY <2>1, <3>1, <4>1, Zenon
      <3> HIDE DEF m
      <3> QED BY <3>2
    <2>3. off[k] = off[k - 1] + m /\ off[k] \in 0..Len(w) /\ off[k - 1] \in 0..Len(w)
      BY <1>7, <2>1
    <2>4. \A j \in 1..m : w[off[k - 1] + j] = q[k][j]
      BY <1>7
    <2> DEFINE o == off[k - 1]
    <2> HIDE DEF m, o
    <2>5. Len(w) \in Nat
      BY <1>5
    <2>6. o + 1 \in 1..Len(w) /\ o + 1 + m - 1 <= Len(w) /\ o + 1 + m = off[k] + 1
          /\ o + 1 \in 1..(Len(w) + 1)
      BY <2>2, <2>3, <2>5, SMTT(30) DEF o
    <2>7. \A j \in 1..m : w[o + 1 + j - 1] = UrlPiece(c)[j]
      <3> TAKE j \in 1..m
      <3>1. o + 1 + j - 1 = o + j
        BY <2>2, <2>3 DEF o
      <3> QED BY <2>1, <2>4, <3>1, Zenon DEF o
    <2>8. rest[o + 1] = IF o + 1 > Len(w) THEN <<>>
                     ELSE IF Escaped(w, o + 1) THEN Decoded(w, o + 1) \o rest[o + 1 + 3]
                     ELSE AsItIs(w, o + 1) \o rest[o + 1 + 1]
      BY <1>8, <2>6, Zenon
    <2>9. m = Len(UrlPiece(c))
      BY <2>1, Zenon DEF m
    <2> DEFINE x == o + 1
    <2>10. x \in 1..Len(w) /\ LiesAt(w, UrlPiece(c), x) /\ UrlRest(w, rest, x)
      BY <2>6, <2>7, <2>8, <2>9, Zenon DEF LiesAt, UrlRest
    <2> HIDE DEF x, c
    <2>11. rest[x] = <<c>> \o rest[x + Len(UrlPiece(c))]
      <3>1. x \in 1..Len(w)
        BY <2>10, Zenon
      <3>2. LiesAt(w, UrlPiece(c), x)
        BY <2>10, Zenon
      <3>3. UrlRest(w, rest, x)
        BY <2>10, Zenon
      <3>4. c \in Glyphs
        BY <2>1, Zenon
      <3> DEFINE D == B
      <3>5. w \in Seq(D)
        BY <1>5, Zenon
      <3> HIDE DEF D
      <3> QED BY <3>1, <3>2, <3>3, <3>4, <3>5, UrlStep
    <2> QED BY <2>6, <2>9, <2>11, Zenon DEF x, o, c
  <1>11. rest[1] = s
    <2>1. Unwinds(s, off, rest)
      BY <1>7, <1>9, <1>10, Zenon DEF Unwinds
    <2> QED BY <2>1, Undone
  <1> QED BY <1>8, <1>11, Zenon DEF w

LEMMA FrontOf ==
    ASSUME NEW B, NEW s \in Seq(B), NEW k \in 1..Len(s), NEW m \in k..Len(s)
    PROVE  <<s[k]>> \o SubSeq(s, k + 1, m) = SubSeq(s, k, m)
  <1> DEFINE front == SubSeq(s, 1, m)
  <1>1. Len(s) \in Nat /\ m \in Nat /\ k \in 1..m /\ k + 1 \in Nat
    OBVIOUS
  <1>2. front \in Seq(B) /\ Len(front) = m /\ \A j \in 1..m : front[j] = s[j]
    BY <1>1
  <1> HIDE DEF front
  <1>3. <<front[k]>> \o SubSeq(front, k + 1, m) = SubSeq(front, k, m)
    BY <1>1, <1>2, RestOf
  <1>4. SubSeq(front, k, m) = SubSeq(s, k, m)
    <2> DEFINE a == SubSeq(front, k, m)
               b == SubSeq(s, k, m)
    <2>1. a \in Seq(B) /\ Len(a) = m - k + 1 /\ \A j \in 1..(m - k + 1) : a[j] = front[k + j - 1]
      BY <1>1, <1>2
    <2>2. b \in Seq(B) /\ Len(b) = m - k + 1 /\ \A j \in 1..(m - k + 1) : b[j] = s[k + j - 1]
      BY <1>1
    <2> HIDE DEF a, b
    <2>3. \A j \in 1..(m - k + 1) : k + j - 1 \in 1..m
      BY <1>1
    <2>4. \A j \in 1..(m - k + 1) : a[j] = b[j]
      BY <1>2, <2>1, <2>2, <2>3
    <2>5. a = b
      BY <1>1, <2>1, <2>2, <2>4
    <2> QED BY <2>5 DEF a, b
  <1>5. SubSeq(front, k + 1, m) = SubSeq(s, k + 1, m)
    <2> DEFINE a == SubSeq(front, k + 1, m)
               b == SubSeq(s, k + 1, m)
    <2>1. a \in Seq(B) /\ Len(a) = m - k /\ \A j \in 1..(m - k) : a[j] = front[k + j]
      BY <1>1, <1>2
    <2>2. b \in Seq(B) /\ Len(b) = m - k /\ \A j \in 1..(m - k) : b[j] = s[k + j]
      BY <1>1
    <2> HIDE DEF a, b
    <2>3. \A j \in 1..(m - k) : k + j \in 1..m
      BY <1>1
    <2>4. \A j \in 1..(m - k) : a[j] = b[j]
      BY <1>2, <2>1, <2>2, <2>3
    <2>5. a = b
      BY <1>1, <2>1, <2>2, <2>4
    <2> QED BY <2>5 DEF a, b
  <1>6. front[k] = s[k]
    BY <1>1, <1>2
  <1> QED BY <1>3, <1>4, <1>5, <1>6, Zenon

\* What the scan for an entity sees from a place on.
Amp(s, i) == FindFrom(s, <<"&">>, i)
Semi(s, i) == FindFrom(s, <<";">>, Amp(s, i) + 1)
Entity(s, i) == SubSeq(s, Amp(s, i) + 1, Semi(s, i) - 1)
IsEntity(s, i) == Semi(s, i) /= 0 /\ Len(Entity(s, i)) = 1 /\ Entity(s, i)[1] \in DOMAIN Entities
Replaced(s, i) == SubSeq(s, i, Amp(s, i) - 1) \o <<Entities[Entity(s, i)[1]]>>

HtmlRest(s, rest, i) ==
    rest[i] = IF Amp(s, i) = 0 THEN From(s, i)
              ELSE IF IsEntity(s, i) THEN Replaced(s, i) \o rest[Semi(s, i) + 1]
              ELSE SubSeq(s, i, Amp(s, i)) \o rest[Amp(s, i) + 1]

Marks == {"&", "<", ">", " ", "'"}

LEMMA EntitiesAre == \A name \in DOMAIN Entities : Entities[name] \in Marks
  BY Zenon DEF Entities, Marks

LEMMA HtmlDecodeIs ==
    ASSUME NEW A, NEW s \in Seq(A)
    PROVE  \E rest : /\ HtmlDecode(s) = rest[1]
                     /\ \A i \in 1..(Len(s) + 1) : HtmlRest(s, rest, i) /\ rest[i] \in Seq(A \cup Marks)
  <1> DEFINE n == Len(s)
             B == A \cup Marks
             stops == {i \in 1..(n + 1) : Amp(s, i) = 0}
             last == [i \in 1..(n + 1) |-> From(s, i)]
             piece == [i \in 1..(n + 1) |-> IF IsEntity(s, i) THEN Replaced(s, i) ELSE SubSeq(s, i, Amp(s, i))]
             next == [i \in 1..(n + 1) |-> IF IsEntity(s, i) THEN Semi(s, i) + 1 ELSE Amp(s, i) + 1]
             Goes(rest) == rest = [i \in 1..(n + 1) |-> IF Amp(s, i) = 0 THEN From(s, i)
                                       ELSE IF IsEntity(s, i) THEN Replaced(s, i) \o rest[Semi(s, i) + 1]
                                       ELSE SubSeq(s, i, Amp(s, i)) \o rest[Amp(s, i) + 1]]
             g == CHOOSE rest : Goes(rest)
  <1>1. n \in Nat
    OBVIOUS
  <1>2. HtmlDecode(s) = g[1]
    BY Zenon DEF HtmlDecode, Amp, Semi, Entity, IsEntity, Replaced
  <1>3. \A i \in 1..(n + 1) : Amp(s, i) = 0 \/ Amp(s, i) \in i..n
    <2> TAKE i \in 1..(n + 1)
    <2>1. i \in Nat \ {0}
      OBVIOUS
    <2> QED BY <2>1, FindOne DEF Amp
  <1>4. \A i \in 1..(n + 1) : Amp(s, i) # 0 => (Semi(s, i) = 0 \/ Semi(s, i) \in (Amp(s, i) + 1)..n)
    <2> SUFFICES ASSUME NEW i \in 1..(n + 1), Amp(s, i) # 0
                 PROVE  Semi(s, i) = 0 \/ Semi(s, i) \in (Amp(s, i) + 1)..n
      OBVIOUS
    <2>1. Amp(s, i) + 1 \in Nat \ {0}
      BY <1>1, <1>3
    <2> QED BY <2>1, FindOne DEF Semi
  <1>5. \A i \in 1..(n + 1) : /\ i \in stops <=> Amp(s, i) = 0
                              /\ last[i] = From(s, i)
                              /\ IsEntity(s, i) => piece[i] = Replaced(s, i) /\ next[i] = Semi(s, i) + 1
                              /\ ~IsEntity(s, i) => piece[i] = SubSeq(s, i, Amp(s, i)) /\ next[i] = Amp(s, i) + 1
    BY Zenon
  <1>6. \A i \in 1..(n + 1) : IsEntity(s, i) => Semi(s, i) # 0 /\ Entities[Entity(s, i)[1]] \in Marks
    BY EntitiesAre, Zenon DEF IsEntity
  <1> HIDE DEF last, piece, next, stops
  <1>7. ASSUME NEW i \in 1..(n + 1)
        PROVE  /\ last[i] \in Seq(B)
               /\ i \notin stops => next[i] \in (i + 1)..(n + 1) /\ piece[i] \in Seq(B)
    <2> DEFINE amp == Amp(s, i)
               semi == Semi(s, i)
    <2>1. From(s, i) \in Seq(B)
      BY <1>1 DEF From
    <2>2. /\ amp = 0 \/ amp \in i..n
          /\ amp # 0 => (semi = 0 \/ semi \in (amp + 1)..n)
          /\ IsEntity(s, i) => semi # 0
      BY <1>3, <1>4, <1>6, Zenon
    <2>3. ASSUME i \notin stops PROVE next[i] \in (i + 1)..(n + 1)
      <3>1. amp # 0 /\ (IsEntity(s, i) => next[i] = semi + 1) /\ (~IsEntity(s, i) => next[i] = amp + 1)
        BY <1>5, <2>3, Zenon
      <3> HIDE DEF amp, semi
      <3> QED BY <1>1, <2>2, <3>1
    <2>4. ASSUME i \notin stops PROVE piece[i] \in Seq(B)
      <3>1. amp # 0
        BY <1>5, <2>4, Zenon
      <3>2. CASE IsEntity(s, i)
        <4> DEFINE e == Entities[Entity(s, i)[1]]
        <4>1. piece[i] = SubSeq(s, i, amp - 1) \o <<e>>
          BY <1>5, <3>2, Zenon DEF Replaced
        <4>2. e \in B
          BY <1>6, <3>2, Zenon
        <4> HIDE DEF e, amp, B
        <4>3. <<e>> \in Seq(B)
          BY <4>2
        <4>4. SubSeq(s, i, amp - 1) \in Seq(B)
          <5>1. \A j \in i..(amp - 1) : j \in 1..n
            BY <1>1, <2>2, <3>1
          <5>2. \A j \in 1..n : s[j] \in B
            BY DEF B
          <5> QED BY <1>1, <2>2, <3>1, <5>1, <5>2
        <4> QED BY <4>1, <4>3, <4>4
      <3>3. CASE ~IsEntity(s, i)
        <4>1. piece[i] = SubSeq(s, i, amp)
          BY <1>5, <3>3, Zenon
        <4> HIDE DEF amp, B
        <4>2. SubSeq(s, i, amp) \in Seq(B)
          <5>1. \A j \in i..amp : j \in 1..n
            BY <1>1, <2>2, <3>1
          <5>2. \A j \in 1..n : s[j] \in B
            BY DEF B
          <5> QED BY <1>1, <2>2, <3>1, <5>1, <5>2
        <4> QED BY <4>1, <4>2
      <3> QED BY <3>2, <3>3
    <2> QED BY <1>5, <2>1, <2>3, <2>4, Zenon
  <1>8. \A rest : ChainedFrom(1, n, stops, last, piece, next, rest) <=> Goes(rest)
    <2> TAKE rest
    <2>1. ASSUME NEW i \in 1..(n + 1)
          PROVE  (IF i \in stops THEN last[i] ELSE piece[i] \o rest[next[i]])
               = (IF Amp(s, i) = 0 THEN From(s, i)
                  ELSE IF IsEntity(s, i) THEN Replaced(s, i) \o rest[Semi(s, i) + 1]
                  ELSE SubSeq(s, i, Amp(s, i)) \o rest[Amp(s, i) + 1])
      <3>1. CASE Amp(s, i) = 0
        BY <1>5, <3>1, Zenon
      <3>2. CASE Amp(s, i) # 0 /\ IsEntity(s, i)
        BY <1>5, <3>2, Zenon
      <3>3. CASE Amp(s, i) # 0 /\ ~IsEntity(s, i)
        BY <1>5, <3>3, Zenon
      <3> QED BY <3>1, <3>2, <3>3, Zenon
    <2>2. [i \in 1..(n + 1) |-> IF i \in stops THEN last[i] ELSE piece[i] \o rest[next[i]]]
          = [i \in 1..(n + 1) |-> IF Amp(s, i) = 0 THEN From(s, i)
                                  ELSE IF IsEntity(s, i) THEN Replaced(s, i) \o rest[Semi(s, i) + 1]
                                  ELSE SubSeq(s, i, Amp(s, i)) \o rest[Amp(s, i) + 1]]
      BY <2>1, Zenon
    <2> QED BY <2>2, Zenon DEF ChainedFrom
  <1>9. \A i \in 1..(n + 1) : i \notin stops => next[i] \in (i + 1)..(n + 1)
    BY <1>7, Zenon
  <1>10. \E rest : ChainedFrom(1, n, stops, last, piece, next, rest)
    <2> HIDE DEF n
    <2> QED BY <1>1, <1>9, ChainExists
  <1>11. Goes(g)
    <2>1. \E rest : Goes(rest)
      <3> HIDE DEF Goes
      <3> QED BY <1>8, <1>10
    <2> HIDE DEF Goes
    <2> QED BY <2>1, Zenon
  <1>12. ChainedFrom(1, n, stops, last, piece, next, g)
    <2> HIDE DEF Goes, g
    <2> QED BY <1>8, <1>11
  <1> HIDE DEF g
  <1>13. \A i \in 1..(n + 1) : g[i] \in Seq(B)
    <2> HIDE DEF n, B
    <2>1. \A i \in 1..(n + 1) : i \notin stops => next[i] \in (i + 1)..(n + 1) /\ piece[i] \in Seq(B)
      BY <1>7, Zenon
    <2>2. \A i \in 1..(n + 1) : i \in stops => last[i] \in Seq(B)
      BY <1>7, Zenon
    <2> QED BY <1>1, <1>12, <2>1, <2>2, ChainedIn
  <1>14. \A i \in 1..(n + 1) : HtmlRest(s, g, i)
    BY <1>11, Zenon DEF HtmlRest
  <1> QED BY <1>2, <1>13, <1>14, Zenon DEF n, B

HtmlRests(w, rest, B) == \A i \in 1..(Len(w) + 1) : HtmlRest(w, rest, i) /\ rest[i] \in Seq(B)

\* The scan passes over a character that is no ampersand.
LEMMA HtmlPasses ==
    ASSUME NEW A, NEW w \in Seq(A), NEW rest, HtmlRests(w, rest, A \cup Marks), NEW i \in 1..Len(w), w[i] # "&"
    PROVE  rest[i] = <<w[i]>> \o rest[i + 1]
  <1> DEFINE n == Len(w)
             B == A \cup Marks
             f == Amp(w, i)
             h == Amp(w, i + 1)
             x == <<w[i]>>
  <1>1. n \in Nat /\ i \in Nat \ {0} /\ i + 1 \in Nat \ {0} /\ i \in 1..(n + 1) /\ i + 1 \in 1..(n + 1)
    OBVIOUS
  <1>2. /\ f = 0 \/ (f \in i..n /\ w[f] = "&")
        /\ \A k \in i..n : w[k] = "&" => f # 0 /\ f <= k
    BY <1>1, FindOne DEF Amp
  <1>3. /\ h = 0 \/ (h \in (i + 1)..n /\ w[h] = "&")
        /\ \A k \in (i + 1)..n : w[k] = "&" => h # 0 /\ h <= k
    BY <1>1, FindOne DEF Amp
  <1>4. HtmlRest(w, rest, i) /\ HtmlRest(w, rest, i + 1)
    BY <1>1, Zenon DEF HtmlRests
  <1>5. h = f
    <2> HIDE DEF f, h
    <2>1. CASE f = 0
      <3>1. \A k \in (i + 1)..n : k \in i..n
        BY <1>1
      <3> QED BY <1>2, <1>3, <2>1, <3>1
    <2>2. CASE f # 0
      <3>1. f \in (i + 1)..n
        BY <1>1, <1>2, <2>2
      <3>2. h # 0 /\ h <= f
        BY <1>2, <1>3, <2>2, <3>1
      <3>3. h \in i..n /\ w[h] = "&"
        BY <1>1, <1>3, <3>2
      <3>4. f <= h
        BY <1>2, <3>3
      <3> QED BY <1>1, <3>1, <3>2, <3>3, <3>4
    <2> QED BY <2>1, <2>2
  <1>6. w[i] \in B /\ w \in Seq(B)
    OBVIOUS
  <1> HIDE DEF B
  <1>7. x \in Seq(B)
    BY <1>6
  <1>8. CASE f = 0
    <2>1. rest[i] = From(w, i) /\ rest[i + 1] = From(w, i + 1)
      BY <1>4, <1>5, <1>8, Zenon DEF HtmlRest
    <2>2. <<w[i]>> \o SubSeq(w, i + 1, Len(w)) = SubSeq(w, i, Len(w))
      BY <1>1, RestOf
    <2> QED BY <2>1, <2>2, Zenon DEF From
  <1>9. CASE f # 0
    <2>1. f \in (i + 1)..n /\ f \in i..n /\ f - 1 \in i..n /\ f + 1 \in 1..(n + 1)
      <3> HIDE DEF f, x
      <3> QED BY <1>1, <1>2, <1>9
    <2>2. Semi(w, i + 1) = Semi(w, i) /\ Entity(w, i + 1) = Entity(w, i)
      BY <1>5, Zenon DEF Semi, Entity
    <2>3. IsEntity(w, i + 1) <=> IsEntity(w, i)
      BY <2>2, Zenon DEF IsEntity
    <2>4. CASE IsEntity(w, i)
      <3> DEFINE y == SubSeq(w, i + 1, f - 1)
                 e == <<Entities[Entity(w, i)[1]]>>
                 r == rest[Semi(w, i) + 1]
      <3>1. rest[i] = Replaced(w, i) \o r /\ Replaced(w, i) = SubSeq(w, i, f - 1) \o e
        BY <1>4, <1>9, <2>4, Zenon DEF HtmlRest, Replaced
      <3>2. rest[i + 1] = Replaced(w, i + 1) \o r /\ Replaced(w, i + 1) = y \o e
        BY <1>4, <1>5, <1>9, <2>2, <2>3, <2>4, Zenon DEF HtmlRest, Replaced
      <3>3. x \o y = SubSeq(w, i, f - 1)
        <4>1. \A m \in i..Len(w) : <<w[i]>> \o SubSeq(w, i + 1, m) = SubSeq(w, i, m)
          BY <1>6, FrontOf
        <4> QED BY <2>1, <4>1, Zenon
      <3>4. e \in Seq(B)
        <4>1. Entities[Entity(w, i)[1]] \in B
          BY <2>4, EntitiesAre, Zenon DEF IsEntity, B
        <4> DEFINE a == Entities[Entity(w, i)[1]]
        <4> HIDE DEF a
        <4> QED BY <4>1 DEF a
      <3>5. r \in Seq(B)
        <4>1. Semi(w, i) # 0 /\ f + 1 \in Nat \ {0}
          <5>1. Semi(w, i) # 0
            BY <2>4, Zenon DEF IsEntity
          <5> HIDE DEF f, x, y, e, r
          <5>2. f + 1 \in Nat \ {0}
            BY <1>1, <2>1
          <5> QED BY <5>1, <5>2
        <4>2. Semi(w, i) \in (f + 1)..n
          BY <4>1, FindOne DEF Semi
        <4>3. Semi(w, i) + 1 \in 1..(n + 1)
          <5> HIDE DEF f, x, y, e, r
          <5> QED BY <1>1, <2>1, <4>2
        <4> QED BY <4>3, Zenon DEF HtmlRests, B
      <3>6. y \in Seq(B)
        <4> DEFINE m == f - 1
        <4> HIDE DEF f
        <4>1. \A j \in (i + 1)..m : j \in 1..n /\ w[j] \in B
          BY <1>1, <1>6, <2>1
        <4> QED BY <1>1, <1>6, <2>1, <4>1
      <3> HIDE DEF x, y, e, r
      <3>7. (x \o y) \o e = x \o (y \o e) /\ y \o e \in Seq(B)
        <4>1. x \in Seq(B)
          BY <1>7
        <4>2. EitherOrder(x, y, e)
          BY <3>4, <3>6, <4>1, AppendsAssociate, Zenon
        <4>3. y \o e \in Seq(B)
          BY <3>4, <3>6
        <4> QED BY <4>2, <4>3, Zenon DEF EitherOrder
      <3>8. (x \o (y \o e)) \o r = x \o ((y \o e) \o r)
        <4> DEFINE c == y \o e
        <4>1. c \in Seq(B)
          BY <3>7
        <4> HIDE DEF c
        <4>2. x \in Seq(B)
          BY <1>7
        <4>3. EitherOrder(x, c, r)
          BY <3>5, <4>1, <4>2, AppendsAssociate, Zenon
        <4> QED BY <4>3, Zenon DEF EitherOrder, c
      <3>9. rest[i] = x \o rest[i + 1]
        BY <3>1, <3>2, <3>3, <3>7, <3>8, Zenon
      <3> QED BY <3>9 DEF x
    <2>5. CASE ~IsEntity(w, i)
      <3> DEFINE y == SubSeq(w, i + 1, f)
                 r == rest[f + 1]
      <3>1. rest[i] = SubSeq(w, i, f) \o r
        BY <1>4, <1>9, <2>5, Zenon DEF HtmlRest
      <3>2. rest[i + 1] = y \o r
        BY <1>4, <1>5, <1>9, <2>3, <2>5, Zenon DEF HtmlRest
      <3>3. x \o y = SubSeq(w, i, f)
        <4>1. \A m \in i..Len(w) : <<w[i]>> \o SubSeq(w, i + 1, m) = SubSeq(w, i, m)
          BY <1>6, FrontOf
        <4> QED BY <2>1, <4>1, Zenon
      <3>4. r \in Seq(B)
        BY <2>1, Zenon DEF HtmlRests, B
      <3>5. y \in Seq(B)
        <4> HIDE DEF f
        <4>1. \A j \in (i + 1)..f : j \in 1..n /\ w[j] \in B
          BY <1>1, <1>6, <2>1
        <4> QED BY <1>1, <1>6, <2>1, <4>1
      <3> HIDE DEF x, y, r
      <3>6. (x \o y) \o r = x \o (y \o r)
        <4>1. x \in Seq(B)
          BY <1>7
        <4>2. EitherOrder(x, y, r)
          BY <3>4, <3>5, <4>1, AppendsAssociate, Zenon
        <4> QED BY <4>2, Zenon DEF EitherOrder
      <3>7. rest[i] = x \o rest[i + 1]
        BY <3>1, <3>2, <3>3, <3>6, Zenon
      <3> QED BY <3>7 DEF x
    <2> QED BY <2>4, <2>5
  <1> QED BY <1>8, <1>9

\* The scan takes an entity in.
Semicolon == ";"
EntityAt(w, i) ==
    /\ i + 2 <= Len(w) /\ w[i] = "&" /\ w[i + 2] = Semicolon
    /\ w[i + 1] \in DOMAIN Entities /\ w[i + 1] # Semicolon

LEMMA HtmlTakes ==
    ASSUME NEW A, NEW w \in Seq(A), NEW rest, HtmlRests(w, rest, A \cup Marks), NEW i \in 1..Len(w),
           EntityAt(w, i)
    PROVE  rest[i] = <<Entities[w[i + 1]]>> \o rest[i + 3]
  <1> DEFINE n == Len(w)
             B == A \cup Marks
             f == Amp(w, i)
             g == Semi(w, i)
  <1>0. /\ i + 2 <= n /\ w[i] = "&" /\ w[i + 2] = Semicolon
        /\ w[i + 1] \in DOMAIN Entities /\ w[i + 1] # Semicolon
    BY Zenon DEF EntityAt
  <1>01. Semi(w, i) = FindFrom(w, <<Semicolon>>, f + 1)
    BY Zenon DEF Semi, Semicolon
  <1>1. n \in Nat /\ i \in Nat \ {0} /\ i + 1 \in Nat \ {0} /\ i \in 1..(n + 1) /\ i \in i..n
    OBVIOUS
  <1>2. f = i
    <2>1. /\ f = 0 \/ (f \in i..n /\ w[f] = "&")
          /\ \A k \in i..n : w[k] = "&" => f # 0 /\ f <= k
      BY <1>1, FindOne DEF Amp
    <2> HIDE DEF f
    <2> QED BY <1>0, <1>1, <2>1
  <1>3. g = i + 2
    <2>1. g = FindFrom(w, <<Semicolon>>, i + 1)
      BY <1>2, <1>01, Zenon
    <2>2. /\ g = 0 \/ (g \in (i + 1)..n /\ w[g] = Semicolon)
          /\ \A k \in (i + 1)..n : w[k] = Semicolon => g # 0 /\ g <= k
      BY <1>1, <2>1, FindOne
    <2> HIDE DEF g
    <2>3. i + 2 \in (i + 1)..n
      BY <1>0, <1>1
    <2>4. g # 0 /\ g <= i + 2
      BY <1>0, <2>2, <2>3
    <2>5. g # i + 1
      BY <1>0, <2>2, <2>4
    <2> QED BY <1>1, <2>2, <2>4, <2>5
  <1>4. Entity(w, i) = <<w[i + 1]>>
    <2>1. Entity(w, i) = SubSeq(w, i + 1, i + 1)
      <3>1. (i + 2) - 1 = i + 1
        OBVIOUS
      <3> QED BY <1>2, <1>3, <3>1, Zenon DEF Entity
    <2>2. i + 1 \in 1..n
      BY <1>0, <1>1
    <2> DEFINE p == SubSeq(w, i + 1, i + 1)
    <2>3. p \in Seq(A) /\ Len(p) = 1 /\ p[1] = w[i + 1]
      <3>1. \A k \in 1..n : SubSeq(w, k, k) \in Seq(A) /\ Len(SubSeq(w, k, k)) = 1 /\ SubSeq(w, k, k)[1] = w[k]
        BY <1>1
      <3> QED BY <2>2, <3>1, Zenon
    <2> HIDE DEF p
    <2>4. p = <<w[i + 1]>>
      BY <2>3
    <2> QED BY <2>1, <2>4 DEF p
  <1>5. Len(<<w[i + 1]>>) = 1 /\ <<w[i + 1]>>[1] = w[i + 1]
    OBVIOUS
  <1>6. i + 2 # 0 /\ i # 0 /\ (i + 2) + 1 = i + 3
    BY <1>1
  <1>7. IsEntity(w, i)
    BY <1>0, <1>3, <1>4, <1>5, <1>6, Zenon DEF IsEntity
  <1> DEFINE e == Entities[w[i + 1]]
  <1>8. Replaced(w, i) = <<e>>
    <2>1. Replaced(w, i) = SubSeq(w, i, i - 1) \o <<e>>
      BY <1>2, <1>4, <1>5, Zenon DEF Replaced
    <2>2. SubSeq(w, i, i - 1) = <<>>
      BY <1>1
    <2>3. <<>> \o <<e>> = <<e>>
      <3> HIDE DEF e
      <3> QED OBVIOUS
    <2> QED BY <2>1, <2>2, <2>3, Zenon
  <1>9. HtmlRest(w, rest, i)
    BY <1>1, Zenon DEF HtmlRests
  <1> QED BY <1>2, <1>3, <1>6, <1>7, <1>8, <1>9, Zenon DEF HtmlRest

\* How a character is written in a page, and that it is read back.
HtmlPiece(c) ==
    CASE c = "&" -> <<"&", "amp", ";">> [] c = "<" -> <<"&", "lt", ";">> [] OTHER -> <<c>>

EntityChars == {"&", "amp", "lt", Semicolon}

LEMMA HtmlPieceIs ==
    ASSUME NEW Glyphs, NEW c \in Glyphs
    PROVE  /\ HtmlPiece(c) \in Seq(Glyphs \cup EntityChars)
           /\ \/ HtmlPiece(c) = <<c>> /\ c # "&"
              \/ \E name \in DOMAIN Entities : /\ HtmlPiece(c) = <<"&", name, Semicolon>>
                                               /\ Entities[name] = c /\ name # Semicolon
  <1> DEFINE B == Glyphs \cup EntityChars
  <1>1. /\ c = "&" => HtmlPiece(c) = <<"&", "amp", Semicolon>>
        /\ c = "<" => HtmlPiece(c) = <<"&", "lt", Semicolon>>
        /\ c # "&" /\ c # "<" => HtmlPiece(c) = <<c>>
    BY Zenon DEF HtmlPiece, Semicolon
  <1>2. /\ "amp" \in DOMAIN Entities /\ Entities["amp"] = "&" /\ "lt" \in DOMAIN Entities /\ Entities["lt"] = "<"
        /\ "amp" # Semicolon /\ "lt" # Semicolon
    <2> DEFINE N == {"amp", "lt", "gt", "nbsp", "#39", "#x3C", "#60"}
    <2>1. DOMAIN Entities = N /\ "amp" \in N /\ "lt" \in N
      BY Zenon DEF Entities
    <2>2. Entities["amp"] = "&"
      BY <2>1, Zenon DEF Entities
    <2>3. \A name \in N : name # "amp" /\ name # "gt" /\ name # "nbsp" /\ name # "#39" => Entities[name] = "<"
      BY Zenon DEF Entities
    <2>4. Entities["lt"] = "<"
      <3>1. "lt" # "amp" /\ "lt" # "gt" /\ "lt" # "nbsp" /\ "lt" # "#39"
        BY Zenon
      <3> HIDE DEF N
      <3> QED BY <2>1, <2>3, <3>1, Zenon
    <2>5. "amp" # Semicolon /\ "lt" # Semicolon
      BY Zenon DEF Semicolon
    <2> HIDE DEF N
    <2> QED BY <2>1, <2>2, <2>4, <2>5, Zenon
  <1>3. \A name \in {"amp", "lt"} : <<"&", name, Semicolon>> \in Seq(B)
    BY DEF EntityChars
  <1>4. <<c>> \in Seq(B)
    OBVIOUS
  <1>5. CASE c = "&"
    BY <1>1, <1>2, <1>3, <1>5, Zenon
  <1>6. CASE c = "<"
    BY <1>1, <1>2, <1>3, <1>6, Zenon
  <1>7. CASE c # "&" /\ c # "<"
    BY <1>1, <1>4, <1>7, Zenon
  <1> QED BY <1>5, <1>6, <1>7, Zenon

LEMMA HtmlStep ==
    ASSUME NEW Glyphs, NEW c \in Glyphs, NEW A, NEW w \in Seq(A), NEW i \in 1..Len(w),
           LiesAt(w, HtmlPiece(c), i), NEW rest, HtmlRests(w, rest, A \cup Marks)
    PROVE  rest[i] = <<c>> \o rest[i + Len(HtmlPiece(c))]
  <1> DEFINE u == HtmlPiece(c)
             m == Len(u)
  <1>1. i + m - 1 <= Len(w) /\ \A j \in 1..m : w[i + j - 1] = u[j]
    BY Zenon DEF LiesAt
  <1>2. CASE u = <<c>> /\ c # "&"
    <2>1. m = 1 /\ u[1] = c
      <3>1. Len(<<c>>) = 1 /\ <<c>>[1] = c
        OBVIOUS
      <3> QED BY <1>2, <3>1, Zenon
    <2>2. w[i] = c
      <3>1. 1 \in 1..1 /\ i + 1 - 1 = i
        OBVIOUS
      <3>2. w[i + 1 - 1] = u[1]
        BY <1>1, <2>1, <3>1, Zenon
      <3> QED BY <2>1, <3>1, <3>2, Zenon
    <2>3. rest[i] = <<w[i]>> \o rest[i + 1]
      <3>1. w[i] # "&"
        BY <1>2, <2>2, Zenon
      <3> QED BY <3>1, HtmlPasses
    <2> QED BY <2>1, <2>2, <2>3, Zenon
  <1>3. CASE \E name \in DOMAIN Entities : /\ u = <<"&", name, Semicolon>>
                                           /\ Entities[name] = c /\ name # Semicolon
    <2>1. PICK name \in DOMAIN Entities : /\ u = <<"&", name, Semicolon>>
                                          /\ Entities[name] = c /\ name # Semicolon
      BY <1>3, Zenon
    <2>2. m = 3 /\ u[1] = "&" /\ u[2] = name /\ u[3] = Semicolon
      <3> DEFINE v == <<"&", name, Semicolon>>
      <3>1. Len(v) = 3 /\ v[1] = "&" /\ v[2] = name /\ v[3] = Semicolon
        OBVIOUS
      <3> HIDE DEF v
      <3> QED BY <2>1, <3>1, Zenon DEF v
    <2>3. w[i] = "&" /\ w[i + 1] = name /\ w[i + 2] = Semicolon /\ i + 2 <= Len(w)
      <3>1. 1 \in 1..3 /\ 2 \in 1..3 /\ 3 \in 1..3 /\ i + 1 - 1 = i /\ i + 2 - 1 = i + 1 /\ i + 3 - 1 = i + 2
        OBVIOUS
      <3>2. \A j \in 1..3 : w[i + j - 1] = u[j]
        BY <1>1, <2>2, Zenon
      <3>3. i + 3 - 1 <= Len(w)
        BY <1>1, <2>2, Zenon
      <3> HIDE DEF u, m
      <3> QED BY <2>2, <3>1, <3>2, <3>3
    <2>4. EntityAt(w, i)
      BY <2>1, <2>3, Zenon DEF EntityAt
    <2>5. rest[i] = <<Entities[w[i + 1]]>> \o rest[i + 3]
      BY <2>4, HtmlTakes
    <2> QED BY <2>1, <2>2, <2>3, <2>5, Zenon
  <1>4. \/ u = <<c>> /\ c # "&"
        \/ \E name \in DOMAIN Entities : /\ u = <<"&", name, Semicolon>>
                                         /\ Entities[name] = c /\ name # Semicolon
    BY HtmlPieceIs, Zenon
  <1> QED BY <1>2, <1>3, <1>4, Zenon

LEMMA HtmlUndone ==
    ASSUME NEW Glyphs, NEW s \in Seq(Glyphs)
    PROVE  HtmlEscape(s) \in Seq(Glyphs \cup EntityChars) /\ HtmlDecode(HtmlEscape(s)) = s
  <1> DEFINE n == Len(s)
             B == Glyphs \cup EntityChars
             q == [i \in DOMAIN s |-> HtmlPiece(s[i])]
             w == HtmlEscape(s)
  <1>1. n \in Nat /\ DOMAIN s = 1..n /\ \A i \in 1..n : s[i] \in Glyphs
    OBVIOUS
  <1>2. w = Glue(q)
    BY Zenon DEF HtmlEscape, HtmlPiece
  <1>3. \A i \in 1..n : q[i] = HtmlPiece(s[i]) /\ q[i] \in Seq(B)
    BY <1>1, HtmlPieceIs, Zenon
  <1> HIDE DEF w
  <1>4. q \in Seq(Seq(B)) /\ Len(q) = n
    <2> HIDE DEF B
    <2>1. q = [i \in 1..n |-> HtmlPiece(s[i])]
      BY <1>1, Zenon
    <2>2. \A i \in 1..n : HtmlPiece(s[i]) \in Seq(B)
      BY <1>3, Zenon
    <2> DEFINE P(i) == HtmlPiece(s[i])
    <2> HIDE DEF P, q
    <2>3. q = [i \in 1..n |-> P(i)] /\ \A i \in 1..n : P(i) \in Seq(B)
      BY <2>1, <2>2, Zenon DEF P
    <2> HIDE DEF n
    <2> QED BY <1>1, <2>3
  <1> HIDE DEF q
  <1>5. w \in Seq(B) /\ \E off : Lying(q, off, w)
    <2> HIDE DEF B
    <2> QED BY <1>2, <1>4, GlueLies
  <1>6. PICK off : Lying(q, off, w)
    BY <1>5
  <1>7. /\ off[0] = 0 /\ off[n] = Len(w)
        /\ \A i \in 0..n : off[i] \in 0..Len(w)
        /\ \A i \in 1..n : off[i] = off[i - 1] + Len(q[i])
        /\ \A i \in 1..n : \A j \in 1..Len(q[i]) : w[off[i - 1] + j] = q[i][j]
    BY <1>4, <1>6, Zenon DEF Lying
  <1>8. PICK rest : HtmlDecode(w) = rest[1] /\ HtmlRests(w, rest, B \cup Marks)
    <2> HIDE DEF B
    <2>1. w \in Seq(B)
      BY <1>5
    <2>2. \E rest : /\ HtmlDecode(w) = rest[1]
                    /\ \A i \in 1..(Len(w) + 1) : HtmlRest(w, rest, i) /\ rest[i] \in Seq(B \cup Marks)
      BY <2>1, HtmlDecodeIs
    <2> QED BY <2>2, Zenon DEF HtmlRests
  <1>9. rest[off[n] + 1] = <<>>
    <2> DEFINE e == Len(w) + 1
    <2>1. Len(w) \in Nat
      BY <1>5
    <2>2. e \in 1..(Len(w) + 1) /\ e \in Nat \ {0}
      BY <2>1
    <2>3. HtmlRest(w, rest, e)
      BY <1>8, <2>2, Zenon DEF HtmlRests
    <2>4. Amp(w, e) = 0
      <3> HIDE DEF B
      <3>1. FindFrom(w, <<"&">>, e) = 0 \/ FindFrom(w, <<"&">>, e) \in e..Len(w)
        <4> HIDE DEF e
        <4> QED BY <1>5, <2>2, FindOne
      <3>2. e..Len(w) = {}
        BY <2>1
      <3> QED BY <3>1, <3>2, Zenon DEF Amp
    <2>5. rest[e] = SubSeq(w, e, Len(w))
      BY <2>3, <2>4, Zenon DEF HtmlRest, From
    <2>6. SubSeq(w, e, Len(w)) = <<>>
      BY <2>1
    <2> QED BY <1>7, <2>5, <2>6, Zenon
  <1>10. ASSUME NEW k \in 1..n PROVE rest[off[k - 1] + 1] = <<s[k]>> \o rest[off[k] + 1]
    <2> DEFINE c == s[k]
               m == Len(q[k])
    <2>1. c \in Glyphs /\ q[k] = HtmlPiece(c) /\ q[k] \in Seq(B) /\ k - 1 \in 0..n /\ k \in 0..n
      BY <1>1, <1>3
    <2>2. m \in Nat \ {0}
      <3>1. Len(<<c>>) = 1 /\ \A name : Len(<<"&", name, Semicolon>>) = 3
        OBVIOUS
      <3>2. m = 1 \/ m = 3
        <4>1. HtmlPiece(c) = <<c>> \/ \E name : HtmlPiece(c) = <<"&", name, Semicolon>>
          BY <2>1, HtmlPieceIs, Zenon
        <4> QED BY <2>1, <3>1, <4>1, Zenon
      <3> HIDE DEF m
      <3> QED BY <3>2
    <2>3. off[k] = off[k - 1] + m /\ off[k] \in 0..Len(w) /\ off[k - 1] \in 0..Len(w)
      BY <1>7, <2>1
    <2>4. \A j \in 1..m : w[off[k - 1] + j] = q[k][j]
      BY <1>7
    <2> DEFINE o == off[k - 1]
    <2> HIDE DEF m, o
    <2>5. Len(w) \in Nat
      BY <1>5
    <2>6. o + 1 \in 1..Len(w) /\ o + 1 + m - 1 <= Len(w) /\ o + 1 + m = off[k] + 1
          /\ o + 1 \in 1..(Len(w) + 1)
      BY <2>2, <2>3, <2>5, SMTT(30) DEF o
    <2>7. \A j \in 1..m : w[o + 1 + j - 1] = HtmlPiece(c)[j]
      <3> TAKE j \in 1..m
      <3>1. o + 1 + j - 1 = o + j
        BY <2>2, <2>3 DEF o
      <3> QED BY <2>1, <2>4, <3>1, Zenon DEF o
    <2>8. m = Len(HtmlPiece(c))
      BY <2>1, Zenon DEF m
    <2> DEFINE x == o + 1
    <2>9. x \in 1..Len(w) /\ LiesAt(w, HtmlPiece(c), x)
      BY <2>6, <2>7, <2>8, Zenon DEF LiesAt
    <2> HIDE DEF x, c
    <2>10. rest[x] = <<c>> \o rest[x + Len(HtmlPiece(c))]
      <3> HIDE DEF B
      <3>1. x \in 1..Len(w)
        BY <2>9, Zenon
      <3>2. LiesAt(w, HtmlPiece(c), x)
        BY <2>9, Zenon
      <3>3. HtmlRests(w, rest, B \cup Marks)
        BY <1>8, Zenon
      <3>4. c \in Glyphs
        BY <2>1, Zenon
      <3>5. w \in Seq(B)
        BY <1>5, Zenon
      <3> QED BY <3>1, <3>2, <3>3, <3>4, <3>5, HtmlStep
    <2> QED BY <2>6, <2>8, <2>10, Zenon DEF x, o, c
  <1>11. rest[1] = s
    <2>1. Unwinds(s, off, rest)
      BY <1>7, <1>9, <1>10, Zenon DEF Unwinds
    <2> QED BY <2>1, Undone
  <1> QED BY <1>5, <1>8, <1>11, Zenon DEF w

(***************************************************************************)
(* What url_encode adds, url_decode takes away, and what one escaping of a *)
(* page adds, one call of html_decode takes away, whatever the text is: an *)
(* ampersand, a plus or a percent sign of the text comes back as itself,   *)
(* and a text escaped twice is decoded by two calls, one layer each.       *)
(***************************************************************************)
THEOREM EscapesUndone ==
    ASSUME NEW Glyphs, NEW s \in Seq(Glyphs)
    PROVE  EscapesComeUndone(s)
  <1> DEFINE B == Glyphs \cup EntityChars
             e == HtmlEscape(s)
  <1>1. UrlDecode(UrlEncode(s)) = s
    BY UrlUndone
  <1>2. e \in Seq(B) /\ HtmlDecode(e) = s
    BY HtmlUndone
  <1> HIDE DEF B, e
  <1>3. HtmlDecode(HtmlEscape(e)) = e
    BY <1>2, HtmlUndone
  <1> QED BY <1>1, <1>2, <1>3, Zenon DEF EscapesComeUndone, e

-----------------------------------------------------------------------------
(***************************************************************************)
(* Lists of tokens.                                                        *)
(***************************************************************************)

LEMMA LowerStays == \A c : LowerChar(LowerChar(c)) = LowerChar(c)
  <1> TAKE c
  <1> DEFINE D == DOMAIN LowerOf
  <1>1. /\ D = {"T", "X", "A"} /\ LowerOf["T"] = "t" /\ LowerOf["X"] = "x" /\ LowerOf["A"] = "a"
    BY DEF LowerOf
  <1> HIDE DEF D
  <1>2. c \in D => LowerChar(c) = LowerOf[c]
    BY Zenon DEF LowerChar, D
  <1>3. c \notin D => LowerChar(c) = c
    BY Zenon DEF LowerChar, D
  <1>4. \A d : d \notin D => LowerChar(d) = d
    BY Zenon DEF LowerChar, D
  <1>5. c \in D => LowerOf[c] \notin D
    BY <1>1
  <1> QED BY <1>2, <1>3, <1>4, <1>5, Zenon

LEMMA LowerIs ==
    ASSUME NEW A, NEW s \in Seq(A)
    PROVE  /\ Lower(s) \in Seq({LowerChar(c) : c \in A}) /\ Len(Lower(s)) = Len(s)
           /\ \A i \in 1..Len(s) : Lower(s)[i] = LowerChar(s[i])
  <1> DEFINE n == Len(s)
             B == {LowerChar(c) : c \in A}
             l(i) == LowerChar(s[i])
  <1>1. n \in Nat /\ DOMAIN s = 1..n /\ \A i \in 1..n : s[i] \in A
    OBVIOUS
  <1>2. \A i \in 1..n : l(i) \in B
    BY <1>1
  <1>3. Lower(s) = [i \in 1..n |-> l(i)]
    BY <1>1, Zenon DEF Lower
  <1> HIDE DEF n, B, l
  <1>4. [i \in 1..n |-> l(i)] \in Seq(B) /\ Len([i \in 1..n |-> l(i)]) = n
    BY <1>1, <1>2
  <1>5. \A i \in 1..n : Lower(s)[i] = l(i)
    BY <1>3
  <1> QED BY <1>3, <1>4, <1>5, Zenon DEF n, B, l

\* A run between cuts starts in it, ends no earlier, and holds no cut.
LEMMA RunIs ==
    ASSUME NEW s, Len(s) \in Nat, NEW cuts, NEW i \in 1..Len(s), i \notin cuts
    PROVE  /\ EndOf(s, cuts, i) \in i..Len(s)
           /\ \A k \in i..EndOf(s, cuts, i) : k \notin cuts
           /\ EndOf(s, cuts, i) = Len(s) \/ EndOf(s, cuts, i) + 1 \in cuts
  <1> DEFINE n == Len(s)
             T == {k \in i..(n + 1) : k = n + 1 \/ k \in cuts}
             e == Earliest(T)
  <1>1. n \in Nat /\ T \in SUBSET Nat /\ n + 1 \in T
    OBVIOUS
  <1>2. e \in T /\ \A k \in T : e <= k
    <2> HIDE DEF T
    <2> QED BY <1>1, EarliestIs
  <1>3. EndOf(s, cuts, i) = e - 1
    BY Zenon DEF EndOf
  <1> HIDE DEF e
  <1>4. e \in i..(n + 1) /\ (e = n + 1 \/ e \in cuts) /\ e # i
    BY <1>2
  <1>5. \A k \in i..(e - 1) : k \notin cuts
    <2> SUFFICES ASSUME NEW k \in i..(e - 1), k \in cuts PROVE FALSE
      OBVIOUS
    <2>1. k \in T /\ ~(e <= k)
      BY <1>4
    <2> QED BY <1>2, <2>1
  <1>6. e - 1 \in i..n /\ (e - 1 = n \/ (e - 1) + 1 \in cuts)
    BY <1>1, <1>4
  <1> QED BY <1>3, <1>5, <1>6, Zenon

\* A token: a text that is not empty, in lower case, and without delimiters.
IsToken(t) == Len(t) > 0 /\ \A j \in 1..Len(t) : t[j] \notin Delimiters /\ LowerChar(t[j]) = t[j]

CutsOf(s) == {i \in DOMAIN s : LowerChar(s[i]) \in Delimiters}

LEMMA TokensAre ==
    ASSUME NEW A, NEW s \in Seq(A)
    PROVE  /\ ValidateTokens(s) \in Seq(Seq({LowerChar(c) : c \in A}))
           /\ \A k \in 1..Len(ValidateTokens(s)) : IsToken(ValidateTokens(s)[k])
  <1> DEFINE n == Len(s)
             B == {LowerChar(c) : c \in A}
             cuts == CutsOf(s)
             S == Starts(s, cuts)
             order == Ascending(S)
             m == Cardinality(S)
             low == Lower(s)
             t(k) == Part(low, cuts, order[k])
  <1>1. n \in Nat /\ DOMAIN s = 1..n
    OBVIOUS
  <1>2. S \in SUBSET (1..n) /\ \A i \in S : i \notin cuts
    BY <1>1, Zenon DEF Starts
  <1>3. IsFiniteSet(S) /\ m \in Nat
    <2>1. IsFiniteSet(1..n)
      BY <1>1, FS_Interval
    <2> HIDE DEF S, n
    <2>2. IsFiniteSet(S)
      BY <1>2, <2>1, FS_Subset
    <2> QED BY <2>2, FS_CardinalityType
  <1>4. low \in Seq(B) /\ Len(low) = n /\ \A i \in 1..n : low[i] = LowerChar(s[i])
    BY LowerIs
  <1>5. DOMAIN order = 1..m /\ \A k \in 1..m : order[k] \in S
    <2>1. S \in SUBSET Nat
      BY <1>1, <1>2
    <2> HIDE DEF S
    <2> QED BY <1>3, <2>1, AscendingIs
  <1>6. ValidateTokens(s) = [k \in 1..m |-> t(k)]
    BY <1>5, Zenon DEF ValidateTokens, CutsOf
  <1> HIDE DEF order, low, m, B
  <1>7. ASSUME NEW k \in 1..m PROVE t(k) \in Seq(B) /\ IsToken(t(k))
    <2> DEFINE i == order[k]
               e == EndOf(low, cuts, i)
    <2>1. i \in 1..n /\ i \notin cuts
      BY <1>2, <1>5
    <2>2. e \in i..n /\ \A j \in i..e : j \notin cuts
      <3> HIDE DEF S, cuts, i
      <3> QED BY <1>1, <1>4, <2>1, RunIs
    <2>3. t(k) = SubSeq(low, i, e)
      BY Zenon DEF Part
    <2> HIDE DEF i, e
    <2> DEFINE p == SubSeq(low, i, e)
    <2>4. p \in Seq(B) /\ Len(p) = e - i + 1 /\ \A j \in 1..(e - i + 1) : p[j] = low[i + j - 1]
      BY <1>1, <1>4, <2>1, <2>2
    <2> HIDE DEF p
    <2>5. \A j \in 1..(e - i + 1) : i + j - 1 \in i..e /\ i + j - 1 \in 1..n
      BY <1>1, <2>1, <2>2
    <2>6. \A x \in 1..n : x \notin cuts => LowerChar(s[x]) \notin Delimiters
      BY <1>1, Zenon DEF CutsOf
    <2> HIDE DEF cuts
    <2>7. Len(p) > 0
      BY <2>1, <2>2, <2>4
    <2>8. ASSUME NEW j \in 1..Len(p) PROVE p[j] \notin Delimiters /\ LowerChar(p[j]) = p[j]
      <3> DEFINE x == i + j - 1
      <3>1. j \in 1..(e - i + 1)
        BY <2>4, Zenon
      <3>2. x \in i..e /\ x \in 1..n /\ p[j] = low[x]
        BY <2>4, <2>5, <3>1, Zenon
      <3> HIDE DEF x
      <3>3. p[j] = LowerChar(s[x]) /\ x \notin cuts
        BY <1>4, <2>2, <3>2, Zenon
      <3> QED BY <2>6, <3>2, <3>3, LowerStays, Zenon
    <2>9. IsToken(p)
      BY <2>7, <2>8, Zenon DEF IsToken
    <2> QED BY <2>3, <2>4, <2>9, Zenon DEF p
  <1> HIDE DEF t
  <1> DEFINE C0 == Seq(B)
  <1>8. \A k \in 1..m : t(k) \in C0
    BY <1>7
  <1> HIDE DEF C0
  <1>9. [k \in 1..m |-> t(k)] \in Seq(C0) /\ Len([k \in 1..m |-> t(k)]) = m
    BY <1>3, <1>8
  <1>10. \A k \in 1..m : [j \in 1..m |-> t(j)][k] = t(k)
    OBVIOUS
  <1>11. \A k \in 1..m : IsToken([j \in 1..m |-> t(j)][k])
    BY <1>7, <1>10, Zenon
  <1> QED BY <1>6, <1>9, <1>11, Zenon DEF C0, B

\* Different values at the first places of a sequence: as many as places.
Differ(f, m) == \A i, j \in 1..m : f[i] = f[j] => i = j
FirstOf(f, m) == {f[i] : i \in 1..m}

LEMMA ImageCount ==
    ASSUME NEW m \in Nat, NEW f, Differ(f, m)
    PROVE  IsFiniteSet(FirstOf(f, m)) /\ Cardinality(FirstOf(f, m)) = m
  <1> DEFINE S == {f[i] : i \in 1..m}
             g == [i \in 1..m |-> f[i]]
  <1>1. g \in Bijection(1..m, S)
    <2>1. g \in [1..m -> S] /\ \A x \in S : \E i \in 1..m : g[i] = x
      OBVIOUS
    <2>2. \A i, j \in 1..m : g[i] = g[j] => i = j
      BY DEF Differ
    <2> QED BY <2>1, <2>2 DEF Bijection, Injection, Surjection, IsInjective
  <1> HIDE DEF g, S
  <1>2. IsFiniteSet(1..m) /\ Cardinality(1..m) = m
    BY FS_Interval
  <1>3. ExistsBijection(1..m, S)
    BY <1>1 DEF ExistsBijection
  <1>4. IsFiniteSet(S) /\ Cardinality(S) = m
    BY <1>2, <1>3, FS_Bijection
  <1> QED BY <1>4, Zenon DEF S, FirstOf

\* Numbers that are given in their order are listed as they are given.
LEMMA AscendingOf ==
    ASSUME NEW n \in Nat, NEW f, \A i \in 1..n : f[i] \in Nat, \A i, j \in 1..n : i < j => f[i] < f[j]
    PROVE  /\ DOMAIN Ascending(FirstOf(f, n)) = 1..n
           /\ \A i \in 1..n : Ascending(FirstOf(f, n))[i] = f[i]
  <1> DEFINE S == {f[i] : i \in 1..n}
             less(k) == {x \in S : x < k}
  <1>1. \A i, j \in 1..n : f[i] = f[j] => i = j
    <2> SUFFICES ASSUME NEW i \in 1..n, NEW j \in 1..n, f[i] = f[j], i # j PROVE FALSE
      OBVIOUS
    <2>1. i < j \/ j < i
      OBVIOUS
    <2>2. f[i] < f[j] \/ f[j] < f[i]
      BY <2>1
    <2>3. f[i] \in Nat /\ f[j] \in Nat
      OBVIOUS
    <2> QED BY <2>2, <2>3
  <1>2. Cardinality(S) = n
    <2>1. Differ(f, n)
      BY <1>1, Zenon DEF Differ
    <2>2. Cardinality(FirstOf(f, n)) = n
      BY <2>1, ImageCount
    <2> QED BY <2>2, Zenon DEF FirstOf
  <1>3. ASSUME NEW i \in 1..n PROVE Cardinality(less(f[i])) = i - 1
    <2> DEFINE m == i - 1
    <2>1. m \in Nat /\ \A j \in 1..m : j \in 1..n
      OBVIOUS
    <2>2. less(f[i]) = {f[j] : j \in 1..m}
      <3>1. ASSUME NEW j \in 1..m PROVE f[j] \in less(f[i])
        <4>1. j \in 1..n /\ j < i
          OBVIOUS
        <4> QED BY <4>1
      <3>2. ASSUME NEW x \in less(f[i]) PROVE x \in {f[j] : j \in 1..m}
        <4>1. PICK j \in 1..n : x = f[j]
          OBVIOUS
        <4>2. f[j] < f[i] /\ f[i] \in Nat /\ f[j] \in Nat
          BY <4>1
        <4>3. ~(i < j) /\ i # j
          <5>1. i < j => f[i] < f[j]
            OBVIOUS
          <5> QED BY <4>2, <5>1
        <4>4. j \in 1..m
          BY <4>3
        <4> QED BY <4>1, <4>4
      <3> HIDE DEF less
      <3> QED BY <3>1, <3>2
    <2>3. \A j, k \in 1..m : f[j] = f[k] => j = k
      BY <1>1, <2>1
    <2> HIDE DEF m, less
    <2>4. Cardinality(less(f[i])) = m
      <3>1. Differ(f, m)
        BY <2>3, Zenon DEF Differ
      <3>2. Cardinality(FirstOf(f, m)) = m
        BY <2>1, <3>1, ImageCount
      <3> QED BY <2>2, <3>2, Zenon DEF FirstOf
    <2> QED BY <2>4 DEF m
  <1>4. ASSUME NEW i \in 1..n PROVE (CHOOSE k \in S : Cardinality(less(k)) = i - 1) = f[i]
    <2>1. f[i] \in S /\ Cardinality(less(f[i])) = i - 1
      BY <1>3
    <2>2. ASSUME NEW k \in S, Cardinality(less(k)) = i - 1 PROVE k = f[i]
      <3>1. PICK j \in 1..n : k = f[j]
        OBVIOUS
      <3> HIDE DEF less
      <3>2. i - 1 = j - 1
        BY <1>3, <2>2, <3>1
      <3>3. i = j
        BY <3>2
      <3> QED BY <3>1, <3>3
    <2> HIDE DEF S, less
    <2> QED BY <2>1, <2>2
  <1>5. Ascending(S) = [i \in 1..n |-> CHOOSE k \in S : Cardinality(less(k)) = i - 1]
    BY <1>2, Zenon DEF Ascending
  <1> HIDE DEF S, less
  <1>6. DOMAIN Ascending(S) = 1..n /\ \A i \in 1..n : Ascending(S)[i] = f[i]
    BY <1>4, <1>5
  <1> QED BY <1>6, Zenon DEF S, FirstOf

\* ", ", between the tokens of a list.
ListSep == <<",", " ">>

LEMMA ListSepIs ==
    /\ ListSep \in Seq({",", " "}) /\ Len(ListSep) = 2
    /\ LowerChar(ListSep[1]) \in Delimiters /\ LowerChar(ListSep[2]) \in Delimiters
  <1>1. \A a, b : <<a, b>> \in Seq({a, b}) /\ Len(<<a, b>>) = 2 /\ <<a, b>>[1] = a /\ <<a, b>>[2] = b
    OBVIOUS
  <1>2. LowerChar(",") = "," /\ LowerChar(" ") = " "
    <2>1. DOMAIN LowerOf = {"T", "X", "A"}
      BY DEF LowerOf
    <2> QED BY <2>1, Zenon DEF LowerChar
  <1>3. "," \in Delimiters /\ " " \in Delimiters
    BY Zenon DEF Delimiters
  <1> QED BY <1>1, <1>2, <1>3, Zenon DEF ListSep

LEMMA LowerNone == ValidateTokens(<<>>) = <<>>
  <1> DEFINE none == <<>>
  <1>1. DOMAIN none = {}
    OBVIOUS
  <1>2. \A cuts : Starts(none, cuts) = {}
    BY <1>1, Zenon DEF Starts
  <1>3. DOMAIN Ascending({}) = {}
    <2>1. Cardinality({}) = 0
      BY FS_EmptySet
    <2>2. DOMAIN Ascending({}) = 1..0
      BY <2>1, Zenon DEF Ascending
    <2>3. 1..0 = {}
      OBVIOUS
    <2> QED BY <2>2, <2>3
  <1> DEFINE cuts == CutsOf(none)
             order == Ascending(Starts(none, cuts))
             t(k) == Part(Lower(none), cuts, order[k])
  <1>4. ValidateTokens(none) = [k \in DOMAIN order |-> t(k)]
    BY Zenon DEF ValidateTokens, CutsOf
  <1>5. DOMAIN order = {}
    BY <1>2, <1>3, Zenon
  <1> HIDE DEF t, order
  <1>6. [k \in {} |-> t(k)] = <<>>
    OBVIOUS
  <1> QED BY <1>4, <1>5, <1>6, Zenon DEF none

\* A list of tokens is taken apart as it was joined.
LEMMA TokensJoined ==
    ASSUME NEW A, NEW parts \in Seq(Seq(A)), parts # <<>>, \A k \in 1..Len(parts) : IsToken(parts[k])
    PROVE  ValidateTokens(JoinWith(parts, ListSep)) = parts
  <1> DEFINE n == Len(parts)
             B == A \cup {",", " "}
             C0 == Seq(B)
             w == JoinWith(parts, ListSep)
             len(k) == Len(parts[k])
             cuts == CutsOf(w)
             low == Lower(w)
  <1>0. n \in Nat \ {0} /\ DOMAIN parts = 1..n /\ \A k \in 1..n : parts[k] \in Seq(A)
    OBVIOUS
  <1>1. parts \in Seq(C0) /\ ListSep \in Seq(B)
    <2> DEFINE D == {",", " "}
    <2>1. ListSep \in Seq(D)
      BY ListSepIs
    <2> HIDE DEF D
    <2>2. ListSep \in Seq(A \cup D)
      BY <2>1
    <2>3. parts \in Seq(Seq(A \cup D))
      <3>1. \A x \in Seq(A) : x \in Seq(A \cup D)
        OBVIOUS
      <3> DEFINE E == Seq(A)
                 F == Seq(A \cup D)
      <3>2. parts \in Seq(E) /\ \A x \in E : x \in F
        BY <3>1
      <3> HIDE DEF E, F
      <3>3. parts \in Seq(F)
        BY <3>2
      <3> QED BY <3>3 DEF F
    <2> QED BY <2>2, <2>3, Zenon DEF D
  <1> HIDE DEF B
  <1>2. w \in Seq(B) /\ \E start : JoinedAt(parts, ListSep, start, w)
    <2>1. parts \in Seq(Seq(B))
      BY <1>1
    <2> QED BY <1>1, <2>1, JoinLies
  <1>3. PICK start : JoinedAt(parts, ListSep, start, w)
    BY <1>2
  <1> DEFINE m == Len(w)
             behind(k) == start[k] + len(k)
  <1> HIDE DEF w
  <1>4. m \in Nat /\ DOMAIN w = 1..m
    BY <1>2
  <1>5. /\ start[1] = 1 /\ behind(n) = m + 1
        /\ \A k \in 1..n : start[k] \in 1..(m + 1) /\ behind(k) \in start[k]..(m + 1)
        /\ \A k \in 1..n : \A j \in 1..len(k) : w[start[k] + j - 1] = parts[k][j]
        /\ \A k \in 1..(n - 1) : start[k + 1] = behind(k) + 2
        /\ \A k \in 1..(n - 1) : \A j \in 1..2 : w[behind(k) + j - 1] = ListSep[j]
    BY <1>3, ListSepIs, Zenon DEF JoinedAt
  <1>6. \A k \in 1..n : /\ len(k) \in Nat \ {0}
                        /\ \A j \in 1..len(k) : parts[k][j] \notin Delimiters /\ LowerChar(parts[k][j]) = parts[k][j]
    <2> TAKE k \in 1..n
    <2>1. IsToken(parts[k]) /\ parts[k] \in Seq(A)
      BY <1>0
    <2>2. len(k) \in Nat
      BY <2>1
    <2>3. /\ len(k) > 0
          /\ \A j \in 1..len(k) : parts[k][j] \notin Delimiters /\ LowerChar(parts[k][j]) = parts[k][j]
      BY <2>1, Zenon DEF IsToken
    <2> HIDE DEF len
    <2>4. len(k) \in Nat \ {0}
      BY <2>2, <2>3
    <2> QED BY <2>3, <2>4, Zenon DEF len
  <1>7. \A i \in 1..m : i \in cuts <=> LowerChar(w[i]) \in Delimiters
    BY <1>4, Zenon DEF CutsOf
  <1>8. cuts \subseteq 1..m
    BY <1>4, Zenon DEF CutsOf
  <1> HIDE DEF cuts, len
  <1>9. \A k \in 1..n : \A i \in start[k]..(behind(k) - 1) : i \in 1..m /\ i \notin cuts
    <2> SUFFICES ASSUME NEW k \in 1..n, NEW i \in start[k]..(behind(k) - 1) PROVE i \in 1..m /\ i \notin cuts
      OBVIOUS
    <2> DEFINE j == i - start[k] + 1
    <2>1. i \in 1..m /\ j \in 1..len(k) /\ start[k] + j - 1 = i
      BY <1>4, <1>5, <1>6, SMTT(30)
    <2> HIDE DEF j
    <2>2. w[i] = parts[k][j]
      BY <1>5, <2>1, Zenon
    <2>3. LowerChar(w[i]) \notin Delimiters
      BY <1>6, <2>1, <2>2, Zenon
    <2> QED BY <1>7, <2>1, <2>3, Zenon
  <1>10. \A k \in 1..(n - 1) : /\ behind(k) \in cuts /\ behind(k) + 1 \in cuts
                               /\ behind(k) + 1 \in 1..m
    <2> SUFFICES ASSUME NEW k \in 1..(n - 1)
                 PROVE  behind(k) \in cuts /\ behind(k) + 1 \in cuts /\ behind(k) + 1 \in 1..m
      OBVIOUS
    <2> DEFINE b == behind(k)
    <2>1. k \in 1..n /\ k + 1 \in 1..n
      BY <1>0
    <2>2. start[k + 1] = b + 2 /\ start[k + 1] \in 1..(m + 1) /\ behind(k + 1) \in start[k + 1]..(m + 1)
          /\ b \in start[k]..(m + 1) /\ start[k] \in 1..(m + 1)
      BY <1>5, <2>1, Zenon
    <2>3. behind(k + 1) = start[k + 1] + len(k + 1) /\ len(k + 1) \in Nat \ {0}
      BY <1>6, <2>1
    <2>4. /\ w[b + 1 - 1] = ListSep[1] /\ w[b + 2 - 1] = ListSep[2]
      <3>1. 1 \in 1..2 /\ 2 \in 1..2
        OBVIOUS
      <3> QED BY <1>5, <3>1, Zenon
    <2> HIDE DEF b, behind
    <2>5. b \in 1..m /\ b + 1 \in 1..m /\ b + 1 - 1 = b /\ b + 2 - 1 = b + 1
      BY <1>4, <2>2, <2>3
    <2>6. LowerChar(w[b]) \in Delimiters /\ LowerChar(w[b + 1]) \in Delimiters
      BY <2>4, <2>5, ListSepIs, Zenon
    <2> QED BY <1>7, <2>5, <2>6, Zenon DEF b
  <1>11. \A k \in 1..n : start[k] \in 1..m /\ start[k] \notin cuts /\ (start[k] = 1 \/ start[k] - 1 \in cuts)
    <2> SUFFICES ASSUME NEW k \in 1..n
                 PROVE  start[k] \in 1..m /\ start[k] \notin cuts /\ (start[k] = 1 \/ start[k] - 1 \in cuts)
      OBVIOUS
    <2>1. start[k] \in start[k]..(behind(k) - 1)
      BY <1>5, <1>6
    <2>2. start[k] \in 1..m /\ start[k] \notin cuts
      BY <1>9, <2>1
    <2>3. CASE k = 1
      BY <1>5, <2>2, <2>3
    <2>4. CASE k # 1
      <3>1. k - 1 \in 1..(n - 1) /\ (k - 1) + 1 = k /\ k - 1 \in 1..n
        BY <2>4
      <3> DEFINE b == behind(k - 1)
      <3>2. start[k] = b + 2 /\ b + 1 \in cuts /\ b \in start[k - 1]..(m + 1) /\ start[k - 1] \in 1..(m + 1)
        BY <1>5, <1>10, <3>1, Zenon
      <3> HIDE DEF b
      <3>3. start[k] - 1 = b + 1
        BY <1>4, <3>2
      <3> QED BY <2>2, <3>2, <3>3
    <2> QED BY <2>3, <2>4
  <1> DEFINE S == FirstOf(start, n)
  <1>12. Starts(w, cuts) = S
    <2>1. ASSUME NEW k \in 1..n PROVE start[k] \in Starts(w, cuts)
      BY <1>4, <1>11, Zenon DEF Starts
    <2>2. ASSUME NEW i \in Starts(w, cuts) PROVE \E k \in 1..n : i = start[k]
      <3>1. i \in 1..m /\ i \notin cuts /\ (i = 1 \/ i - 1 \in cuts)
        BY <1>4, Zenon DEF Starts
      <3> DEFINE later == {k \in 1..n : start[k] > i}
      <3>2. \E k \in 1..n : start[k] <= i /\ (k = n \/ start[k + 1] > i)
        <4>1. CASE later = {}
          <5>1. n \in 1..n /\ ~(start[n] > i)
            BY <1>0, <4>1
          <5>2. start[n] <= i
            BY <1>4, <1>5, <3>1, <5>1, SMTT(30)
          <5> QED BY <5>1, <5>2
        <4>2. CASE later # {}
          <5>1. later \in SUBSET Nat
            OBVIOUS
          <5>2. PICK l \in later : \A k \in later : l <= k
            <6> HIDE DEF later
            <6> QED BY <4>2, <5>1, LeastOf
          <5>3. l \in 1..n /\ start[l] > i /\ l # 1
            BY <1>5, <3>1
          <5>4. l - 1 \in 1..n /\ (l - 1) + 1 = l /\ ~(l <= l - 1)
            BY <5>3
          <5>5. ~(start[l - 1] > i)
            BY <5>2, <5>4
          <5>6. start[l - 1] \in 1..(m + 1)
            BY <1>5, <5>4
          <5>7. start[l - 1] <= i
            BY <3>1, <5>5, <5>6
          <5> QED BY <5>3, <5>4, <5>7
        <4> QED BY <4>1, <4>2
      <3>3. PICK k \in 1..n : start[k] <= i /\ (k = n \/ start[k + 1] > i)
        BY <3>2
      <3>4. start[k] \in 1..(m + 1) /\ behind(k) \in start[k]..(m + 1)
        BY <1>5
      <3> DEFINE b == behind(k)
      <3> HIDE DEF behind, later
      <3>5. CASE i < b
        <4>1. CASE i # start[k]
          <5>1. i - 1 \in start[k]..(b - 1)
            BY <3>1, <3>3, <3>4, <3>5, <4>1
          <5>2. i - 1 \notin cuts
            BY <1>9, <5>1
          <5>3. i # 1
            BY <3>3, <3>4, <4>1
          <5> QED BY <3>1, <5>2, <5>3
        <4> QED BY <4>1
      <3>6. CASE ~(i < b)
        <4>1. k # n
          BY <1>4, <1>5, <3>1, <3>6
        <4>2. k \in 1..(n - 1)
          BY <4>1
        <4>3. start[k + 1] = b + 2 /\ start[k + 1] > i /\ b \in cuts /\ b + 1 \in cuts
          BY <1>5, <1>10, <3>3, <4>1, <4>2, Zenon
        <4>4. i = b \/ i = b + 1
          BY <3>1, <3>4, <3>6, <4>3
        <4> QED BY <3>1, <4>3, <4>4
      <3> QED BY <3>5, <3>6
    <2> QED BY <2>1, <2>2, Zenon DEF FirstOf
  <1>13. \A j, k \in 1..n : j < k => start[j] < start[k]
    <2> DEFINE T == {k \in Nat : k \in 1..n => \A j \in 1..n : j < k => start[j] < start[k]}
    <2>1. 0 \in T
      OBVIOUS
    <2>2. ASSUME NEW k \in Nat, k \in T PROVE k + 1 \in T
      <3> SUFFICES ASSUME k + 1 \in 1..n, NEW j \in 1..n, j < k + 1 PROVE start[j] < start[k + 1]
        OBVIOUS
      <3>1. k \in 1..(n - 1) /\ k \in 1..n /\ (j = k \/ j < k)
        OBVIOUS
      <3>2. start[k] < start[k + 1] /\ start[k] \in Nat /\ start[k + 1] \in Nat /\ start[j] \in Nat
        <4> DEFINE b == behind(k)
        <4>1. start[k + 1] = b + 2 /\ start[k] \in 1..(m + 1) /\ b \in start[k]..(m + 1) /\ start[j] \in 1..(m + 1)
          BY <1>5, <3>1, Zenon
        <4> HIDE DEF b, behind, T
        <4> QED BY <1>4, <4>1
      <3>3. j < k => start[j] < start[k]
        BY <2>2, <3>1
      <3> QED BY <3>1, <3>2, <3>3
    <2>3. Nat \subseteq T
      <3> HIDE DEF T
      <3> QED BY <2>1, <2>2, Inductively
    <2> QED BY <2>3
  <1> DEFINE order == Ascending(S)
  <1>14. DOMAIN order = 1..n /\ \A k \in 1..n : order[k] = start[k]
    <2>1. \A k \in 1..n : start[k] \in Nat
      BY <1>5
    <2> HIDE DEF behind
    <2> QED BY <1>0, <1>13, <2>1, AscendingOf
  <1>15. low \in Seq({LowerChar(c) : c \in B}) /\ Len(low) = m /\ \A i \in 1..m : low[i] = LowerChar(w[i])
    BY <1>2, LowerIs
  <1> HIDE DEF low
  <1>16. ASSUME NEW k \in 1..n PROVE Part(low, cuts, start[k]) = parts[k]
    <2> DEFINE i == start[k]
               b == behind(k)
               T == {x \in i..(m + 1) : x = m + 1 \/ x \in cuts}
    <2>1. i \in 1..m /\ b = i + len(k) /\ len(k) \in Nat \ {0} /\ b \in i..(m + 1)
      BY <1>5, <1>6, <1>11
    <2>2. b = m + 1 \/ b \in cuts
      BY <1>5, <1>10
    <2> HIDE DEF behind
    <2>3. b \in T
      BY <2>1, <2>2
    <2>4. \A x \in T : b <= x
      <3> SUFFICES ASSUME NEW x \in T, ~(b <= x) PROVE FALSE
        OBVIOUS
      <3>1. x \in i..(b - 1) /\ x \in i..(m + 1) /\ (x = m + 1 \/ x \in cuts)
        BY <1>4, <2>1
      <3>2. x \in 1..m /\ x \notin cuts
        BY <1>9, <3>1
      <3> QED BY <1>4, <3>1, <3>2
    <2>5. Earliest(T) = b
      <3>1. T \in SUBSET Nat
        BY <1>4, <2>1
      <3> HIDE DEF T, b, i
      <3> QED BY <2>3, <2>4, <3>1, EarliestAt
    <2>6. EndOf(low, cuts, i) = b - 1
      BY <1>15, <2>5, Zenon DEF EndOf
    <2>7. Part(low, cuts, i) = SubSeq(low, i, b - 1)
      BY <2>6, Zenon DEF Part
    <2> DEFINE p == parts[k]
               low2 == SubSeq(low, i, b - 1)
    <2>8. p \in Seq(A) /\ Len(p) = len(k) /\ DOMAIN p = 1..len(k)
      <3>1. p \in Seq(A) /\ Len(p) = len(k)
        BY <1>0, Zenon DEF len
      <3> HIDE DEF p
      <3>2. DOMAIN p = 1..Len(p)
        BY <3>1
      <3> QED BY <3>1, <3>2
    <2>9. \A j \in 1..len(k) : i + j - 1 \in 1..m /\ low[i + j - 1] = p[j]
      <3> SUFFICES ASSUME NEW j \in 1..len(k) PROVE i + j - 1 \in 1..m /\ low[i + j - 1] = p[j]
        OBVIOUS
      <3>1. i + j - 1 \in 1..m
        BY <1>4, <2>1
      <3>2. w[i + j - 1] = p[j] /\ LowerChar(p[j]) = p[j]
        BY <1>5, <1>6, Zenon
      <3> QED BY <1>15, <3>1, <3>2, Zenon
    <2> DEFINE L == {LowerChar(c) : c \in B} \cup A
    <2> HIDE DEF i, b, T, p, low2
    <2>10. low \in Seq(L) /\ p \in Seq(L)
      <3> DEFINE L0 == {LowerChar(c) : c \in B}
      <3>1. low \in Seq(L0)
        BY <1>15, Zenon
      <3> HIDE DEF L0
      <3>2. low \in Seq(L0 \cup A) /\ p \in Seq(L0 \cup A)
        BY <2>8, <3>1
      <3> QED BY <3>2 DEF L0
    <2> HIDE DEF L
    <2>11. i \in 1..(Len(low) + 1) /\ i + Len(p) - 1 <= Len(low) /\ i + Len(p) - 1 = b - 1
      <3>1. Len(low) = m /\ Len(p) = len(k)
        BY <1>15, <2>8, Zenon
      <3> HIDE DEF m
      <3> QED BY <1>4, <2>1, <3>1
    <2>12. \A j \in 1..Len(p) : low[i + j - 1] = p[j]
      BY <2>8, <2>9, Zenon
    <2>13. SubSeq(low, i, i + Len(p) - 1) = p
      BY <2>10, <2>11, <2>12, SameText
    <2>14. low2 = p
      BY <2>11, <2>13, Zenon DEF low2
    <2> QED BY <2>7, <2>14, Zenon DEF low2, p, i
  <1>17. ValidateTokens(w) = [k \in 1..n |-> Part(low, cuts, order[k])]
    <2> DEFINE ord == Ascending(Starts(w, cuts))
    <2>1. ValidateTokens(w) = [k \in DOMAIN ord |-> Part(low, cuts, ord[k])]
      BY Zenon DEF ValidateTokens, CutsOf, cuts, low
    <2>2. ord = order
      BY <1>12, Zenon
    <2>3. DOMAIN order = 1..n
      BY <1>14, Zenon
    <2> HIDE DEF ord, order
    <2> QED BY <2>1, <2>2, <2>3, Zenon
  <1>18. \A k \in 1..n : Part(low, cuts, order[k]) = parts[k]
    BY <1>14, <1>16, Zenon
  <1> HIDE DEF order
  <1>19. ValidateTokens(w) = [k \in 1..n |-> parts[k]]
    BY <1>17, <1>18, Zenon
  <1>20. [k \in 1..n |-> parts[k]] = parts
    BY <1>0
  <1> QED BY <1>19, <1>20, Zenon DEF w

\* The places of a whitelist that are kept: what the input has, where it is first.
KeptOf(allowed, data) ==
    {k \in DOMAIN allowed : allowed[k] \in data /\ \A l \in 1..(k - 1) : allowed[l] /= allowed[k]}

LEMMA KeptAre ==
    ASSUME NEW T, NEW allowed \in Seq(T), NEW data
    PROVE  LET picked == Picked(allowed, KeptOf(allowed, data))
           IN  /\ picked \in Seq(T)
               /\ ToSet(picked) = data \cap ToSet(allowed)
               /\ Len(picked) = Cardinality(ToSet(picked))
  <1> DEFINE places == KeptOf(allowed, data)
             picked == Picked(allowed, places)
             n == Len(picked)
  <1>1. DOMAIN allowed = 1..Len(allowed) /\ Len(allowed) \in Nat
    OBVIOUS
  <1>2. /\ places \in SUBSET DOMAIN allowed
        /\ \A k : k \in places <=> /\ k \in DOMAIN allowed /\ allowed[k] \in data
                                   /\ \A l \in 1..(k - 1) : allowed[l] /= allowed[k]
    BY Zenon DEF KeptOf
  <1> HIDE DEF places
  <1>3. /\ picked \in Seq(T) /\ ToSet(picked) = {allowed[p] : p \in places}
        /\ \A i, j \in DOMAIN picked : i < j => \E p, q \in places : p < q /\ picked[i] = allowed[p] /\ picked[j] = allowed[q]
    <2> HIDE DEF picked
    <2>1. picked \in Seq(T) /\ ToSet(picked) = {allowed[p] : p \in places}
      BY <1>2, PickedSet DEF picked
    <2>2. KeepsOrder(allowed, places, picked)
      BY <1>2, PickedIs DEF picked
    <2> QED BY <2>1, <2>2 DEF KeepsOrder
  <1>4. ASSUME NEW i \in DOMAIN allowed, allowed[i] \in data PROVE \E p \in places : allowed[p] = allowed[i]
    <2> DEFINE same == {k \in 1..Len(allowed) : allowed[k] = allowed[i]}
    <2>1. same \in SUBSET Nat /\ same # {}
      BY <1>1
    <2>2. PICK p \in same : \A k \in same : p <= k
      <3> HIDE DEF same
      <3> QED BY <2>1, LeastOf
    <2>3. p \in DOMAIN allowed /\ allowed[p] = allowed[i] /\ p \in 1..Len(allowed)
      BY <1>1
    <2>4. ASSUME NEW k \in 1..(p - 1) PROVE allowed[k] # allowed[p]
      <3>1. k \in 1..Len(allowed) /\ ~(p <= k)
        BY <1>1, <2>3
      <3> QED BY <2>2, <2>3, <3>1
    <2>5. p \in places
      BY <1>2, <1>4, <2>3, <2>4, Zenon
    <2> QED BY <2>3, <2>5
  <1>5. {allowed[p] : p \in places} = data \cap ToSet(allowed)
    <2>1. ToSet(allowed) = {allowed[i] : i \in DOMAIN allowed}
      BY DEF ToSet
    <2>2. ASSUME NEW p \in places PROVE allowed[p] \in data \cap ToSet(allowed)
      BY <1>2, <2>1
    <2>3. ASSUME NEW x \in data \cap ToSet(allowed) PROVE \E p \in places : x = allowed[p]
      <3>1. PICK i \in DOMAIN allowed : x = allowed[i]
        BY <2>1
      <3>2. PICK p \in places : allowed[p] = allowed[i]
        BY <1>4, <3>1
      <3> QED BY <3>1, <3>2
    <2> QED BY <2>2, <2>3
  <1>6. ASSUME NEW p \in places, NEW q \in places, p < q PROVE allowed[p] # allowed[q]
    <2>1. p \in 1..(q - 1)
      BY <1>1, <1>2, <1>6
    <2> QED BY <1>2, <2>1, Zenon
  <1> HIDE DEF picked
  <1>7. DOMAIN picked = 1..n /\ n \in Nat
    BY <1>3
  <1>8. Differ(picked, n)
    <2> SUFFICES ASSUME NEW i \in 1..n, NEW j \in 1..n, picked[i] = picked[j] PROVE i = j
      BY Zenon DEF Differ
    <2>1. ~(i < j) /\ ~(j < i)
      BY <1>3, <1>6, <1>7
    <2> QED BY <1>7, <2>1
  <1>9. ToSet(picked) = FirstOf(picked, n)
    BY <1>7, Zenon DEF ToSet, FirstOf
  <1>10. Cardinality(ToSet(picked)) = n
    <2> HIDE DEF n
    <2>1. Cardinality(FirstOf(picked, n)) = n
      BY <1>7, <1>8, ImageCount
    <2> QED BY <1>9, <2>1, Zenon
  <1> QED BY <1>3, <1>5, <1>10, Zenon DEF picked, places, n

LEMMA IntersectIs ==
    ASSUME NEW input, NEW whitelist
    PROVE  ValidateIntersect(input, whitelist)
             = JoinWith(Picked(ValidateTokens(whitelist), KeptOf(ValidateTokens(whitelist), ToSet(ValidateTokens(input)))), ListSep)
  BY Zenon DEF ValidateIntersect, KeptOf, ListSep

(***************************************************************************)
(* A sanitised list (validate_intersect) names each token once, exactly    *)
(* the tokens that the input and the whitelist share, and sanitising it    *)
(* again changes nothing, whatever delimiters, capitals, repetitions and   *)
(* empty tokens the two texts have.                                        *)
(***************************************************************************)
THEOREM ValidateShares ==
    ASSUME NEW A, NEW input \in Seq(A), NEW whitelist \in Seq(A)
    PROVE  ValidateIntersects(input, whitelist)
  <1> DEFINE B == {LowerChar(c) : c \in A}
             T == Seq(B)
             allowed == ValidateTokens(whitelist)
             given == ValidateTokens(input)
             data == ToSet(given)
             picked == Picked(allowed, KeptOf(allowed, data))
             out == JoinWith(picked, ListSep)
             tokens == ValidateTokens(out)
  <1>1. allowed \in Seq(T) /\ \A k \in 1..Len(allowed) : IsToken(allowed[k])
    BY TokensAre
  <1>2. ValidateIntersect(input, whitelist) = out
    BY IntersectIs
  <1> HIDE DEF allowed, given
  <1>3. picked \in Seq(T) /\ ToSet(picked) = data \cap ToSet(allowed) /\ Len(picked) = Cardinality(ToSet(picked))
    <2> HIDE DEF T, data
    <2> QED BY <1>1, KeptAre
  <1> HIDE DEF data, picked
  <1>4. \A k \in 1..Len(picked) : IsToken(picked[k])
    <2> TAKE k \in 1..Len(picked)
    <2> HIDE DEF T
    <2>1. picked[k] \in ToSet(picked)
      BY <1>3 DEF ToSet
    <2>2. picked[k] \in ToSet(allowed)
      BY <1>3, <2>1
    <2>3. PICK i \in DOMAIN allowed : picked[k] = allowed[i]
      BY <2>2 DEF ToSet
    <2>4. i \in 1..Len(allowed)
      BY <1>1
    <2> QED BY <1>1, <2>3, <2>4, Zenon
  <1>5. tokens = picked
    <2>1. CASE picked = <<>>
      <3>1. out = <<>>
        BY <2>1, JoinNone, Zenon
      <3> QED BY <2>1, <3>1, LowerNone, Zenon
    <2>2. CASE picked # <<>>
      <3> HIDE DEF B
      <3>1. picked \in Seq(Seq(B))
        BY <1>3
      <3> QED BY <1>4, <2>2, <3>1, TokensJoined
    <2> QED BY <2>1, <2>2
  <1> HIDE DEF out, tokens
  <1>6. ToSet(tokens) = data \cap ToSet(allowed) /\ Len(tokens) = Cardinality(ToSet(tokens))
    BY <1>3, <1>5, Zenon
  <1>7. KeptOf(allowed, ToSet(tokens)) = KeptOf(allowed, data)
    <2>1. \A k \in DOMAIN allowed : allowed[k] \in ToSet(allowed)
      BY DEF ToSet
    <2>2. \A k \in DOMAIN allowed : allowed[k] \in ToSet(tokens) <=> allowed[k] \in data
      BY <1>6, <2>1
    <2> QED BY <2>2, Zenon DEF KeptOf
  <1>8. ValidateIntersect(out, whitelist) = out
    BY <1>7, IntersectIs, Zenon DEF allowed, picked, out, tokens
  <1> QED BY <1>2, <1>6, <1>8, Zenon DEF ValidateIntersects, data, allowed, given, tokens

-----------------------------------------------------------------------------
(***************************************************************************)
(* The words of andmatch.                                                  *)
(***************************************************************************)
Gaps(s) == {i \in DOMAIN s : s[i] \notin WordChars}
Wanted(s) == {w \in {Part(s, Gaps(s), i) : i \in Starts(s, Gaps(s))} : Len(w) > 1 /\ Lower(w) \notin StopWords}

LEMMA LowerPart ==
    ASSUME NEW A, NEW s \in Seq(A), NEW i \in 1..Len(s), NEW e \in i..Len(s)
    PROVE  /\ SubSeq(s, i, e) \in Seq(A) /\ Len(SubSeq(s, i, e)) = e - i + 1
           /\ Lower(SubSeq(s, i, e)) = SubSeq(Lower(s), i, e)
  <1> DEFINE p == SubSeq(s, i, e)
             B == {LowerChar(c) : c \in A}
             low == Lower(s)
             q == SubSeq(low, i, e)
             n == e - i + 1
  <1>1. p \in Seq(A) /\ Len(p) = n /\ n \in Nat /\ \A j \in 1..n : p[j] = s[i + j - 1] /\ i + j - 1 \in 1..Len(s)
    OBVIOUS
  <1>2. low \in Seq(B) /\ Len(low) = Len(s) /\ \A k \in 1..Len(s) : low[k] = LowerChar(s[k])
    BY LowerIs
  <1>3. Lower(p) \in Seq(B) /\ Len(Lower(p)) = n /\ \A j \in 1..n : Lower(p)[j] = LowerChar(p[j])
    <2> HIDE DEF p, n
    <2> QED BY <1>1, LowerIs
  <1> HIDE DEF low, p, B
  <1>4. q \in Seq(B) /\ Len(q) = n /\ \A j \in 1..n : q[j] = low[i + j - 1]
    BY <1>2
  <1> HIDE DEF q, n
  <1>5. \A j \in 1..n : Lower(p)[j] = q[j]
    BY <1>1, <1>2, <1>3, <1>4, Zenon
  <1> DEFINE lp == Lower(p)
  <1>6. lp \in Seq(B) /\ Len(lp) = n /\ \A j \in 1..n : lp[j] = q[j]
    BY <1>3, <1>5, Zenon
  <1> HIDE DEF lp
  <1>7. lp = q
    BY <1>1, <1>4, <1>6
  <1> QED BY <1>1, <1>7, Zenon DEF lp, q, low, p, n

\* What holds a text holds every piece of it.
LEMMA HasPart ==
    ASSUME NEW A, NEW s \in Seq(A), NEW B, NEW p \in Seq(B), Has(s, p),
           NEW i \in 1..Len(p), NEW e \in i..Len(p)
    PROVE  Has(s, SubSeq(p, i, e))
  <1> DEFINE n == Len(s)
             k == FindFrom(s, p, 1)
             q == SubSeq(p, i, e)
             f == k + i - 1
  <1>1. n \in Nat /\ Len(p) \in Nat /\ 1 \in Nat \ {0}
    OBVIOUS
  <1>2. k \in 1..(n + 1) /\ StandsAt(s, p, k)
    BY <1>1, FindIs DEF Has
  <1> HIDE DEF k
  <1>3. k + Len(p) - 1 <= n /\ SubSeq(s, k, k + Len(p) - 1) = p
    BY <1>2, Zenon DEF StandsAt
  <1>4. f \in 1..(n + 1) /\ f + (e - i + 1) - 1 <= n /\ Len(q) = e - i + 1
    BY <1>1, <1>2, <1>3
  <1>5. SubSeq(s, f, f + (e - i + 1) - 1) = SubSeq(SubSeq(s, k, k + Len(p) - 1), i, e)
    BY <1>1, <1>2, <1>3
  <1>6. SubSeq(s, f, f + (e - i + 1) - 1) = q
    BY <1>3, <1>5
  <1> HIDE DEF q, f
  <1>7. StandsAt(s, q, f)
    BY <1>4, <1>6 DEF StandsAt
  <1> QED BY <1>1, <1>4, <1>7, FindIs DEF Has, q

\* A word of what is left of a text is a word of the text, or the part of the
\* one that was cut.
LEMMA FragmentIs ==
    ASSUME NEW A, NEW s \in Seq(A), NEW m \in 0..Len(s), 
           NEW i \in Starts(SubSeq(s, 1, m), Gaps(SubSeq(s, 1, m)))
    PROVE  \E d \in i..m : \E e \in d..Len(s) :
              /\ i \in 1..Len(s) /\ i \in Starts(s, Gaps(s))
              /\ Part(SubSeq(s, 1, m), Gaps(SubSeq(s, 1, m)), i) = SubSeq(s, i, d)
              /\ Part(s, Gaps(s), i) = SubSeq(s, i, e)
  <1> DEFINE n == Len(s)
             t == SubSeq(s, 1, m)
             gt == Gaps(t)
             gs == Gaps(s)
             d == EndOf(t, gt, i)
             e == EndOf(s, gs, i)
  <1>1. n \in Nat /\ DOMAIN s = 1..n /\ m \in 0..n /\ t \in Seq(A) /\ Len(t) = m /\ DOMAIN t = 1..m /\ \A k \in 1..m : t[k] = s[k]
    OBVIOUS
  <1> HIDE DEF t, n
  <1>2. \A k \in 1..m : k \in gt <=> k \in gs
    <2>1. \A k \in 1..m : k \in 1..n
      BY <1>1
    <2> QED BY <1>1, <2>1, Zenon DEF Gaps
  <1>3. gt \in SUBSET (1..m) /\ gs \in SUBSET (1..n)
    BY <1>1, Zenon DEF Gaps
  <1>4. i \in 1..m /\ i \notin gt /\ (i = 1 \/ i - 1 \in gt)
    BY <1>1, Zenon DEF Starts, t
  <1> HIDE DEF gt, gs
  <1>5. i \in 1..n /\ i \notin gs /\ (i = 1 \/ i - 1 \in gs)
    BY <1>1, <1>2, <1>3, <1>4
  <1>6. i \in Starts(s, gs)
    BY <1>1, <1>5, Zenon DEF Starts
  <1>7. d \in i..m /\ (\A k \in i..d : k \notin gt) /\ (d = m \/ d + 1 \in gt)
    <2>1. Len(t) \in Nat /\ i \in 1..Len(t)
      BY <1>1, <1>4
    <2>2. d \in i..Len(t) /\ (\A k \in i..d : k \notin gt) /\ (d = Len(t) \/ d + 1 \in gt)
      BY <1>4, <2>1, RunIs
    <2> QED BY <1>1, <2>2, Zenon
  <1>8. e \in i..n /\ (\A k \in i..e : k \notin gs) /\ (e = n \/ e + 1 \in gs)
    <2>1. Len(s) \in Nat /\ i \in 1..Len(s)
      BY <1>1, <1>5 DEF n
    <2> QED BY <1>5, <2>1, RunIs DEF n
  <1> HIDE DEF d, e
  <1>9. d <= e
    <2> SUFFICES ASSUME e < d PROVE FALSE
      BY <1>1, <1>5, <1>7, <1>8
    <2>0. e < d
      OBVIOUS
    <2>1. e + 1 \in i..d /\ e + 1 \in 1..m /\ e # n
      BY <1>1, <1>5, <1>7, <1>8, <2>0
    <2> QED BY <1>2, <1>7, <1>8, <2>1
  <1>10. d \in i..m /\ e \in d..n
    BY <1>1, <1>5, <1>7, <1>8, <1>9
  <1>11. Part(t, gt, i) = SubSeq(t, i, d) /\ Part(s, gs, i) = SubSeq(s, i, e)
    BY Zenon DEF Part, d, e
  <1>12. SubSeq(t, i, d) = SubSeq(s, i, d)
    BY <1>1, <1>4, <1>10 DEF t, n
  <1> QED BY <1>5, <1>6, <1>10, <1>11, <1>12, Zenon DEF gt, gs, n, t

\* The shorter pieces of a common word, but for single letters.
LEMMA StopFragment ==
    ASSUME NEW w \in StopWords, NEW k \in Nat, 1 < k, k < Len(w)
    PROVE  SubSeq(w, 1, k) \in StopWords \/ SubSeq(w, 1, k) = <<"t", "h">>
  <1>0. ASSUME NEW a, NEW b, NEW c PROVE SubSeq(<<a, b, c>>, 1, 2) = <<a, b>>
    <2> DEFINE q == <<a, b, c>>
               p == SubSeq(q, 1, 2)
               r == <<a, b>>
    <2>1. q \in Seq({a, b, c}) /\ Len(q) = 3 /\ q[1] = a /\ q[2] = b
      OBVIOUS
    <2> HIDE DEF q
    <2>2. p \in Seq({a, b, c}) /\ Len(p) = 2 /\ p[1] = q[1] /\ p[2] = q[2]
      BY <2>1
    <2>3. r \in Seq({a, b, c}) /\ Len(r) = 2 /\ r[1] = a /\ r[2] = b
      OBVIOUS
    <2> HIDE DEF p, r
    <2>4. p = r
      BY <2>1, <2>2, <2>3
    <2> QED BY <2>4, Zenon DEF p, q, r
  <1>1. CASE w = <<"a", "n", "d">>
    <2>1. k = 2
      BY <1>1
    <2>2. SubSeq(w, 1, k) = <<"a", "n">>
      BY <1>0, <1>1, <2>1, Zenon
    <2> QED BY <2>2, Zenon DEF StopWords
  <1>2. CASE w = <<"t", "h", "e">>
    <2>1. k = 2
      BY <1>2
    <2> QED BY <1>0, <1>2, <2>1, Zenon
  <1>3. CASE w = <<"a", "n">>
    BY <1>3
  <1> QED BY <1>1, <1>2, <1>3, Zenon DEF StopWords

Space == <<" ">>
LEMMA SpaceIs == \E X : Space \in Seq(X)
  <1>1. \A x : <<x>> \in Seq({x})
    OBVIOUS
  <1> QED BY <1>1, Zenon DEF Space

\* The words a row must hold are those of the keywords, or of what is left of them.
LEMMA RequiredOf ==
    ASSUME NEW keywords, Len(JoinWith(keywords, Space)) \in Nat
    PROVE  /\ Required(keywords, [ok |-> FALSE]) = Wanted(JoinWith(keywords, Space))
           /\ \A n \in 0..Len(JoinWith(keywords, Space)) :
                Required(keywords, [ok |-> TRUE, n |-> n]) = Wanted(SubSeq(JoinWith(keywords, Space), 1, n))
  <1> DEFINE joined == JoinWith(keywords, Space)
             bound(limit) == IF limit.n < Len(joined) THEN limit.n ELSE Len(joined)
             scope(limit) == IF limit.ok THEN SubSeq(joined, 1, bound(limit)) ELSE joined
  <1>1. \A limit : Required(keywords, limit) = Wanted(scope(limit))
    BY Zenon DEF Required, Wanted, Gaps, Space
  <1> HIDE DEF joined
  <1>2. scope([ok |-> FALSE]) = joined
    OBVIOUS
  <1>3. ASSUME NEW n \in 0..Len(joined) PROVE scope([ok |-> TRUE, n |-> n]) = SubSeq(joined, 1, n)
    <2> DEFINE l == [ok |-> TRUE, n |-> n]
    <2>1. l.ok = TRUE /\ l.n = n
      OBVIOUS
    <2> HIDE DEF l
    <2>2. bound(l) = n
      BY <2>1 DEF joined
    <2> HIDE DEF bound
    <2>3. scope(l) = SubSeq(joined, 1, n)
      BY <2>1, <2>2
    <2> QED BY <2>3, Zenon DEF l
  <1> HIDE DEF scope
  <1> QED BY <1>1, <1>2, <1>3, Zenon DEF joined

\* A row stays when it holds all of them.
LEMMA StaysWhen ==
    ASSUME NEW input, NEW keywords, NEW limit
    PROVE  AndMatch(input, keywords, limit) = Keeps(input)
             <=> keywords = <<>> \/ \A w \in Required(keywords, limit) : Has(Lower(input), Lower(w))
  <1> DEFINE all == \A w \in Required(keywords, limit) : Has(Lower(input), Lower(w))
  <1>1. Keeps(input) # DropRow
    BY DEF Keeps, DropRow
  <1>2. AndMatch(input, keywords, limit) = IF keywords = <<>> \/ all THEN Keeps(input) ELSE DropRow
    BY Zenon DEF AndMatch
  <1> QED BY <1>1, <1>2, Zenon

LEMMA CutWords ==
    ASSUME NEW A, NEW s \in Seq(A), NEW B, NEW low \in Seq(B), NEW m \in 0..Len(s), NEW w \in Wanted(SubSeq(s, 1, m)),
           \A v \in Wanted(s) : Has(low, Lower(v))
    PROVE  Has(low, Lower(w)) \/ Lower(w) = <<"t", "h">>
  <1> DEFINE t == SubSeq(s, 1, m)
  <1>1. Len(w) > 1 /\ Lower(w) \notin StopWords /\ \E i \in Starts(t, Gaps(t)) : w = Part(t, Gaps(t), i)
    BY Zenon DEF Wanted
  <1>2. PICK i \in Starts(t, Gaps(t)) : w = Part(t, Gaps(t), i)
    BY <1>1, Zenon
  <1> DEFINE v == Part(s, Gaps(s), i)
  <1>3. PICK d \in i..m : \E e \in d..Len(s) :
              /\ i \in 1..Len(s) /\ i \in Starts(s, Gaps(s))
              /\ Part(t, Gaps(t), i) = SubSeq(s, i, d) /\ v = SubSeq(s, i, e)
    BY FragmentIs
  <1>4. PICK e \in d..Len(s) :
              /\ i \in 1..Len(s) /\ i \in Starts(s, Gaps(s))
              /\ Part(t, Gaps(t), i) = SubSeq(s, i, d) /\ v = SubSeq(s, i, e)
    BY <1>3, Zenon
  <1> DEFINE k == d - i + 1
             x == Lower(v)
             D == {LowerChar(c) : c \in A}
  <1>5. v \in {Part(s, Gaps(s), j) : j \in Starts(s, Gaps(s))}
    BY <1>4, Zenon
  <1> HIDE DEF v, t
  <1>6. w = SubSeq(s, i, d) /\ v = SubSeq(s, i, e)
    BY <1>2, <1>4, Zenon
  <1>7. i \in 1..Len(s) /\ d \in i..Len(s) /\ e \in i..Len(s) /\ d <= e /\ k \in 1..(e - i + 1)
    BY <1>3, <1>4
  <1>8. v \in Seq(A) /\ Len(v) = e - i + 1 /\ Len(w) = k /\ w = SubSeq(v, 1, k)
    BY <1>6, <1>7
  <1>9. x \in Seq(D) /\ Len(x) = Len(v)
    BY <1>8, LowerIs
  <1>10. Lower(w) = SubSeq(x, 1, k)
    <2>1. 1 \in 1..Len(v) /\ k \in 1..Len(v)
      BY <1>7, <1>8
    <2> HIDE DEF k
    <2> QED BY <1>8, <2>1, LowerPart
  <1>11. 1 \in 1..Len(x) /\ k \in 1..Len(x) /\ k > 1 /\ Len(v) > 1
    BY <1>1, <1>7, <1>8, <1>9
  <1> HIDE DEF x, D
  <1>12. CASE x \notin StopWords
    <2>1. v \in Wanted(s)
      BY <1>5, <1>11, <1>12, Zenon DEF Wanted, x
    <2>2. Has(low, x)
      BY <2>1, Zenon DEF x
    <2> HIDE DEF k
    <2>3. Has(low, SubSeq(x, 1, k))
      BY <1>9, <1>11, <2>2, HasPart
    <2> QED BY <1>10, <2>3, Zenon
  <1>13. CASE x \in StopWords
    <2>1. k # Len(x)
      <3> SUFFICES ASSUME k = Len(x) PROVE FALSE
        OBVIOUS
      <3>1. SubSeq(x, 1, k) = x
        BY <1>9
      <3> QED BY <1>1, <1>10, <1>13, <3>1, Zenon
    <2>2. k \in Nat /\ 1 < k /\ k < Len(x)
      BY <1>9, <1>11, <2>1
    <2> HIDE DEF k
    <2>3. SubSeq(x, 1, k) \in StopWords \/ SubSeq(x, 1, k) = <<"t", "h">>
      BY <1>13, <2>2, StopFragment
    <2> QED BY <1>1, <1>10, <2>3, Zenon
  <1> QED BY <1>12, <1>13

(***************************************************************************)
(* The keywords of a search only narrow what a site listed (and_match): a  *)
(* search without any keeps each row, a row that holds the keywords as     *)
(* they were typed stays whatever the limit, and a limit lets more rows    *)
(* through, but for "the" cut to "th", which is no common word any more.   *)
(***************************************************************************)
THEOREM KeywordsNarrow ==
    ASSUME NEW A, NEW input \in Seq(A), NEW B, NEW keywords \in Seq(Seq(B))
    PROVE  KeywordsOnlyNarrow(input, keywords)
  <1> DEFINE joined == JoinWith(keywords, Space)
             low == Lower(input)
             N == Len(joined)
             Stays(limit) == AndMatch(input, keywords, limit) = Keeps(input)
             all == [ok |-> FALSE]
             cut(n) == [ok |-> TRUE, n |-> n]
             short(n) == \E w \in Required(keywords, cut(n)) : Lower(w) = <<"t", "h">>
  <1>1. SUFFICES /\ keywords = <<>> => Stays(all)
                 /\ Has(low, Lower(joined)) => Stays(all) /\ \A n \in 0..N : Stays(cut(n))
                 /\ Stays(all) => \A n \in 0..N : Stays(cut(n)) \/ short(n)
    BY Zenon DEF KeywordsOnlyNarrow, Space
  <1>2. \A limit : Stays(limit) <=> keywords = <<>> \/ \A w \in Required(keywords, limit) : Has(low, Lower(w))
    BY StaysWhen, Zenon
  <1> HIDE DEF Stays
  <1>3. CASE keywords = <<>>
    BY <1>2, <1>3, Zenon
  <1>4. CASE keywords # <<>>
    <2>1. PICK X : Space \in Seq(X)
      BY SpaceIs
    <2> DEFINE Y == B \cup X
    <2>2. Space \in Seq(Y) /\ keywords \in Seq(Seq(Y))
      <3>1. \A s \in Seq(B) : s \in Seq(Y)
        OBVIOUS
      <3>2. \A s \in Seq(X) : s \in Seq(Y)
        OBVIOUS
      <3> HIDE DEF Y
      <3>3. Seq(B) \subseteq Seq(Y)
        BY <3>1, Zenon
      <3> DEFINE SB == Seq(B)
                 SY == Seq(Y)
      <3> HIDE DEF SB, SY
      <3>4. \A q : q \in Seq(SB) /\ SB \subseteq SY => q \in Seq(SY)
        OBVIOUS
      <3> QED BY <2>1, <3>2, <3>3, <3>4, Zenon DEF SB, SY
    <2> HIDE DEF Y
    <2>3. joined \in Seq(Y)
      BY <1>4, <2>2, JoinLies
    <2> DEFINE L == {LowerChar(c) : c \in A}
               M == {LowerChar(c) : c \in Y}
    <2>4. low \in Seq(L) /\ Lower(joined) \in Seq(M) /\ Len(Lower(joined)) = N /\ N \in Nat
      <3>1. low \in Seq(L)
        BY LowerIs
      <3> HIDE DEF joined
      <3>2. Lower(joined) \in Seq(M) /\ Len(Lower(joined)) = Len(joined) /\ Len(joined) \in Nat
        BY <2>3, LowerIs
      <3> QED BY <3>1, <3>2
    <2> HIDE DEF low, L, M
    <2>5. Required(keywords, all) = Wanted(joined) /\ \A n \in 0..N : Required(keywords, cut(n)) = Wanted(SubSeq(joined, 1, n))
      BY <2>4, RequiredOf, Zenon
    <2> HIDE DEF joined
    <2>6. SubSeq(joined, 1, N) = joined /\ N \in 0..N
      BY <2>3
    <2>7. ASSUME Has(low, Lower(joined)), NEW n \in 0..N, NEW w \in Wanted(SubSeq(joined, 1, n))
          PROVE  Has(low, Lower(w))
      <3> DEFINE t == SubSeq(joined, 1, n)
      <3>1. PICK i \in Starts(t, Gaps(t)) : w = Part(t, Gaps(t), i)
        BY <2>7, Zenon DEF Wanted
      <3> HIDE DEF t
      <3>2. PICK d \in i..n : i \in 1..N /\ w = SubSeq(joined, i, d)
        BY <2>3, FragmentIs, <3>1, Zenon DEF t
      <3>3. i \in 1..N /\ d \in i..N
        BY <2>4, <3>2
      <3>4. Lower(w) = SubSeq(Lower(joined), i, d)
        BY <2>3, <3>2, <3>3, LowerPart
      <3> QED BY <2>4, <2>7, <3>3, <3>4, HasPart
    <2>8. ASSUME \A v \in Wanted(joined) : Has(low, Lower(v)), NEW n \in 0..N, NEW w \in Wanted(SubSeq(joined, 1, n))
          PROVE  Has(low, Lower(w)) \/ Lower(w) = <<"t", "h">>
      BY <2>3, <2>4, <2>8, CutWords
    <2> HIDE DEF N
    <2>9. Has(low, Lower(joined)) => Stays(all) /\ \A n \in 0..N : Stays(cut(n))
      <3> SUFFICES ASSUME Has(low, Lower(joined)) PROVE Stays(all) /\ \A n \in 0..N : Stays(cut(n))
        OBVIOUS
      <3>1. \A n \in 0..N : \A w \in Wanted(SubSeq(joined, 1, n)) : Has(low, Lower(w))
        BY <2>7, Zenon
      <3>2. \A w \in Wanted(joined) : Has(low, Lower(w))
        BY <2>6, <3>1, Zenon
      <3> QED BY <1>2, <2>5, <3>1, <3>2, Zenon
    <2>10. Stays(all) => \A n \in 0..N : Stays(cut(n)) \/ short(n)
      <3> SUFFICES ASSUME Stays(all), NEW n \in 0..N PROVE Stays(cut(n)) \/ short(n)
        OBVIOUS
      <3>1. \A v \in Wanted(joined) : Has(low, Lower(v))
        BY <1>2, <1>4, <2>5, Zenon
      <3>2. \A w \in Wanted(SubSeq(joined, 1, n)) : Has(low, Lower(w)) \/ Lower(w) = <<"t", "h">>
        BY <2>8, <3>1, Zenon
      <3>3. Required(keywords, cut(n)) = Wanted(SubSeq(joined, 1, n))
        BY <2>5, Zenon
      <3> QED BY <1>2, <3>2, <3>3, Zenon
    <2> QED BY <1>4, <2>9, <2>10, Zenon
  <1> QED BY <1>3, <1>4
=============================================================================
