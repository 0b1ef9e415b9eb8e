-------------------------------- MODULE Feeds --------------------------------
(***************************************************************************)
(* Torznab on both sides: the feed the endpoint renders                    *)
(* (crates/oxidarr-prowl/src/torznab.rs), the feed an indexer's answer is  *)
(* read from (crates/oxidarr-indexer/src/rss.rs) and the request for it    *)
(* (src/indexer.rs).  A document is the sequence of events quick_xml gives *)
(* for it; an optional value is a sequence of at most one; a count is      *)
(* capped at MaxCount.                                                     *)
(***************************************************************************)
EXTENDS Integers, Sequences, FiniteSets, SequencesExt, Text

CONSTANT MaxCount    \* u32::MAX, and u64::MAX of a size

Caps == INSTANCE Categories

----------------------------------------------------------------------------
(* quick_xml's events; a name may have a prefix *)

Start(name, attrs) == [e |-> "start", name |-> name, attrs |-> attrs]
Empty(name, attrs) == [e |-> "empty", name |-> name, attrs |-> attrs]
End(name) == [e |-> "end", name |-> name]
Chars(s) == [e |-> "text", s |-> s]
CData(s) == [e |-> "cdata", s |-> s]
Ref(name) == [e |-> "ref", name |-> name]

LocalName(name) == name[Len(name)]
NoAttrs == [n \in {} |-> <<>>]
Attrs(name, value) == [n \in {"name", "value"} |-> IF n = "name" THEN <<name>> ELSE value]

Predefined == [amp |-> "&", lt |-> "<", gt |-> ">"]
EntityOf(c) == CHOOSE n \in DOMAIN Predefined : Predefined[n] = c

\* BytesText: each character with an entity is written as a reference.
Written(s) ==
    [i \in DOMAIN s |-> IF \E n \in DOMAIN Predefined : Predefined[n] = s[i] THEN Ref(EntityOf(s[i])) ELSE Chars(<<s[i]>>)]
Element(name, s) == <<Start(<<name>>, NoAttrs)>> \o Written(s) \o <<End(<<name>>)>>
Inside(name, events) == <<Start(<<name>>, NoAttrs)>> \o events \o <<End(<<name>>)>>

Decimal(n) ==
    LET digits[k \in 0..n] == IF k < 10 THEN <<Digits[k + 1]>> ELSE digits[k \div 10] \o <<Digits[(k % 10) + 1]>>
    IN digits[n]
Parsed(s) == IF IsNumber(s) /\ s[1] /= "-" /\ Number(s) <= MaxCount THEN <<Number(s)>> ELSE <<>>

----------------------------------------------------------------------------
(* Rendering *)

None == <<>>
\* Release, but for what no feed carries.
Release ==
    [title |-> <<>>, size |-> None, seeders |-> None, leechers |-> None, grabs |-> None,
     details_url |-> None, download_url |-> None, magnet_url |-> None, info_hash |-> None,
     publish_date |-> None, categories |-> <<>>, download_volume_factor |-> 1, upload_volume_factor |-> 1]

Urn == <<"urn:release:">>
Attr(name, value) == <<Empty(<<"torznab", "attr">>, Attrs(name, value))>>
AttrOpt(name, value) == IF value = None THEN <<>> ELSE Attr(name, value[1])
CountOpt(name, value) == IF value = None THEN <<>> ELSE Attr(name, Decimal(value[1]))
ElementOpt(name, value) == IF value = None THEN <<>> ELSE Element(name, value[1])

OrElse(a, b) == IF a = None THEN b ELSE a

\* MUTANT: the magnet link of a release with no download, in the enclosure.
EnclosureOfEither(release) ==
    LET url == OrElse(release.download_url, release.magnet_url)
    IN IF url = None THEN <<>> ELSE <<Empty(<<"enclosure">>, [n \in {"url"} |-> url[1]])>>

\* The enclosure is the download alone; only the link may be the magnet.
Enclosure(release) ==
    IF release.download_url = None THEN <<>>
    ELSE <<Empty(<<"enclosure">>,
                 IF release.size = None THEN [url |-> release.download_url[1]]
                 ELSE [url |-> release.download_url[1], length |-> Decimal(release.size[1])])>>

\* Both are there and added up, or there are no peers.
Peers(release) ==
    IF release.seeders = None \/ release.leechers = None THEN <<>>
    ELSE LET sum == release.seeders[1] + release.leechers[1]
         IN Attr("peers", Decimal(IF sum > MaxCount THEN MaxCount ELSE sum))

WriteItem(release) ==
    Inside("item",
        Element("title", release.title)
        \o Element("guid", IF release.details_url = None THEN Urn \o release.title ELSE release.details_url[1])
        \o ElementOpt("comments", release.details_url)
        \o ElementOpt("link", OrElse(release.download_url, release.magnet_url))
        \o ElementOpt("pubDate", release.publish_date)
        \o (IF release.size = None THEN <<>> ELSE Element("size", Decimal(release.size[1])))
        \o Enclosure(release)
        \o CountOpt("seeders", release.seeders)
        \o Peers(release)
        \o CountOpt("grabs", release.grabs)
        \o AttrOpt("infohash", release.info_hash)
        \o AttrOpt("magneturl", release.magnet_url)
        \o Glue([i \in DOMAIN release.categories |-> Attr("category", Decimal(release.categories[i]))])
        \o Attr("downloadvolumefactor", Decimal(release.download_volume_factor))
        \o Attr("uploadvolumefactor", Decimal(release.upload_volume_factor)))

RenderResults(releases, title) ==
    Inside("rss", Inside("channel",
        Element("title", title) \o Glue([i \in DOMAIN releases |-> WriteItem(releases[i])])))

RenderError(code, description) ==
    <<Empty(<<"error">>, [code |-> Decimal(code), description |-> description])>>

SearchMode(modes, mode) ==
    [mode |-> mode, available |-> mode \in DOMAIN modes,
     supported |-> IF mode \in DOMAIN modes /\ Glue(modes[mode]) /= <<>> THEN JoinWith(modes[mode], <<",">>) ELSE <<"q">>]

RenderCaps(modes, map) ==
    [searching |-> [i \in 1..3 |-> SearchMode(modes, <<"search", "tv-search", "movie-search">>[i])],
     categories |-> Caps!CategoryGroups(map)]

----------------------------------------------------------------------------
(* Reading *)

ItemAcc ==
    [title |-> <<>>, guid |-> None, comments |-> None, link |-> None, pub_date |-> None,
     enclosure_url |-> None, enclosure_length |-> None, size_override |-> None, seeders |-> None,
     peers |-> None, grabs |-> None, info_hash |-> None, magnet_url |-> None, categories |-> <<>>,
     download_volume_factor |-> None, upload_volume_factor |-> None]

IsWebUrl(s) == s /= <<>> /\ s[1] = "http:"
IsMagnet(s) == s /= <<>> /\ s[1] = "magnet:"
Dates == {"date0", "date1"}

\* into_release: what prefers what is settled here, once all is there.
IntoRelease(item) ==
    LET linkIsMagnet == item.link /= None /\ IsMagnet(item.link[1])
    IN [Release EXCEPT
          !.title = item.title,
          !.size = OrElse(item.size_override, item.enclosure_length),
          !.seeders = item.seeders,
          !.leechers = IF item.seeders = None \/ item.peers = None THEN None
                       ELSE <<IF item.peers[1] > item.seeders[1] THEN item.peers[1] - item.seeders[1] ELSE 0>>,
          !.grabs = item.grabs,
          !.details_url = OrElse(item.comments,
                                 IF item.guid /= None /\ IsWebUrl(item.guid[1]) THEN item.guid ELSE None),
          !.download_url = OrElse(item.enclosure_url, IF linkIsMagnet THEN None ELSE item.link),
          !.magnet_url = OrElse(item.magnet_url, IF linkIsMagnet THEN item.link ELSE None),
          !.info_hash = item.info_hash,
          !.publish_date = IF item.pub_date /= None /\ Len(item.pub_date[1]) = 1 /\ item.pub_date[1][1] \in Dates
                           THEN item.pub_date ELSE None,
          !.categories = item.categories,
          !.download_volume_factor = OrElse(item.download_volume_factor, <<1>>)[1],
          !.upload_volume_factor = OrElse(item.upload_volume_factor, <<1>>)[1]]

\* TextField, by the element's local name.
TextFields == [title |-> "title", guid |-> "guid", link |-> "link", comments |-> "comments",
               pubDate |-> "pub_date", size |-> "size_override"]

\* commit_field: trimmed once, as a whole; what is empty is not there.
CommitField(item, field, raw) ==
    LET value == Trim(raw)
    IN CASE field = "title" -> [item EXCEPT !.title = value]
         [] field = "size_override" -> [item EXCEPT !.size_override = Parsed(value)]
         [] field \notin {"title", "size_override"} /\ value = <<>> -> item
         [] OTHER -> [item EXCEPT ![field] = <<value>>]

ApplyEnclosure(item, attrs) ==
    LET read(n) == IF n \in DOMAIN attrs THEN <<attrs[n]>> ELSE None
    IN [item EXCEPT !.enclosure_url = read("url"),
                    !.enclosure_length = IF read("length") = None THEN None ELSE Parsed(attrs["length"])]

Counted == [seeders |-> "seeders", peers |-> "peers", grabs |-> "grabs", size |-> "size_override",
            downloadvolumefactor |-> "download_volume_factor", uploadvolumefactor |-> "upload_volume_factor"]
Spelled == [infohash |-> "info_hash", magneturl |-> "magnet_url"]

ApplyTorznabAttr(item, name, value) ==
    CASE name \in DOMAIN Counted -> [item EXCEPT ![Counted[name]] = Parsed(value)]
      [] name \in DOMAIN Spelled -> [item EXCEPT ![Spelled[name]] = <<value>>]
      [] name = "category" -> [item EXCEPT !.categories = @ \o Parsed(value)]
      [] OTHER -> item

ApplyAttrElement(item, attrs) ==
    IF {"name", "value"} \subseteq DOMAIN attrs THEN ApplyTorznabAttr(item, attrs["name"][1], attrs["value"]) ELSE item

\* A name that is no predefined entity stays as it is written.
ResolveEntityRef(name) == IF name \in DOMAIN Predefined THEN <<Predefined[name]>> ELSE <<"&", name, ";">>

\* The state of parse_feed's loop; item is absent outside an <item>.
Begun == [ok |-> TRUE, open |-> <<>>, channel |-> FALSE, item |-> None, field |-> "", buffer |-> <<>>, releases |-> <<>>]

Tagged(st, event) ==
    LET name == LocalName(event.name)
    IN CASE name = "channel" -> [st EXCEPT !.channel = TRUE]
         [] name = "item" ->
              IF event.e = "start" THEN [st EXCEPT !.item = <<ItemAcc>>]
              ELSE [st EXCEPT !.releases = Append(@, IntoRelease(ItemAcc))]
         [] name = "enclosure" ->
              [st EXCEPT !.item = IF @ = None THEN None ELSE <<ApplyEnclosure(@[1], event.attrs)>>]
         [] name = "attr" ->
              [st EXCEPT !.item = IF @ = None THEN None ELSE <<ApplyAttrElement(@[1], event.attrs)>>]
         [] OTHER ->
              IF event.e = "empty" \/ st.item = None THEN st
              ELSE [st EXCEPT !.field = IF name \in DOMAIN TextFields THEN TextFields[name] ELSE "", !.buffer = <<>>]

\* Text counts only inside a field of an item.
Text(st, s) == IF st.field /= "" /\ st.item /= None THEN [st EXCEPT !.buffer = @ \o s] ELSE st

Closed(st, name) ==
    IF LocalName(name) = "item"
    THEN IF st.item = None THEN st
         ELSE [st EXCEPT !.releases = Append(@, IntoRelease(st.item[1])), !.item = None]
    ELSE IF st.field = "" THEN st
    ELSE [st EXCEPT !.field = "", !.buffer = <<>>,
                    !.item = IF @ = None THEN None ELSE <<CommitField(@[1], st.field, st.buffer)>>]

\* One event; the reader itself rejects an end tag that closes nothing.
Read(st, event) ==
    IF ~st.ok THEN st
    ELSE CASE event.e = "start" -> Tagged([st EXCEPT !.open = Append(@, event.name)], event)
           [] event.e = "empty" -> Tagged(st, event)
           [] event.e \in {"text", "cdata"} -> Text(st, event.s)
           [] event.e = "ref" -> Text(st, ResolveEntityRef(event.name))
           [] event.e = "end" ->
                IF st.open = <<>> \/ Last(st.open) /= event.name THEN [st EXCEPT !.ok = FALSE]
                ELSE Closed([st EXCEPT !.open = Front(@)], event.name)

ReadAll(begun, events) ==
    LET at[i \in 0..Len(events)] == IF i = 0 THEN begun ELSE Read(at[i - 1], events[i])
    IN at[Len(events)]

ParseFeed(events) ==
    LET st == ReadAll(Begun, events)
    IN IF st.ok /\ st.channel THEN [ok |-> TRUE, releases |-> st.releases] ELSE [ok |-> FALSE]

----------------------------------------------------------------------------
(* The request *)

\* api is added to the path but where it ends in it; a query goes.
ApiUrl(base) ==
    LET segments == SelectSeq(base.path, LAMBDA p : p /= "")
        bare == IF base.path /= <<>> /\ Last(base.path) = "" THEN Front(base.path) ELSE base.path
    IN [host |-> base.host,
        path |-> IF segments /= <<>> /\ Last(segments) = "api" THEN base.path ELSE Append(bare, "api")]

StripTtPrefix(id) == IF Len(id) >= 2 /\ SubSeq(Lower(id), 1, 2) = <<"t", "t">> THEN From(id, 3) ELSE id

\* The pairs of the query, in their order; encoding is url's.
BuildUrl(base, q, apikey) ==
    LET tv == q.season /= None \/ q.episode /= None
        pair(name, value) == IF value = None THEN <<>> ELSE <<<<name, value[1]>>>>
    IN [url |-> ApiUrl(base),
        pairs |-> <<<<"t", IF tv THEN <<"tvsearch">> ELSE <<"search">>>>>>
            \o pair("q", q.q)
            \o pair("imdbid", IF q.imdb_id = None THEN None ELSE <<StripTtPrefix(q.imdb_id[1])>>)
            \o pair("season", q.season) \o pair("ep", q.episode)
            \o pair("cat", IF q.categories = <<>> THEN None
                           ELSE <<JoinWith([i \in DOMAIN q.categories |-> Decimal(q.categories[i])], <<",">>)>>)
            \o pair("apikey", apikey)]

\* ApiIndexer::search, with the answer it got.
ApiSearch(answer) ==
    IF answer.error \/ answer.status \notin 200..299 THEN [ok |-> FALSE] ELSE ParseFeed(answer.body)

----------------------------------------------------------------------------
(* What the two sides owe each other *)

\* Only an opaque guid follows a missing details page, a magnet is one, peers
\* do not run over, and what stands between tags has no blanks at its ends.
Renderable(release) ==
    /\ \A n \in {"details_url", "download_url", "magnet_url", "publish_date"} :
          release[n] /= None => release[n][1] /= <<>> /\ Trim(release[n][1]) = release[n][1]
    /\ Trim(release.title) = release.title
    /\ release.magnet_url /= None => IsMagnet(release.magnet_url[1])
    /\ release.download_url /= None /\ release.magnet_url = None => ~IsMagnet(release.download_url[1])
    /\ release.leechers /= None => release.seeders /= None /\ release.seeders[1] + release.leechers[1] <= MaxCount

\* An indexer that asks another instance's endpoint gets its releases as they
\* were, in their order, every one of them, whatever their titles hold.
FeedReadsBack(releases, title) ==
    (\A i \in DOMAIN releases : Renderable(releases[i])) =>
        ParseFeed(RenderResults(releases, title)) = [ok |-> TRUE, releases |-> releases]

\* The children of an item may come in any order, and the text of one in any
\* fragments: children is a sequence of events sequences, of which no two name
\* the same thing; canonical is the same set in some other order.
ItemIsUnordered(children, canonical) ==
    LET feed(item) == Inside("rss", Inside("channel", Inside("item", Glue(item))))
    IN ParseFeed(feed(children)) = ParseFeed(feed(canonical))

TextIsWhole(s, cut, unknown) ==
    LET split == Written(SubSeq(s, 1, cut)) \o <<CData(From(s, cut + 1))>>
        item(events) == Inside("item", Inside("title", events))
        parsed == ParseFeed(Inside("channel", item(split) \o item(<<Ref(unknown)>>) \o item(Written(s))))
    IN /\ parsed.ok /\ Len(parsed.releases) = 3
       /\ parsed.releases[1].title = Trim(s) /\ parsed.releases[3].title = Trim(s)

\* What caps advertise is what the definition maps.
CapsAdvertiseTheMapped(modes, map) == Caps!GroupsHoldTheMapped(RenderCaps(modes, map).categories, map)
=============================================================================
