------------------------------ MODULE MCStudio ------------------------------
(***************************************************************************)
(* A small portfolio, the changes asked of it, the visits of the browser,  *)
(* and the pages a model may write: for each theme the page of the theme's *)
(* exemplar, and the pages that differ from it in one place.               *)
(***************************************************************************)
EXTENDS Studio, StudioPages, TLC

LOCAL INSTANCE SequencesExt

-----------------------------------------------------------------------------
(* The content and the changes.                                             *)

MCLimit == [keywords |-> 2, groups |-> 1, items |-> 3, total |-> 3, organizations |-> 1,
            destinations |-> 2]

Copy(n) == [eyebrow |-> "eyebrow" \o n, heading |-> "heading" \o n, intro |-> "intro" \o n]

MCApprovedPage ==
    [hero |-> [name |-> "Ada", eyebrow_primary |-> "primary", eyebrow_secondary |-> "secondary",
               headline_prefix |-> "prefix", headline_emphasis |-> "emphasis", intro |-> "intro",
               location |-> "city", primary_cta_label |-> "work", secondary_cta_label |-> "talk"],
     metadata |-> [title |-> "title", description |-> "description"],
     marquee_keywords |-> <<"keyword">>,
     systems_practice |-> Copy("1") @@
        [pillars |-> <<[title |-> "pillar 1", description |-> "about 1"],
                       [title |-> "pillar 2", description |-> "about 2"]>>],
     technical_capabilities |-> Copy("2") @@
        [groups |-> <<[heading |-> "group", items |-> <<"item 1", "item 2">>]>>],
     professional_context |-> Copy("3") @@ [organizations |-> <<"employer">>],
     connect |-> Copy("4") @@
        [destinations |-> <<[label |-> "site", url |-> "https", featured |-> TRUE],
                            [label |-> "mail", url |-> "mailto", featured |-> FALSE]>>]]

Set(path, type, value) == [verb |-> "set", path |-> path, type |-> type, value |-> value]
Erase(path) == [verb |-> "remove", path |-> path]
Plan(ops) == [intent |-> "content_edit", privacy_sensitive |-> FALSE, ops |-> ops]

Hero(field) == <<Key("hero"), Key(field)>>
Link(n) == <<Key("connect"), At("destinations", n)>>

\* To hide a link, to hide a place and to move are done; a move to where the
\* page is already, a question and what the template cannot hold are answered.
MCPlans == <<
    [Plan(<<Erase(Link(2))>>) EXCEPT !.privacy_sensitive = TRUE],
    Plan(<<Set(Hero("location"), "text", "town"), Set(Hero("eyebrow_primary"), "text", Blank)>>),
    Plan(<<Set(Hero("location"), "text", "city")>>),
    Plan(<<Set(Hero("location"), "text", "town"), Erase(Link(3))>>),
    Plan(<<Set(Hero("name"), "text", Blank)>>),
    Plan(<<Set(Link(1) \o <<Key("url")>>, "text", "script")>>),
    Plan(<<Set(Hero("intro"), "text", "endless")>>),
    Plan(<<Set(Hero("intro"), "list", <<"list">>)>>),
    [intent |-> "question", privacy_sensitive |-> FALSE, ops |-> <<>>]>>

-----------------------------------------------------------------------------
(* The browser.                                                             *)

Face(fallback, status) == [family |-> "sans", fallback |-> fallback, status |-> status]

CleanView == [loads |-> TRUE, external |-> 0, failed |-> <<>>, console |-> "none",
              faces |-> {Face(FALSE, "loaded"), Face(TRUE, "error")}, images |-> TRUE,
              styled |-> TRUE, wide |-> FALSE]

Seen(view) == [start |-> "ok", views |-> {CleanView, view}]

MCVisits == <<
    Seen(CleanView), Seen([CleanView EXCEPT !.wide = TRUE]),
    Seen([CleanView EXCEPT !.loads = FALSE]),
    Seen([CleanView EXCEPT !.external = 1, !.failed = <<"foreign">>]),
    Seen([CleanView EXCEPT !.failed = <<"own">>]),
    Seen([CleanView EXCEPT !.console = "policy"]), Seen([CleanView EXCEPT !.console = "error"]),
    Seen([CleanView EXCEPT !.faces = {Face(FALSE, "error"), Face(TRUE, "loaded")}]),
    Seen([CleanView EXCEPT !.images = FALSE]), Seen([CleanView EXCEPT !.styled = FALSE]),
    [start |-> "absent", views |-> {}], [start |-> "timeout", views |-> {}]>>

-----------------------------------------------------------------------------
(* The exemplars, as tokens.                                                *)

Open_(tag, class, attrs) == [op |-> "open", tag |-> tag, class |-> class, attrs |-> attrs]
Close_(tag) == [op |-> "close", tag |-> tag]
Text(text) == IF text = Blank THEN <<>> ELSE <<[op |-> "text", text |-> <<text>>]>>

El(tag, class, attrs, inner) == <<Open_(tag, class, attrs)>> \o inner \o <<Close_(tag)>>
Bare(tag, text) == El(tag, {}, <<>>, Text(text))
Leaf(tag, class, text) == El(tag, {class}, <<>>, Text(text))
Glyph(class, text) == El("span", class, [aria_hidden |-> "true"], Text(text))
Block(class, inner) == El("div", {class}, <<>>, inner)
If(holds, tokens) == IF holds THEN tokens ELSE <<>>
Join(count, Part(_)) == FlattenSeq([i \in 1 .. count |-> Part(i)])

Refers(url) == IF url \in {"https"}
               THEN [href |-> url, target |-> "_blank", rel |-> "noopener noreferrer"]
               ELSE [href |-> url]

ForestHead(i, page) ==
    LET section == ForestSections[i]
        copy == page[section.key]
    IN  Leaf("p", "eyebrow", copy.eyebrow)
        \o El("h2", {}, [id |-> section.title], Text(copy.heading))

ForestSection(i, body) ==
    LET section == ForestSections[i]
    IN  El("section", {"scene", section.scene},
           [id |-> section.id, tabindex |-> "-1", aria_labelledby |-> section.title], body)

ForestNav(page) ==
    El("nav", {"site-nav"}, [aria_label |-> "Portfolio sections"],
       El("a", {"wordmark"}, [href |-> "#home"],
          Glyph({"wordmark__monogram"}, Monogram(page.hero.name))
          \o Leaf("span", "wordmark__name", page.hero.name))
       \o El("ul", {"site-nav__links"}, <<>>, Join(4, LAMBDA i :
             El("li", {}, <<>>, El("a", {}, [href |-> "#" \o ForestSections[i].id],
                Glyph({"site-nav__index"}, Index[i])
                \o Bare("span", page[ForestSections[i].key].eyebrow))))))

ForestHero(page) ==
    LET h == page.hero
    IN  El("header", {"hero"}, [id |-> "home", tabindex |-> "-1"],
           El("p", {"hero__eyebrow"}, <<>>,
              Text(h.eyebrow_primary) \o Glyph({}, "dot") \o Text(h.eyebrow_secondary))
           \o Bare("h1", h.name)
           \o El("p", {"hero__headline"}, <<>>,
                 Text(h.headline_prefix) \o Bare("em", h.headline_emphasis))
           \o Leaf("p", "hero__intro", h.intro)
           \o El("p", {"hero__location"}, <<>>,
                 Leaf("span", "eyebrow", "Location") \o Bare("span", h.location))
           \o El("a", {"button--primary"}, [href |-> "#systems-practice"],
                 Leaf("span", "button__label", h.primary_cta_label) \o Glyph({}, "down"))
           \o El("a", {"text-link"}, [href |-> "#connect"],
                 Text(h.secondary_cta_label) \o Glyph({}, "out"))
           \o El("figure", {"hero__visual"}, [aria_hidden |-> "true"],
                 <<Open_("img", {}, [src |-> HeroAsset, alt |-> Blank])>>
                 \o Glyph({"hero__badge"}, Monogram(h.name))))

ForestMarquee(page) ==
    LET keywords == Keywords(page)
        Item(i) == Bare("li", keywords[((i - 1) % Len(keywords)) + 1])
        List == El("ul", {"marquee__list"}, <<>>, Join(MarqueeItems(page), Item))
    IN  El("div", {"marquee"}, [aria_hidden |-> "true"], Block("marquee__track", List \o List))

ForestSystems(page) ==
    Block("section-heading", ForestHead(1, page)
          \o Leaf("p", "section-heading__intro", page.systems_practice.intro))
    \o El("ul", {"pillar-grid"}, <<>>, Join(PillarCount, LAMBDA i :
          El("li", {"pillar"}, [data_index |-> Index[i]],
             Glyph({"pillar__index"}, Index[i]) \o Bare("h3", Pillars(page)[i].title)
             \o Bare("p", Pillars(page)[i].description))))

ForestCapabilities(page) ==
    Block("section-heading", ForestHead(2, page)
          \o Leaf("p", "section-heading__intro", page.technical_capabilities.intro))
    \o Block("inventory-grid", Join(Len(Groups(page)), LAMBDA i :
          El("details", {"capability-group"}, IF IsOpen(page, i) THEN [open |-> Blank] ELSE <<>>,
             El("summary", {}, <<>>, El("span", {"capability-group__heading"}, <<>>,
                Glyph({"capability-group__index"}, Index[i])
                \o Bare("span", Groups(page)[i].heading)))
             \o El("ul", {"capability-list"}, <<>>,
                   Join(Len(Groups(page)[i].items), LAMBDA j :
                        Bare("li", Groups(page)[i].items[j]))))))

ForestContext(page) ==
    Block("section-heading", ForestHead(3, page))
    \o Block("context-content", Bare("p", page.professional_context.intro)
          \o El("ul", {"organization-list"}, <<>>, Join(Len(Organizations(page)), LAMBDA i :
                Bare("li", Organizations(page)[i]))))

ForestConnect(page) ==
    Block("connect-copy", ForestHead(4, page) \o Bare("p", page.connect.intro))
    \o El("ul", {"destination-list"}, <<>>, Join(Len(Destinations(page)), LAMBDA i :
          LET d == Destinations(page)[i]
          IN  El("li", IF d.featured THEN {"destination-list__featured"} ELSE {}, <<>>,
                 El("a", {}, Refers(d.url), Bare("span", d.label) \o Glyph({}, "out")))))

ForestBody(page) ==
    El("a", {"skip-link"}, [href |-> "#home"], Text("Skip to main content"))
    \o El("div", {"grain"}, [aria_hidden |-> "true"], <<>>)
    \o ForestNav(page)
    \o El("main", {}, <<>>, ForestHero(page) \o ForestMarquee(page)
          \o ForestSection(1, ForestSystems(page)) \o ForestSection(2, ForestCapabilities(page))
          \o ForestSection(3, ForestContext(page)) \o ForestSection(4, ForestConnect(page)))
    \o El("footer", {"site-footer"}, <<>>, Block("site-footer__inner",
          El("p", {}, <<>>, Text(page.hero.name) \o Glyph({}, "dot") \o Text(page.hero.location))
          \o El("a", {}, [href |-> "#home"], Text("Back to top") \o Glyph({}, "up"))))

\* An element that names its field, if there is a text to show.
Shows(tag, path, text) ==
    If(text # Blank, El(tag, {}, [data_field |-> path], Text(text)))
Shown3(key, page) == Shows("p", <<key, "eyebrow">>, page[key].eyebrow)
                     \o Shows("h2", <<key, "heading">>, page[key].heading)
                     \o Shows("p", <<key, "intro">>, page[key].intro)
SignalSection(i, body) ==
    El("section", {SignalSections[i].class}, [id |-> SignalSections[i].id], body)

SignalHero(page) ==
    LET Field_(tag, f) == Shows(tag, <<"hero", f>>, page.hero[f])
    IN  SignalSection(1, Field_("p", "eyebrow_primary") \o Field_("p", "eyebrow_secondary")
           \o Field_("h1", "name") \o Field_("span", "headline_prefix")
           \o Field_("em", "headline_emphasis") \o Field_("p", "intro") \o Field_("p", "location")
           \o El("a", {"sg-button"}, [href |-> "#practice"],
                 Field_("span", "primary_cta_label") \o Glyph({}, "down-right"))
           \o El("a", {}, [href |-> "#contact", data_field |-> <<"hero", "secondary_cta_label">>],
                 Text(page.hero.secondary_cta_label)))

SignalPractice(page) ==
    LET key == "systems_practice"
        pillars == Pillars(page)
    IN  SignalSection(2,
           El("ul", {}, <<>>, Join(Len(page.marquee_keywords), LAMBDA i :
              Shows("li", <<"marquee_keywords", Index[i]>>, page.marquee_keywords[i])))
           \o Shown3(key, page)
           \o Join(PillarCount, LAMBDA i : El("article", {}, <<>>,
                Shows("h3", <<key, "pillars", Index[i], "title">>, pillars[i].title)
                \o Shows("p", <<key, "pillars", Index[i], "description">>,
                         pillars[i].description))))

SignalCapabilities(page) ==
    LET path == <<"technical_capabilities", "groups">>
        groups == Groups(page)
    IN  SignalSection(3, Shown3(path[1], page) \o Join(Len(groups), LAMBDA i :
           Glyph({}, Index[i]) \o Shows("h3", path \o <<Index[i], "heading">>, groups[i].heading)
           \o Join(Len(groups[i].items), LAMBDA j :
                Shows("li", path \o <<Index[i], "items", Index[j]>>, groups[i].items[j]))))

SignalAbout(page) ==
    SignalSection(4, Shown3("professional_context", page)
        \o Join(Len(Organizations(page)), LAMBDA i :
             Shows("li", <<"professional_context", "organizations", Index[i]>>,
                   Organizations(page)[i])))

SignalContact(page) ==
    SignalSection(5, Shown3("connect", page) \o Join(Len(Destinations(page)), LAMBDA i :
        El("a", {"sg-button"},
           Refers(Destinations(page)[i].url)
              @@ [data_field |-> <<"connect", "destinations", Index[i], "label">>],
           Text(Destinations(page)[i].label))))

SignalBody(page) ==
    El("nav", {}, [aria_label |-> "Portfolio"],
       El("a", {}, [href |-> "#top"], Glyph({}, Monogram(page.hero.name))))
    \o El("main", {}, [id |-> "main"],
          SignalHero(page) \o SignalPractice(page) \o SignalCapabilities(page)
          \o SignalAbout(page) \o SignalContact(page))
    \o El("footer", {}, <<>>, El("a", {}, [href |-> "#top"], Text("Back to top")))

Body(theme, page) == IF theme = "forest" THEN ForestBody(page) ELSE SignalBody(page)

Ids == {"home"} \cup {ForestSections[i].id : i \in 1 .. 4}
       \cup {SignalSections[i].id : i \in 1 .. 5}
MCAnchors == [href \in {"#" \o id : id \in Ids} |-> CHOOSE id \in Ids : href = "#" \o id]

MCMonogram(name) == IF name = "Ada" THEN "A" ELSE "?"

-----------------------------------------------------------------------------
(* What a model may answer.                                                 *)

Answer(tokens) == [kind |-> "page", large |-> FALSE, markup |-> TRUE, document |-> FALSE,
                   tokens |-> tokens]

\* The tokens with those from i to j replaced.
Spliced(tokens, i, j, other) ==
    SubSeq(tokens, 1, i - 1) \o other \o SubSeq(tokens, j + 1, Len(tokens))

\* Where the element that is opened at i is closed.
Height(tokens, i, j) ==
    Cardinality({k \in i .. j : tokens[k].op = "open" /\ tokens[k].tag \notin Void})
    - Cardinality({k \in i .. j : tokens[k].op = "close"})
CloseOf(tokens, i) ==
    CHOOSE j \in i .. Len(tokens) :
        Height(tokens, i, j) = 0 /\ \A k \in i .. j - 1 : Height(tokens, i, k) > 0

\* Each text left out, made up, exchanged with the next or in another's place.
TextSlips(tokens) ==
    LET at == SelectSeq([i \in DOMAIN tokens |-> i], LAMBDA i : tokens[i].op = "text")
        Slip(i, other) == Answer(Spliced(tokens, i, i, other))
    IN  Join(Len(at), LAMBDA k :
             <<Slip(at[k], <<>>), Slip(at[k], Text("made up")), Slip(at[k], Text("title"))>>
             \o IF k = Len(at) THEN <<>>
                ELSE <<Answer([tokens EXCEPT ![at[k]] = tokens[at[k + 1]],
                                             ![at[k + 1]] = tokens[at[k]]])>>)

\* Of each element one in turn: left out, written twice, without its
\* attributes or its classes, hidden, or never closed.
ElementSlips(tokens) ==
    LET at == SelectSeq([i \in DOMAIN tokens |-> i], LAMBDA i : tokens[i].op = "open")
        Slip(k) ==
            LET i == at[k]
                j == CloseOf(tokens, i)
            IN  CASE k % 6 = 0 -> Spliced(tokens, i, j, <<>>)
                  [] k % 6 = 1 -> Spliced(tokens, j, j, <<tokens[j]>> \o SubSeq(tokens, i, j))
                  [] k % 6 = 2 -> [tokens EXCEPT ![i].attrs = <<>>]
                  [] k % 6 = 3 -> [tokens EXCEPT ![i].class = {}]
                  [] k % 6 = 4 -> [tokens EXCEPT ![i].attrs = [aria_hidden |-> "true"] @@ @]
                  [] k % 6 = 5 -> Spliced(tokens, j, j, <<>>)
    IN  [k \in DOMAIN at |-> Answer(Slip(k))]

\* What no page may have, or may at most be warned of, before its last token.
Extras == <<
    Bare("p", "made up"), Bare("script", "made up"), Bare("p", "city"), Text("city"),
    El("p", {}, [onclick |-> "call"], <<>>), El("p", {}, [data_note |-> "made up"], <<>>),
    El("p", {"unheard"}, <<>>, <<>>), El("p", {}, [id |-> "home"], <<>>),
    El("a", {}, [href |-> "elsewhere"], <<>>), El("a", {}, [href |-> "#connect"], <<>>),
    El("p", {}, [aria_label |-> "made up"], <<>>),
    <<Open_("img", {}, [src |-> "elsewhere"])>>, <<[Open_("p", {}, <<>>) EXCEPT !.op = "repeat"]>>,
    <<[Open_("p", {}, <<>>) EXCEPT !.op = "selfclose"]>>, <<Close_("img")>>, <<Close_("p")>>,
    <<[op |-> "comment"]>>, <<[op |-> "decl"]>>>>

MCReplies(theme, page) ==
    LET tokens == Body(theme, page)
        good == Answer(tokens)
    IN  <<good, [kind |-> "error"], [good EXCEPT !.large = TRUE], [good EXCEPT !.markup = FALSE],
          [good EXCEPT !.document = TRUE]>>
        \o [k \in DOMAIN Extras |->
              Answer(Spliced(tokens, Len(tokens), Len(tokens) - 1, Extras[k]))]
        \o [k \in DOMAIN Extras |-> Answer(tokens \o Extras[k])]
        \o TextSlips(tokens) \o ElementSlips(tokens)

-----------------------------------------------------------------------------
(* What Studio makes of all this.                                           *)

MCBuildable == ApprovedFits
MCLeaves == DraftLeaves
MCChanges == DraftChanges
MCPages(theme, content) == DraftPages[theme][content]
MCPromises(theme, content) == DraftPromises[theme][content]
MCPermits(theme, content) == DraftPermits[theme][content]
MCSights == BrowserSights

=============================================================================
