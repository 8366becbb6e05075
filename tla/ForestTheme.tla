---------------------------- MODULE ForestTheme ----------------------------
(***************************************************************************)
(* The markup contract of the Editorial Forest theme                       *)
(* (themes/editorial_forest/v1/contract.py): which texts, links and tags a *)
(* page body may have, and which text of the content belongs to which of   *)
(* its elements.  A finding is its code.                                   *)
(***************************************************************************)
EXTENDS PageContent, Markup

LOCAL INSTANCE SequencesExt

CONSTANTS
    Monogram(_),    \* monogram: the initials of a name
    MarqueeMin,     \* MARQUEE_MIN_KEYWORDS
    MarqueeTarget,  \* MARQUEE_TARGET_ITEMS
    OpenUpTo,       \* OPEN_ALL_GROUPS_UP_TO_ITEMS
    WebUrls         \* the http(s) links: they open a new tab

ForestChrome == {"Skip to main content", "Portfolio sections", "Location", "Scroll",
                 "Back to top", "dot", "down", "out", "up"}

ForestSections == <<
    [key |-> "systems_practice", id |-> "systems-practice", title |-> "systems-title",
     scene |-> "scene--systems", top |-> "section-heading"],
    [key |-> "technical_capabilities", id |-> "technical-capabilities",
     title |-> "capabilities-title", scene |-> "scene--capabilities", top |-> "section-heading"],
    [key |-> "professional_context", id |-> "professional-context", title |-> "context-title",
     scene |-> "scene--context", top |-> "section-heading"],
    [key |-> "connect", id |-> "connect", title |-> "connect-title",
     scene |-> "scene--connect", top |-> "connect-copy"]>>

ForestTags == {"a", "div", "span", "p", "h1", "h2", "h3", "ul", "li", "nav", "main", "header",
               "footer", "section", "figure", "img", "em", "details", "summary"}

ForestAttributes(tag) ==
    {"id", "tabindex", "aria_hidden", "aria_label", "aria_labelledby", "role", "data_index"}
    \cup (CASE tag = "a" -> {"href", "target", "rel"}
            [] tag = "img" -> {"src", "width", "height", "alt", "decoding", "fetchpriority",
                               "loading"}
            [] tag = "details" -> {"open"}
            [] OTHER -> {})

HeroAsset == "hero-visual.svg"

-----------------------------------------------------------------------------
(* What the host derives from the content.                                  *)

Index == <<"01", "02", "03", "04">>

\* _marquee: no ticker for too few keywords, and repeated until it is long.
Keywords(page) == Filled(page.marquee_keywords)
HasMarquee(page) == Len(Keywords(page)) >= MarqueeMin
MarqueeItems(page) ==
    LET n == Len(Keywords(page))
    IN  IF n >= MarqueeTarget THEN n ELSE n * ((MarqueeTarget + n - 1) \div n)

\* A group is open when the page has few items, and the first is always.
IsOpen(page, i) ==
    FoldLeft(LAMBDA n, g : n + Len(Filled(g.items)), 0, Groups(page)) <= OpenUpTo \/ i = 1

\* approved_text
ForestApproved(page) ==
    ForestChrome \cup Strings(page) \cup {Monogram(page.hero.name)} \cup {Index[i] : i \in 1 .. 4}
    \cup {Index[i] : i \in DOMAIN Pillars(page)} \cup {Index[i] : i \in DOMAIN Groups(page)}

-----------------------------------------------------------------------------
(* The findings of one comparison.                                          *)

Unless(holds, code) == IF holds THEN {} ELSE {code}

Words(text) == IF text = Blank THEN <<>> ELSE <<text>>

\* expect_text, of all of the element's text or of what is not hidden in it.
ExpectText(t, n, words) ==
    IF n = 0 THEN {"COPY_MISSING"} ELSE Unless(TextIn(t, n, FALSE) = words, "COPY_MISMATCH")
ExpectVisible(t, n, words) ==
    IF n = 0 THEN {"COPY_MISSING"} ELSE Unless(TextIn(t, n, TRUE) = words, "COPY_MISMATCH")

\* expect_absent: a warning.
ExpectAbsent(found) == Unless(found = <<>>, "COPY_UNEXPECTED")

\* Mutant: what is there is compared, the rest is not missed.
ExpectOnly(t, found, texts) ==
    UNION {ExpectText(t, found[i], Words(texts[i])) : i \in DOMAIN found \cap DOMAIN texts}

\* expect_list
ExpectList(t, found, texts) ==
    IF Len(found) # Len(texts) THEN {"COPY_COUNT_MISMATCH"}
    ELSE UNION {ExpectText(t, found[i], Words(texts[i])) : i \in DOMAIN texts}

\* one
One(found) ==
    Unless(found # <<>>, "STRUCTURE_MISSING") \cup Unless(Len(found) <= 1, "STRUCTURE_COUNT")

ExpectHref(t, n, url) == Unless(Attr(t, n, "href") = url, "LINK_HREF_MISMATCH")

\* Copy that may be blank: then its element should be left out.
IfAny(words, found, issues) == IF words = <<>> THEN ExpectAbsent(found) ELSE issues

-----------------------------------------------------------------------------
(* The regions of the page.                                                 *)

BodyFrame == <<
    [tag |-> "a", class |-> "skip-link", required |-> FALSE],
    [tag |-> "div", class |-> "reading-progress", required |-> FALSE],
    [tag |-> "div", class |-> "grain", required |-> FALSE],
    [tag |-> "nav", class |-> "site-nav", required |-> TRUE],
    [tag |-> "main", class |-> Wild, required |-> TRUE],
    [tag |-> "footer", class |-> "site-footer", required |-> TRUE]>>

\* check_top_level: the parts of the body in their order, each at most once.
FrameIssues(t) ==
    LET tops == SelectSeq(Nodes(t), LAMBDA n : t[n].parent = 0 /\ IsElement(t, n))
        Fit(n, k) == Is(t, n, BodyFrame[k].tag, BodyFrame[k].class)
        walk[i \in 0 .. Len(tops)] ==
            IF i = 0 THEN [next |-> 1, issues |-> {}]
            ELSE LET before == walk[i - 1]
                     fit == {j \in before.next .. Len(BodyFrame) : Fit(tops[i], j)}
                     k == CHOOSE k \in fit : \A j \in fit : k <= j
                 IN  IF fit = {}
                     THEN [before EXCEPT !.issues = @ \cup {"STRUCTURE_UNEXPECTED"}]
                     ELSE [next |-> k + 1,
                           issues |-> before.issues \cup
                              Unless(\A j \in before.next .. k - 1 : ~ BodyFrame[j].required,
                                     "STRUCTURE_ORDER")]
        end == walk[Len(tops)]
        left == {k \in end.next .. Len(BodyFrame) : BodyFrame[k].required}
        skip == First(All(t, 0, "a", "skip-link"))
    IN  Unless(\A n \in DOMAIN t : t[n].parent = 0 => IsElement(t, n), "TEXT_OUTSIDE_STRUCTURE")
        \cup end.issues
        \cup Unless(\A k \in left : All(t, 0, BodyFrame[k].tag, BodyFrame[k].class) # <<>>,
                    "STRUCTURE_MISSING")
        \cup IF skip = 0 THEN {}
             ELSE ExpectText(t, skip, <<"Skip to main content">>) \cup ExpectHref(t, skip, "#home")

\* check_nav
NavIssues(t, nav, page) ==
    LET wordmark == First(All(t, nav, "a", "wordmark"))
        items == Under(t, "ul", "site-nav__links", All(t, nav, "li", Wild))
        Item(i) ==
            LET link == First(All(t, items[i], "a", Wild))
                spans == Under(t, "a", Wild, All(t, link, "span", Wild))
                section == ForestSections[i]
            IN  IF link = 0 THEN {"STRUCTURE_MISSING"}
                ELSE ExpectHref(t, link, "#" \o section.id)
                     \cup ExpectText(t, First(All(t, link, "span", "site-nav__index")),
                                     <<Index[i]>>)
                     \cup ExpectText(t, First(Nth(t, 2, spans)), Words(page[section.key].eyebrow))
    IN  Unless(Attr(t, nav, "aria_label") = "Portfolio sections", "ARIA_LABEL_MISMATCH")
        \cup One(All(t, nav, "a", "wordmark"))
        \cup (IF wordmark = 0 THEN {}
              ELSE ExpectHref(t, wordmark, "#home")
                   \cup ExpectText(t, First(All(t, wordmark, "span", "wordmark__monogram")),
                                   <<Monogram(page.hero.name)>>)
                   \cup ExpectText(t, First(All(t, wordmark, "span", "wordmark__name")),
                                   Words(page.hero.name)))
        \cup IF Len(items) = 4 THEN UNION {Item(i) : i \in 1 .. 4} ELSE {"COPY_COUNT_MISMATCH"}

\* check_hero, the copy: name, eyebrow, headline with its emphasis, intro.
HeroCopyIssues(t, hero, page) ==
    LET h == page.hero
        eyebrow == All(t, hero, "p", "hero__eyebrow")
        headline == First(All(t, hero, "p", "hero__headline"))
        emphasis == All(t, headline, "em", Wild)
        eyebrowText == Words(h.eyebrow_primary) \o Words(h.eyebrow_secondary)
        headlineText == Words(h.headline_prefix) \o Words(h.headline_emphasis)
        EmphasisIssues ==
            CASE h.headline_emphasis = Blank -> ExpectAbsent(emphasis)
              [] h.headline_emphasis # Blank ->
                    IF Len(emphasis) # 1 THEN {"COPY_MISMATCH"}
                    ELSE ExpectText(t, emphasis[1], Words(h.headline_emphasis))
    IN  Unless(Attr(t, hero, "id") = "home", "ID_MISMATCH")
        \cup One(All(t, hero, "h1", Wild))
        \cup ExpectText(t, First(All(t, hero, "h1", Wild)), Words(h.name))
        \cup IfAny(eyebrowText, eyebrow, ExpectVisible(t, First(eyebrow), eyebrowText))
        \cup (IF headlineText = <<>> THEN {}
              ELSE ExpectText(t, headline, headlineText)
                   \cup IF headline = 0 THEN {} ELSE EmphasisIssues)
        \cup ExpectText(t, First(All(t, hero, "p", "hero__intro")), Words(h.intro))

\* check_hero, what may be left out: the place and the two calls to action.
HeroOptionalIssues(t, hero, page) ==
    LET h == page.hero
        place == All(t, hero, "p", "hero__location")
        spans == All(t, First(place), "span", Wild)
        button == All(t, hero, "a", "button--primary")
        link == All(t, hero, "a", "text-link")
    IN  IfAny(Words(h.location), place,
              IF place = <<>> THEN {"COPY_MISSING"}
              ELSE ExpectText(t, First(Nth(t, 1, spans)), <<"Location">>)
                   \cup ExpectText(t, First(Nth(t, 2, spans)), Words(h.location)))
        \cup IfAny(Words(h.primary_cta_label), button,
              IF button = <<>> THEN {"COPY_MISSING"}
              ELSE ExpectText(t, First(All(t, button[1], "span", "button__label")),
                              Words(h.primary_cta_label))
                   \cup ExpectHref(t, button[1], "#systems-practice"))
        \cup IfAny(Words(h.secondary_cta_label), link,
              IF link = <<>> THEN {"COPY_MISSING"}
              ELSE ExpectVisible(t, link[1], Words(h.secondary_cta_label))
                   \cup ExpectHref(t, link[1], "#connect"))

\* check_hero, the picture and the badge on it.
HeroVisualIssues(t, hero, page) ==
    LET figure == First(All(t, hero, "figure", "hero__visual"))
        image == First(All(t, figure, "img", Wild))
    IN  IF figure = 0 THEN {"STRUCTURE_MISSING"}
        ELSE (IF image = 0 \/ Attr(t, image, "src") # HeroAsset THEN {"ASSET_MISMATCH"}
              ELSE Unless(Attr(t, image, "alt") = Blank, "ALT_NOT_EMPTY"))
             \cup ExpectText(t, First(All(t, figure, "span", "hero__badge")),
                             <<Monogram(page.hero.name)>>)

\* check_marquee: two equal lists of the keywords, in order and repeated as a whole.
MarqueeIssues(t, main, page) ==
    LET marquee == Under(t, "main", Wild, All(t, main, "div", "marquee"))
        lists == Under(t, "div", "marquee__track", All(t, First(marquee), "ul", "marquee__list"))
        keywords == Keywords(page)
        texts == [k \in DOMAIN lists |->
                    LET items == All(t, lists[k], "li", Wild)
                    IN  [i \in DOMAIN items |-> TextIn(t, items[i], FALSE)]]
        Whole(found) ==
            /\ Len(found) >= Len(keywords) /\ (Len(found) % Len(keywords)) = 0
            /\ \A i \in DOMAIN found : found[i] = <<keywords[((i - 1) % Len(keywords)) + 1]>>
        ListIssues(found) ==
            IF ~ Whole(found) THEN {"COPY_MISMATCH"}
            ELSE Unless(Len(found) >= MarqueeItems(page), "MARQUEE_NARROW")
    IN  IF ~ HasMarquee(page) THEN ExpectAbsent(marquee)
        ELSE IF marquee = <<>> THEN {"STRUCTURE_MISSING"}
        ELSE Unless(Attr(t, marquee[1], "aria_hidden") = "true", "ARIA_HIDDEN_MISSING")
             \cup IF Len(lists) # 2 THEN {"STRUCTURE_COUNT"}
                  ELSE Unless(texts[1] = texts[2], "COPY_MISMATCH")
                       \cup ListIssues(texts[1]) \cup ListIssues(texts[2])

\* check_section_frame: its classes, label, heading and eyebrow.
SectionIssues(t, node, section, page) ==
    LET heading == All(t, node, "h2", Wild)
        eyebrow == Nth(t, 1, Under(t, "div", section.top, All(t, node, "p", "eyebrow")))
        copy == page[section.key]
    IN  Unless({"scene", section.scene} \subseteq t[node].class, "CLASS_REQUIRED")
        \cup Unless(Attr(t, node, "aria_labelledby") = section.title, "ARIA_LABEL_MISMATCH")
        \cup (IF Len(heading) # 1 THEN {"STRUCTURE_COUNT"}
              ELSE Unless(Attr(t, heading[1], "id") = section.title, "ID_MISMATCH")
                   \cup ExpectText(t, heading[1], Words(copy.heading)))
        \cup ExpectText(t, First(eyebrow), Words(copy.eyebrow))

\* _intro
IntroIssues(t, found, intro) ==
    IfAny(Words(intro), found, ExpectText(t, First(found), Words(intro)))
HeadingIntro(t, node) ==
    Under(t, "div", "section-heading", All(t, node, "p", "section-heading__intro"))

\* check_systems: the pillars, as many and in the order of the content.
SystemsIssues(t, node, page) ==
    LET items == Under(t, "ul", "pillar-grid", All(t, node, "li", "pillar"))
        pillars == Pillars(page)
        Item(i) ==
            Unless(Attr(t, items[i], "data_index") = Index[i], "ATTRIBUTE_MISMATCH")
            \cup ExpectText(t, First(All(t, items[i], "span", "pillar__index")), <<Index[i]>>)
            \cup ExpectText(t, First(All(t, items[i], "h3", Wild)), Words(pillars[i].title))
            \cup ExpectText(t, First(All(t, items[i], "p", Wild)), Words(pillars[i].description))
    IN  IntroIssues(t, HeadingIntro(t, node), page.systems_practice.intro)
        \cup IF Len(items) # Len(pillars) THEN {"COPY_COUNT_MISMATCH"}
             ELSE UNION {Item(i) : i \in DOMAIN items}

\* check_capabilities: the groups with their items.
CapabilitiesIssues(t, node, page) ==
    LET found == Under(t, "div", "inventory-grid", All(t, node, "details", "capability-group"))
        groups == Groups(page)
        Item(i) ==
            LET heading == Under(t, "span", "capability-group__heading",
                                 All(t, found[i], "span", Wild))
                items == Under(t, "ul", "capability-list", All(t, found[i], "li", Wild))
            IN  ExpectText(t, First(Nth(t, 2, heading)), Words(groups[i].heading))
                \cup ExpectText(t, First(All(t, found[i], "span", "capability-group__index")),
                                <<Index[i]>>)
                \cup ExpectList(t, items, Filled(groups[i].items))
                \cup Unless(Has(t, found[i], "open") = IsOpen(page, i), "ATTRIBUTE_MISMATCH")
    IN  IntroIssues(t, HeadingIntro(t, node), page.technical_capabilities.intro)
        \cup IF Len(found) # Len(groups) THEN {"COPY_COUNT_MISMATCH"}
             ELSE UNION {Item(i) : i \in DOMAIN found}

\* check_context
ContextIssues(t, node, page) ==
    LET lists == Under(t, "div", "context-content", All(t, node, "ul", "organization-list"))
        names == Filled(Organizations(page))
    IN  IntroIssues(t, Under(t, "div", "context-content", All(t, node, "p", Wild)),
                    page.professional_context.intro)
        \cup IfAny(names, lists, IF lists = <<>> THEN {"COPY_MISSING"}
                                ELSE ExpectList(t, All(t, lists[1], "li", Wild), names))

\* check_connect: the intro is the second paragraph, and each link has its
\* target, its label and its mark, and opens a tab of its own.
ConnectIssues(t, node, page) ==
    LET paragraphs == Under(t, "div", "connect-copy", All(t, node, "p", Wild))
        behind == IF paragraphs = <<>> THEN <<>> ELSE Tail(paragraphs)
        lists == All(t, node, "ul", "destination-list")
        items == Under(t, "ul", "destination-list", All(t, First(lists), "li", Wild))
        links == Destinations(page)
        Item(i) ==
            LET link == First(All(t, items[i], "a", Wild))
                spans == Under(t, "a", Wild, All(t, link, "span", Wild))
            IN  IF link = 0 THEN {"STRUCTURE_MISSING"}
                ELSE ExpectHref(t, link, links[i].url)
                     \cup ExpectText(t, First(Nth(t, 1, spans)), Words(links[i].label))
                     \cup Unless(("destination-list__featured" \in t[items[i]].class)
                                   = links[i].featured, "COPY_MISMATCH")
                     \cup Unless(links[i].url \in WebUrls =>
                                   /\ Attr(t, link, "target") = "_blank"
                                   /\ Attr(t, link, "rel") = "noopener noreferrer",
                                 "LINK_NEW_TAB_REQUIRED")
    IN  IntroIssues(t, behind, page.connect.intro)
        \cup IfAny(links, lists,
              IF lists = <<>> THEN {"COPY_MISSING"}
              ELSE IF Len(items) # Len(links) THEN {"COPY_COUNT_MISMATCH"}
              ELSE UNION {Item(i) : i \in DOMAIN items})

\* check_footer
FooterIssues(t, footer, page) ==
    LET text == First(Under(t, Wild, "site-footer__inner", All(t, footer, "p", Wild)))
        back == First(SelectSeq(All(t, footer, "a", Wild), LAMBDA n : Attr(t, n, "href") = "#home"))
    IN  ExpectVisible(t, text, Words(page.hero.name) \o Words(page.hero.location))
        \cup IF back = 0 THEN {"STRUCTURE_MISSING"} ELSE ExpectVisible(t, back, <<"Back to top">>)

\* run: every region that is there is held against its copy.
ForestIssues(t, page) ==
    LET nav == First(All(t, 0, "nav", "site-nav"))
        main == First(All(t, 0, "main", Wild))
        footer == First(All(t, 0, "footer", "site-footer"))
        heroes == All(t, main, "header", "hero")
        hero == First(heroes)
        Part(i) == WithId(t, main, "section", ForestSections[i].id)
        Region(i, issues) == IF Part(i) = <<>> THEN {} ELSE issues
    IN  FrameIssues(t)
        \cup (IF nav = 0 THEN {} ELSE NavIssues(t, nav, page))
        \cup IF main = 0 THEN {}
             ELSE One(heroes)
                  \cup (IF hero = 0 THEN {}
                        ELSE HeroCopyIssues(t, hero, page) \cup HeroOptionalIssues(t, hero, page)
                             \cup HeroVisualIssues(t, hero, page))
                  \cup MarqueeIssues(t, main, page)
                  \cup UNION {One(Part(i)) \cup
                                Region(i, SectionIssues(t, First(Part(i)), ForestSections[i], page))
                              : i \in 1 .. 4}
                  \cup Region(1, SystemsIssues(t, First(Part(1)), page))
                  \cup Region(2, CapabilitiesIssues(t, First(Part(2)), page))
                  \cup Region(3, ContextIssues(t, First(Part(3)), page))
                  \cup Region(4, ConnectIssues(t, First(Part(4)), page))
                  \cup (IF footer = 0 THEN {} ELSE FooterIssues(t, footer, page))

=============================================================================
