--------------------------- MODULE PrototypeTheme ---------------------------
(***************************************************************************)
(* The contract of the themes whose elements name the field they show      *)
(* (themes/prototype_contract.py), with the section classes of Obsidian    *)
(* Signal.  A field is a path of names and places: the attribute           *)
(* data-field="connect.destinations[0].label" is here                      *)
(* <<"connect", "destinations", "01", "label">>.                           *)
(***************************************************************************)
EXTENDS ForestTheme

LOCAL INSTANCE SequencesExt

SignalChrome == {"Skip to content", "Practice", "Practice areas", "Capabilities", "About",
                 "Contact", "Portfolio", "01", "02", "03", "04", "out", "down-right",
                 "Selected focus", "Explore", "Back to top"}

SignalTags == {"a", "article", "aside", "div", "em", "footer", "h1", "h2", "h3", "header", "li",
               "main", "nav", "ol", "p", "section", "span", "strong", "ul"}

SignalAttributes(tag) ==
    {"id", "aria_hidden", "aria_label", "aria_labelledby", "role", "tabindex", "data_field",
     "data_step", "data_css_progress"}
    \cup (IF tag = "a" THEN {"href", "target", "rel"} ELSE {})

SignalSections == <<
    [id |-> "top", class |-> "sg-hero"], [id |-> "practice", class |-> "sg-work"],
    [id |-> "capabilities", class |-> "sg-process"], [id |-> "about", class |-> "sg-about"],
    [id |-> "contact", class |-> "sg-contact"]>>

SectionId == [systems_practice |-> "practice", technical_capabilities |-> "capabilities",
              professional_context |-> "about", connect |-> "contact"]

\* approved_text: the numbers up to 08 are among it.
SignalApproved(page) ==
    SignalChrome \cup Strings(page) \cup {Monogram(page.hero.name)}
    \cup {"05", "06", "07", "08"}

\* _expected_fields: each text that is not blank, where it has to be, and the
\* link it carries.
Field(path, text, section) == [path |-> path, text |-> text, section |-> section, url |-> None]

ExpectedFields(page) ==
    LET fields ==
            {Field(<<"hero", f>>, page.hero[f], "top") : f \in HeroText}
            \cup {Field(<<"marquee_keywords", Index[i]>>, page.marquee_keywords[i], "practice")
                  : i \in DOMAIN page.marquee_keywords}
            \cup {Field(<<key, f>>, page[key][f], SectionId[key])
                  : key \in Sections, f \in SectionText}
            \cup {Field(<<"systems_practice", "pillars", Index[i], f>>, Pillars(page)[i][f],
                        "practice") : i \in DOMAIN Pillars(page), f \in {"title", "description"}}
            \cup {Field(<<"technical_capabilities", "groups", Index[i], "heading">>,
                        Groups(page)[i].heading, "capabilities") : i \in DOMAIN Groups(page)}
            \cup UNION {{Field(<<"technical_capabilities", "groups", Index[i], "items", Index[j]>>,
                               Groups(page)[i].items[j], "capabilities")
                         : j \in DOMAIN Groups(page)[i].items} : i \in DOMAIN Groups(page)}
            \cup {Field(<<"professional_context", "organizations", Index[i]>>,
                        Organizations(page)[i], "about") : i \in DOMAIN Organizations(page)}
            \cup {[Field(<<"connect", "destinations", Index[i], "label">>,
                         Destinations(page)[i].label, "contact")
                   EXCEPT !.url = Destinations(page)[i].url] : i \in DOMAIN Destinations(page)}
    IN  {f \in fields : f.text # Blank}

Named(t) == SelectSeq(Nodes(t), LAMBDA n : IsElement(t, n) /\ Has(t, n, "data_field"))

\* The element, or one it lies in up to the section, is hidden; or there is no
\* such section around it.
OutsideOrHidden(t, n, section) ==
    LET around == (t[n].above \cup {n}) \ {0}
        inner == {a \in around : Attr(t, a, "id") = section}
    IN  \/ inner = {}
        \/ \E s \in inner :
              /\ \A r \in inner : r <= s
              /\ \E a \in around : a >= s /\ Attr(t, a, "aria_hidden") = "true"

\* Mutant: what is not there is not missed.
FoundFieldIssues(t, field) ==
    UNION {Unless(TextIn(t, n, FALSE) = <<field.text>>, "CONTENT_BINDING_VALUE") :
           n \in {m \in ToSet(Named(t)) : Attr(t, m, "data_field") = field.path}}

\* validate_body, the bindings: each field once, with its text, in its section.
FieldIssues(t, field) ==
    LET found == SelectSeq(Named(t), LAMBDA n : Attr(t, n, "data_field") = field.path)
        n == First(found)
    IN  IF Len(found) # 1 THEN {"CONTENT_BINDING_COUNT"}
        ELSE Unless(TextIn(t, n, FALSE) = <<field.text>>, "CONTENT_BINDING_VALUE")
             \cup Unless(~ OutsideOrHidden(t, n, field.section), "CONTENT_BINDING_SECTION")
             \cup Unless(field.url # None => Attr(t, n, "href") = field.url, "CONTENT_BINDING_URL")

\* validate_body: the sections with their classes and in their order, the
\* fields, and no field besides.
SignalIssues(t, page) ==
    LET Part(i) == First(WithId(t, 0, Wild, SignalSections[i].id))
        there == {i \in 1 .. 5 : Part(i) # 0}
        fields == ExpectedFields(page)
    IN  Unless(there = 1 .. 5, "THEME_SECTION_MISSING")
        \cup Unless(\A i \in there : SignalSections[i].class \in t[Part(i)].class,
                    "THEME_SECTION_CLASS")
        \cup Unless(\A i, j \in there : i < j => Part(i) <= Part(j), "THEME_SECTION_ORDER")
        \cup UNION {FieldIssues(t, field) : field \in fields}
        \cup Unless(\A n \in ToSet(Named(t)) :
                        \E field \in fields : field.path = Attr(t, n, "data_field"),
                    "CONTENT_BINDING_EXTRA")

=============================================================================
