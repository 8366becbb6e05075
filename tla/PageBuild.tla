----------------------------- MODULE PageBuild -----------------------------
(***************************************************************************)
(* What the page builder makes of one reply of the model: the checks of the*)
(* body (agents/code_generator/validate.py), the browser that opens the    *)
(* sealed page (verify_browser.py), and the line from the reply to the page*)
(* or the failure (agent.py, pipeline.py).                                 *)
(***************************************************************************)
EXTENDS PrototypeTheme

LOCAL INSTANCE SequencesExt

CONSTANTS
    Classes,      \* the classes of the theme stylesheets
    Anchors,      \* the links within a page, each by the id it names
    MaxFindings,  \* _MAX_FINDINGS_PER_KIND
    Replies(_, _) \* the replies a model may give: theme and content to a sequence

Themes == {"forest", "signal"}

Tags == [forest |-> ForestTags, signal |-> SignalTags]
Attributes == [forest |-> [tag \in ForestTags |-> ForestAttributes(tag)],
               signal |-> [tag \in SignalTags |-> SignalAttributes(tag)]]
Assets(theme) == IF theme = "forest" THEN {HeroAsset} ELSE {}
ApprovedText(theme, page) ==
    (IF theme = "forest" THEN ForestApproved(page) ELSE SignalApproved(page)) \ {Blank}
Contract(theme, t, page) ==
    IF theme = "forest" THEN ForestIssues(t, page) ELSE SignalIssues(t, page)

ForbiddenAttributes ==
    {"style", "srcdoc", "srcset", "action", "formaction", "data", "poster", "content", "value",
     "placeholder", "title", "download", "ping", "integrity", "onclick"}

-----------------------------------------------------------------------------
(* Validation.  An issue is its code; these codes are only warnings.        *)

Warnings == {"COPY_UNEXPECTED", "ATTRIBUTE_UNKNOWN", "ARIA_LABEL_MISMATCH", "COMMENT_PRESENT",
             "ATTRIBUTE_MISMATCH", "ARIA_HIDDEN_MISSING", "ALT_NOT_EMPTY", "MARQUEE_NARROW"}

\* _check_elements: an element whose tag the theme has not is looked at no
\* further.
ThemeElements(t, theme) == {n \in Elements(t) : t[n].tag \in Tags[theme]}

\* _check_elements, the link of an element.
LinkIssues(t, n, theme, page) ==
    LET href == Attr(t, n, "href")
        ids == {Attr(t, m, "id") : m \in ThemeElements(t, theme)}
    IN  Unless(Attr(t, n, "target") \in {None, "_blank"}, "ATTRIBUTE_UNKNOWN")
        \cup IF href \in DOMAIN Anchors THEN Unless(Anchors[href] \in ids, "ANCHOR_UNRESOLVED")
             ELSE Unless(href \in Urls(page), "URL_NOT_ALLOWED")

\* _check_elements, one element of a tag the theme has.
ElementIssues(t, n, theme, page) ==
    LET tag == t[n].tag
        names == DOMAIN t[n].attrs
    IN  Unless(names \cap ForbiddenAttributes = {}, "ATTRIBUTE_FORBIDDEN")
        \cup Unless(names \ ForbiddenAttributes \subseteq Attributes[theme][tag],
                    "ATTRIBUTE_UNKNOWN")
        \cup Unless(t[n].class \subseteq Classes, "CLASS_NOT_IN_THEME")
        \cup Unless(Has(t, n, "id") => \A m \in ThemeElements(t, theme) :
                       m < n => Attr(t, m, "id") # Attr(t, n, "id"), "ID_DUPLICATE")
        \cup (IF tag = "a" THEN LinkIssues(t, n, theme, page) ELSE {})
        \cup Unless(tag = "img" => Attr(t, n, "src") \in Assets(theme), "URL_NOT_ALLOWED")

\* What an attribute says aloud.
Spoken(t, n) == {Attr(t, n, name) : name \in {"aria_label", "alt"}} \ {None, Blank}

\* Mutant: only what attributes say is looked at.
SpokenIssues(t, theme, page) ==
    Unless(\A n \in Elements(t) : Spoken(t, n) \subseteq ApprovedText(theme, page),
           "TEXT_NOT_APPROVED")

\* _check_text: every text on the page is approved, alone and as a whole.
TextIssues(t, theme, page) ==
    LET approved == ApprovedText(theme, page)
        Known(n) == IF IsElement(t, n) THEN Spoken(t, n) \subseteq approved
                    ELSE Len(t[n].text) = 1 /\ t[n].text[1] \in approved
    IN  Unless(\A n \in DOMAIN t : Known(n), "TEXT_NOT_APPROVED")

\* validate_page: the first look, the parser, and only then the rest.
FirstLook(body) ==
    CASE body.large -> {"SIZE_LIMIT"}
      [] ~ body.large /\ ~ body.markup -> {"OUTPUT_NOT_HTML"}
      [] ~ body.large /\ body.markup -> Unless(~ body.document, "BODY_HAS_DOCUMENT_TAGS")

Validate(body, theme, page) ==
    LET parsed == Parse(body.tokens)
        t == parsed.nodes
    IN  IF FirstLook(body) # {} THEN FirstLook(body)
        ELSE IF parsed.error # None THEN {parsed.error}
        ELSE Unless(~ parsed.comments, "COMMENT_PRESENT")
             \cup Unless(ThemeElements(t, theme) = Elements(t), "TAG_NOT_ALLOWED")
             \cup UNION {ElementIssues(t, n, theme, page) : n \in ThemeElements(t, theme)}
             \cup TextIssues(t, theme, page) \cup Contract(theme, t, page)

\* ValidationReport.ok
Valid(body, theme, page) == Validate(body, theme, page) \subseteq Warnings

-----------------------------------------------------------------------------
(* The page that is sealed and what a visitor is shown.                     *)

\* render_head: the host writes the metadata itself.
HeadText(page) == {page.metadata[f] : f \in MetaText}

\* The texts and links of the sealed document.
Shown(body, page) ==
    LET t == Parse(body.tokens).nodes
        links == {Attr(t, n, "href") : n \in Elements(t)} \ (DOMAIN Anchors \cup {None})
    IN  HeadText(page) \cup ToSet(TextIn(t, 0, FALSE))
        \cup UNION {Spoken(t, n) : n \in Elements(t)} \cup links

\* What belongs to the theme and not to the content.
Fixed(theme, page) ==
    {Monogram(page.hero.name)} \cup ToSet(Index) \cup {"05", "06", "07", "08"}
    \cup IF theme = "forest" THEN ForestChrome ELSE SignalChrome

\* What the visitor has to be shown: all of the content, but the keywords of
\* a ticker that is left out.  What may be shown besides are those.
Content(theme, page) == ((Strings(page) \cup Urls(page)) \ {Blank}) \ Fixed(theme, page)
Promised(theme, page) ==
    LET ticker == theme = "signal" \/ HasMarquee(page)
    IN  Content(theme, IF ticker THEN page ELSE [page EXCEPT !.marquee_keywords = <<>>])

\* build_page, up to the seal: at which stage it failed, if it did.
Sealed(reply, theme, page) ==
    IF reply.kind # "page" THEN [failed |-> "generate", shown |-> {}]
    ELSE IF Valid(reply, theme, page)
    THEN [failed |-> "no", shown |-> Shown(reply, page) \ Fixed(theme, page)]
    ELSE [failed |-> "validate", shown |-> {}]

\* The outcomes a build of the content may have.
Outcomes(theme, page) ==
    LET replies == Replies(theme, page)
    IN  {Sealed(replies[i], theme, page) : i \in DOMAIN replies}

-----------------------------------------------------------------------------
(* The browser.                                                             *)

\* _font_load_failed: a fallback face may fail once its primary is loaded.
FontFailed(face, faces) ==
    /\ face.status = "error"
    /\ ~ (face.fallback /\ \E f \in faces : ~ f.fallback /\ f.family = face.family
                                           /\ f.status = "loaded")

\* The requests and the console of one viewport: handle, and the first few of
\* each kind.
TrafficIssues(view) ==
    Unless(view.external = 0, "EXTERNAL_REQUEST")
    \cup Unless(\A i \in DOMAIN view.failed : i <= MaxFindings => view.failed[i] # "own",
                "REQUEST_FAILED")
    \cup Unless(view.console # "policy", "CSP_VIOLATION")
    \cup Unless(view.console # "error", "CONSOLE_ERROR")

\* What the page measures of itself once it has loaded.
MetricIssues(view) ==
    Unless(\A face \in view.faces : ~ FontFailed(face, view.faces), "FONT_FAILED")
    \cup Unless(view.images, "IMAGE_BROKEN") \cup Unless(view.styled, "STYLESHEET_NOT_APPLIED")
    \cup Unless(~ view.wide, "HORIZONTAL_OVERFLOW")

\* _check_viewport
ViewIssues(view) ==
    IF ~ view.loads THEN {"PAGE_LOAD_FAILED"} ELSE TrafficIssues(view) \cup MetricIssues(view)

\* Mutant: no browser is no reason.
NeverRequired(policy) == "unavailable"

\* _unavailable: a browser that cannot run fails the page only where it must.
Unavailable(policy) == IF policy = "required" THEN "failed" ELSE "unavailable"

\* verify, _run: all viewports, unless there is no browser, it does not start,
\* or it takes too long.
Verified(policy, visit) ==
    IF visit.start # "ok" THEN Unavailable(policy)
    ELSE IF UNION {ViewIssues(view) : view \in visit.views} \subseteq {"HORIZONTAL_OVERFLOW"}
    THEN "passed" ELSE "failed"

=============================================================================
