SPECIFICATION FairSpec
CONSTANTS
    MaxBuilds = 2
    MaxRestores = 2
    Keep = 2
    Slots = 2
    MaxFaults = 2
    PillarCount = 2
    Limit <- MCLimit
    Short = {}
    Long = {"endless"}
    SafeUrls = {"https", "mailto"}
    WebUrls = {"https"}
    MarqueeMin = 1
    MarqueeTarget = 2
    OpenUpTo = 20
    MaxFindings = 1
    Monogram <- MCMonogram
    Classes = {"button--primary", "button__label", "capability-group",
        "capability-group__heading", "capability-group__index", "capability-list",
        "connect-copy", "context-content", "destination-list", "destination-list__featured",
        "eyebrow", "grain", "hero", "hero__badge", "hero__eyebrow", "hero__headline",
        "hero__intro", "hero__location", "hero__visual", "inventory-grid", "marquee",
        "marquee__list", "marquee__track", "organization-list", "pillar", "pillar-grid",
        "pillar__index", "scene", "scene--capabilities", "scene--connect", "scene--context",
        "scene--systems", "section-heading", "section-heading__intro", "sg-about", "sg-button",
        "sg-contact", "sg-hero", "sg-process", "sg-work", "site-footer", "site-footer__inner",
        "site-nav", "site-nav__index", "site-nav__links", "skip-link", "text-link", "wordmark",
        "wordmark__monogram", "wordmark__name"}
    Anchors <- MCAnchors
    Replies <- MCReplies
    ApprovedPage <- MCApprovedPage
    Plans <- MCPlans
    MaxChanges = 1
    Visits <- MCVisits
    BrowserPolicies = {"off", "best_effort", "required"}
    Approved = 1
    SiteThemes = {"forest", "signal"}
    Buildable <- MCBuildable
    Leaves <- MCLeaves
    Changes <- MCChanges
    Pages <- MCPages
    Promises <- MCPromises
    Permits <- MCPermits
    Sights <- MCSights
INVARIANTS
    TypeOK
    LivePageSound
    RowsAgree
    HiddenStaysHidden
PROPERTIES
    KeepsLivePage
    BuildEnds
CHECK_DEADLOCK FALSE
