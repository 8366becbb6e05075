---------------------------- MODULE PageContent ----------------------------
(***************************************************************************)
(* The content tree of a portfolio page: when it is complete (the rules of *)
(* agents/content_architect/page_content.py), when the template can hold   *)
(* it (agents/code_generator/admission.py), and how the edits that a chat  *)
(* message asks for are applied to it (agents/code_generator/changes.py).  *)
(*                                                                         *)
(* A text is a value of its own, already stripped; what matters of its     *)
(* length is whether it is blank, too short for the privacy comparison, or *)
(* longer than any field takes.  A list starts at 1 here, at 0 in a path   *)
(* of the code.                                                            *)
(***************************************************************************)
EXTENDS Naturals, Sequences

LOCAL INSTANCE SequencesExt

CONSTANTS
    PillarCount,  \* page_content.PILLAR_COUNT
    Limit,        \* most entries of each list the template can hold
    Short,        \* texts of fewer than three characters
    Long,         \* texts longer than any field of the template takes
    SafeUrls      \* the http(s) and mailto links

Blank == ""

Sections == {"systems_practice", "technical_capabilities", "professional_context", "connect"}
SectionText == {"eyebrow", "heading", "intro"}
HeroText == {"name", "eyebrow_primary", "eyebrow_secondary", "headline_prefix",
             "headline_emphasis", "intro", "location", "primary_cta_label", "secondary_cta_label"}
MetaText == {"title", "description"}

Pillars(page) == page.systems_practice.pillars
Groups(page) == page.technical_capabilities.groups
Organizations(page) == page.professional_context.organizations
Destinations(page) == page.connect.destinations

\* _strings: the texts of a list that are not blank.
Filled(texts) == SelectSeq(texts, LAMBDA text : text # Blank)

-----------------------------------------------------------------------------
(* Completeness and limits.                                                 *)

\* _section_errors
SectionComplete(section) == section.eyebrow # Blank /\ section.heading # Blank

\* page_completeness_errors: what the template needs to have no gap.
Complete(page) ==
    /\ page.hero.name # Blank /\ page.hero.intro # Blank
    /\ page.hero.headline_prefix # Blank \/ page.hero.headline_emphasis # Blank
    /\ \A field \in MetaText : page.metadata[field] # Blank
    /\ \A key \in Sections : SectionComplete(page[key])
    /\ Len(Pillars(page)) = PillarCount
    /\ \A p \in ToSet(Pillars(page)) : p.title # Blank /\ p.description # Blank
    /\ Groups(page) # <<>>
    /\ \A g \in ToSet(Groups(page)) : g.heading # Blank /\ ToSet(g.items) \ {Blank} # {}
    /\ \A d \in ToSet(Destinations(page)) : d.label # Blank /\ d.url \in SafeUrls

\* Every text of the page but its links, and the links.
Strings(page) ==
    {page.hero[f] : f \in HeroText} \cup {page.metadata[f] : f \in MetaText}
    \cup ToSet(page.marquee_keywords)
    \cup UNION {{page[key][f] : f \in SectionText} : key \in Sections}
    \cup UNION {{p.title, p.description} : p \in ToSet(Pillars(page))}
    \cup UNION {{g.heading} \cup ToSet(g.items) : g \in ToSet(Groups(page))}
    \cup ToSet(Organizations(page)) \cup {d.label : d \in ToSet(Destinations(page))}
Urls(page) == {d.url : d \in ToSet(Destinations(page))} \ {Blank}

ItemsInTotal(page) == FoldLeft(LAMBDA n, g : n + Len(g.items), 0, Groups(page))

\* The second half of content_admission_issues: no text and no list too long.
Fits(page) ==
    /\ (Strings(page) \cup Urls(page)) \cap Long = {}
    /\ Len(page.marquee_keywords) <= Limit.keywords
    /\ Len(Groups(page)) <= Limit.groups
    /\ \A g \in ToSet(Groups(page)) : Len(g.items) <= Limit.items
    /\ ItemsInTotal(page) <= Limit.total
    /\ Len(Organizations(page)) <= Limit.organizations
    /\ Len(Destinations(page)) <= Limit.destinations

Admissible(page) == Complete(page) /\ Fits(page)

-----------------------------------------------------------------------------
(* Edits.  A path is a sequence of steps, a key with an index or with none; *)
(* its normal form keeps whether a step has an index.                       *)

Key(key) == [key |-> key, at |-> 0]
At(key, n) == [key |-> key, at |-> n]

Normal(path) == [i \in DOMAIN path |-> <<path[i].key, path[i].at > 0>>]

Dot(key) == <<key, FALSE>>
Each(key) == <<key, TRUE>>

GroupList == <<Dot("technical_capabilities"), Dot("groups")>>
LinkList == <<Dot("connect"), Dot("destinations")>>
ItemList == <<Dot("technical_capabilities"), Each("groups"), Dot("items")>>
OrganizationList == <<Dot("professional_context"), Dot("organizations")>>
KeywordList == <<Dot("marquee_keywords")>>

Entry(list) == [list EXCEPT ![Len(list)] = Each(@[1])]

StringLists == {KeywordList, ItemList, OrganizationList}
ObjectLists == {GroupList, LinkList}
Removable == {Entry(list) : list \in StringLists \cup ObjectLists}
BoolPaths == {<<Dot("connect"), Each("destinations"), Dot("featured")>>}
TextPaths ==
    {<<Dot("hero"), Dot(f)>> : f \in HeroText} \cup {<<Dot("metadata"), Dot(f)>> : f \in MetaText}
    \cup {<<Dot(key), Dot(f)>> : key \in Sections, f \in SectionText}
    \cup {<<Dot("systems_practice"), Each("pillars"), Dot(f)>> : f \in {"title", "description"}}
    \cup {<<Dot("technical_capabilities"), Each("groups"), Dot("heading")>>}
    \cup {Entry(list) : list \in StringLists}
    \cup {<<Dot("connect"), Each("destinations"), Dot(f)>> : f \in {"label", "url"}}

\* _child, _index: one step down.
Step(node, step) == IF step.at = 0 THEN node[step.key] ELSE node[step.key][step.at]

\* _walk, with the check that the last step exists.
RECURSIVE Exists(_, _)
Exists(node, path) ==
    path = <<>>
    \/ /\ path[1].key \in DOMAIN node
       /\ path[1].at > 0 => path[1].at <= Len(node[path[1].key])
       /\ Exists(Step(node, path[1]), Tail(path))

RECURSIVE Node(_, _)
Node(node, path) == IF path = <<>> THEN node ELSE Node(Step(node, path[1]), Tail(path))

\* The tree with another value at the end of the path.
RECURSIVE Put(_, _, _)
Put(node, path, value) ==
    IF path = <<>> THEN value
    ELSE LET s == path[1]
             below == Put(Step(node, s), Tail(path), value)
         IN  IF s.at = 0 THEN [node EXCEPT ![s.key] = below]
             ELSE [node EXCEPT ![s.key][s.at] = below]

\* An operation: verb, path and the value, with its JSON type.
\* _text, _string_list, _object: the value has the type the path needs.
Allowed(op) ==
    LET n == Normal(op.path)
    IN  \/ /\ op.verb = "set"
           /\ \/ n \in TextPaths /\ op.type = "text"
              \/ n \in StringLists /\ op.type = "list"
              \/ n \in BoolPaths /\ op.type = "flag"
        \/ /\ op.verb = "append"
           /\ \/ n \in StringLists /\ op.type = "text"
              \/ n = GroupList /\ op.type = "group"
              \/ n = LinkList /\ op.type = "link"
        \/ op.verb = "remove" /\ n \in Removable

\* Removing moves the entries behind it one place up.
Removed(page, path) ==
    LET last == path[Len(path)]
        list == [path EXCEPT ![Len(path)].at = 0]
    IN  Put(page, list, RemoveAt(Node(page, list), last.at))

\* apply_operation
Applied(page, op) ==
    CASE op.verb = "set" -> Put(page, op.path, op.value)
      [] op.verb = "append" -> Put(page, op.path, Append(Node(page, op.path), op.value))
      [] op.verb = "remove" -> Removed(page, op.path)

\* apply_operations: on a copy, each on what the one before it left, all or none.
ApplyAll(page, ops) ==
    FoldLeft(LAMBDA made, op :
                 IF made.ok /\ Allowed(op) /\ Exists(made.page, op.path)
                 THEN [made EXCEPT !.page = Applied(@, op)] ELSE [made EXCEPT !.ok = FALSE],
             [ok |-> TRUE, page |-> page], ops)

\* leaf_strings: links too, but not what is shorter than three characters.
LeafStrings(page) == (Strings(page) \cup Urls(page)) \ ({Blank} \cup Short)

\* removed_strings
RemovedStrings(before, after) == LeafStrings(before) \ LeafStrings(after)

OnlyReply(base) == [kind |-> "reply", content |-> base, removed |-> {}]

\* decide_change: a build of the new content, or a reply that builds nothing.
Decide(base, plan) ==
    LET made == ApplyAll(base, plan.ops)
    IN  IF /\ plan.intent = "content_edit" /\ plan.ops # <<>>
           /\ made.ok /\ Admissible(made.page) /\ made.page # base
        THEN [kind |-> "build", content |-> made.page,
              removed |-> IF plan.privacy_sensitive THEN RemovedStrings(base, made.page) ELSE {}]
        ELSE OnlyReply(base)

=============================================================================
