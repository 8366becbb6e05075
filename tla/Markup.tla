------------------------------- MODULE Markup -------------------------------
(***************************************************************************)
(* The strict parser of generated page bodies and its selectors            *)
(* (themes/htmltree.py).                                                   *)
(*                                                                         *)
(* A body comes as the tokens HTMLParser reports.  White space is left out,*)
(* so a text is the sequence of the words it is put together from, a word  *)
(* being a whole text of the content or of the theme.  Attribute names have*)
(* _ for -, and the class attribute is the set of its classes.             *)
(***************************************************************************)
EXTENDS Naturals, Sequences, FiniteSets

LOCAL INSTANCE SequencesExt

Void == {"area", "base", "br", "col", "embed", "hr", "img", "input", "link", "meta", "source",
         "track", "wbr"}

Data == "#text"   \* the tag of a text node
Wild == "*"       \* any tag, or any class
None == "#none"   \* an attribute that is not there

-----------------------------------------------------------------------------
(* Parsing.  The nodes are kept in document order, each with its parent, 0  *)
(* for the fragment, and the set of all it lies in.                         *)

Fragment == [nodes |-> <<>>, stack |-> <<>>, error |-> None, comments |-> FALSE]

Top(t) == IF t.stack = <<>> THEN 0 ELSE Last(t.stack)

Added(t, tag, class, attrs, text) ==
    [t EXCEPT !.nodes = Append(@, [tag |-> tag, class |-> class, attrs |-> attrs, text |-> text,
                                   parent |-> Top(t), above |-> {0} \cup ToSet(t.stack)])]

\* _fail: parsing stops, for the tree is unreliable.
Broke(t, code) == [t EXCEPT !.error = code]

\* _open, handle_starttag
Opened(t, token) ==
    LET added == Added(t, token.tag, token.class, token.attrs, <<>>)
    IN  IF token.tag \in Void THEN added
        ELSE [added EXCEPT !.stack = Append(@, Len(added.nodes))]

\* handle_startendtag
SelfClosed(t, token) ==
    IF token.tag \in Void THEN Opened(t, token) ELSE Broke(t, "HTML_SELF_CLOSING_NON_VOID")

\* handle_endtag
Closed(t, tag) ==
    CASE tag \in Void -> Broke(t, "HTML_END_TAG_FOR_VOID")
      [] tag \notin Void /\ t.stack = <<>> -> Broke(t, "HTML_UNEXPECTED_END_TAG")
      [] tag \notin Void /\ t.stack # <<>> ->
            IF t.nodes[Top(t)].tag = tag THEN [t EXCEPT !.stack = Front(@)]
            ELSE Broke(t, "HTML_MISMATCHED_END_TAG")

\* handle_data: a text is one node with the text before it, a comment between
\* them or not.
Wrote(t, text) ==
    LET n == Len(t.nodes)
    IN  IF n > 0 /\ t.nodes[n].tag = Data /\ t.nodes[n].parent = Top(t)
        THEN [t EXCEPT !.nodes[n].text = @ \o text]
        ELSE Added(t, Data, {}, <<>>, text)

Parsed(t, token) ==
    CASE token.op = "open" -> Opened(t, token)
      [] token.op = "repeat" -> Broke(t, "HTML_DUPLICATE_ATTRIBUTE")
      [] token.op = "selfclose" -> SelfClosed(t, token)
      [] token.op = "close" -> Closed(t, token.tag)
      [] token.op = "text" -> Wrote(t, token.text)
      [] token.op = "comment" -> [t EXCEPT !.comments = TRUE]
      [] token.op = "decl" -> Broke(t, "HTML_DECLARATION_NOT_ALLOWED")

\* The tokens one after the other until one breaks the tree (in halves, so that
\* a long page does not nest deeply).
RECURSIVE Fed(_, _)
Fed(t, tokens) ==
    IF t.error # None \/ tokens = <<>> THEN t
    ELSE IF Len(tokens) = 1 THEN Parsed(t, tokens[1])
    ELSE LET mid == Len(tokens) \div 2
         IN  Fed(Fed(t, SubSeq(tokens, 1, mid)), SubSeq(tokens, mid + 1, Len(tokens)))

\* parse_fragment
Parse(tokens) ==
    LET t == Fed(Fragment, tokens)
    IN  IF t.error = None /\ t.stack # <<>> THEN Broke(t, "HTML_UNCLOSED_ELEMENT") ELSE t

-----------------------------------------------------------------------------
(* Selecting.  t is the sequence of nodes; what is selected comes in        *)
(* document order.                                                          *)

IsElement(t, n) == t[n].tag # Data
Elements(t) == {n \in DOMAIN t : IsElement(t, n)}

Has(t, n, name) == name \in DOMAIN t[n].attrs
Attr(t, n, name) == IF Has(t, n, name) THEN t[n].attrs[name] ELSE None

\* _compound_matches
Is(t, n, tag, class) ==
    n # 0 /\ IsElement(t, n) /\ tag \in {Wild, t[n].tag} /\ (class = Wild \/ class \in t[n].class)

Nodes(t) == [n \in DOMAIN t |-> n]

\* select: "tag.class" within the scope.
All(t, scope, tag, class) ==
    SelectSeq(Nodes(t), LAMBDA n : scope \in t[n].above /\ Is(t, n, tag, class))

\* select: "tag#id" within the scope.
WithId(t, scope, tag, id) ==
    SelectSeq(All(t, scope, tag, Wild), LAMBDA n : Attr(t, n, "id") = id)

\* "tag.class > ...": those of the nodes found that are its children.
Under(t, tag, class, found) == SelectSeq(found, LAMBDA n : Is(t, t[n].parent, tag, class))

Place(t, n) == Cardinality({m \in 1 .. n : IsElement(t, m) /\ t[m].parent = t[n].parent})

\* ":nth-child(k)", ":first-child"
Nth(t, k, found) == SelectSeq(found, LAMBDA n : Place(t, n) = k)

\* select_one
First(found) == IF found = <<>> THEN 0 ELSE Head(found)

\* Element.text: the text in a node, or only what is not hidden in it.
TextIn(t, n, visible) ==
    LET hides(a) == n \in t[a].above /\ Attr(t, a, "aria_hidden") = "true"
        texts == SelectSeq(Nodes(t), LAMBDA m :
                    /\ t[m].tag = Data /\ n \in t[m].above
                    /\ visible => \A a \in t[m].above \ {0} : ~ hides(a))
    IN  FlattenSeq([i \in DOMAIN texts |-> t[texts[i]].text])

=============================================================================
