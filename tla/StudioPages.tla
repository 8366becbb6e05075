---------------------------- MODULE StudioPages ----------------------------
(***************************************************************************)
(* All that the pages of one portfolio can come to, as module Studio takes *)
(* it: the contents that chat changes lead to from the approved one, each  *)
(* known by its place in Drafts, the pages that a model's replies to it    *)
(* end in, and the verdicts of the browser.                                *)
(***************************************************************************)
EXTENDS PageBuild

LOCAL INSTANCE SequencesExt

CONSTANTS
    ApprovedPage,    \* the content that was approved
    Plans,           \* the change plans an interpreter may answer with, a sequence
    MaxChanges,      \* bound: changes one after the other
    Visits,          \* the ways a browser's visit may go, a sequence
    BrowserPolicies  \* the settings of [code_generator.verification] browser

-----------------------------------------------------------------------------
(* The contents.                                                            *)

\* What a chat message may lead to, from each content.
Decisions(base) == {Decide(base, Plans[i]) : i \in DOMAIN Plans}

Reached ==
    LET after[n \in 0 .. MaxChanges] ==
            IF n = 0 THEN {ApprovedPage}
            ELSE after[n - 1] \cup {d.content : d \in UNION {Decisions(c) : c \in after[n - 1]}}
    IN  after[MaxChanges]

\* The approved content is the first.
Drafts == <<ApprovedPage>> \o SetToSeq(Reached \ {ApprovedPage})
Draft(content) == CHOOSE d \in DOMAIN Drafts : Drafts[d] = content

ApprovedFits == Admissible(ApprovedPage)
DraftLeaves == [d \in DOMAIN Drafts |-> LeafStrings(Drafts[d])]

\* After the last change nothing more is asked.
DraftChanges ==
    [d \in DOMAIN Drafts |->
       {[decision EXCEPT !.content = Draft(@)] :
          decision \in {x \in Decisions(Drafts[d]) : x.content \in Reached}}]

-----------------------------------------------------------------------------
(* The pages.                                                               *)

DraftPages == [theme \in Themes |-> [d \in DOMAIN Drafts |-> Outcomes(theme, Drafts[d])]]
DraftPromises == [theme \in Themes |-> [d \in DOMAIN Drafts |-> Promised(theme, Drafts[d])]]
DraftPermits == [theme \in Themes |-> [d \in DOMAIN Drafts |-> Content(theme, Drafts[d])]]

BrowserSights ==
    [policy \in BrowserPolicies |-> {Verified(policy, Visits[i]) : i \in DOMAIN Visits}]

=============================================================================
