-------------------------------- MODULE Catalog --------------------------------
(***************************************************************************)
(* What the web server makes of the proxy's answers about the catalogue:    *)
(* Core names the titles of a homepage, a search or a browse page, and      *)
(* adds its judgment of them (server/catalog.ts, lib/api/contentResolution).*)
(*                                                                          *)
(* A title is [id, type, dennId, summary]: the provider's id, and Core's    *)
(* where it is known.  What Core resolves is a set of [id, type, dennId,    *)
(* summary]; a summary is "none" or [status, classification].               *)
(***************************************************************************)
EXTENDS Naturals, FiniteSets

CONSTANT ModerationVisible   \* the server's setting

NoSummary == [status |-> "none", classification |-> "none"]
Unnamed(id, type) == [id |-> id, type |-> type, dennId |-> 0, summary |-> NoSummary]

IdentityKey_idOnly(t) == <<t.id>>
IdentityKey(t) == <<t.type, t.id>>

\* Titles of an unknown type and people are not asked for.
CollectContentIdentities(titles) == {t \in titles : t.type \notin {"PERSON", "unknown"}}
Match(resolved, t) ==
    IF t \in CollectContentIdentities({t}) THEN {r \in resolved : IdentityKey(r) = IdentityKey(t)}
    ELSE {}
ApplyResolvedContentIds(titles, resolved) ==
    {LET m == Match(resolved, t)
     IN  [t EXCEPT !.dennId = IF m = {} THEN 0 ELSE (CHOOSE r \in m : TRUE).dennId] : t \in titles}
AttachModerationSummaries(titles, resolved) ==
    {LET m == Match(resolved, t)
     IN  [t EXCEPT !.summary = IF m = {} THEN NoSummary ELSE (CHOOSE r \in m : TRUE).summary]
         : t \in titles}
IsCurrentSafeModeration_any(s) == s.classification = "safe"
IsCurrentSafeModeration(s) == s.status = "complete" /\ s.classification = "safe"
KeepOnlyCurrentSafeHomepageItems(titles, resolved) ==
    {t \in AttachModerationSummaries(titles, resolved) : IsCurrentSafeModeration(t.summary)}

\* The homepage keeps what is judged safe, the others carry the judgment; a browse
\* page leaves out what Core did not name.  Without a title to ask for, the answer
\* stays as it came.
ResolveCatalogContentIds(view, titles, resolved) ==
    LET named == ApplyResolvedContentIds(titles, resolved)
        judged == IF ModerationVisible /\ view = "home" THEN
                           KeepOnlyCurrentSafeHomepageItems(named, resolved)
                  ELSE IF ModerationVisible THEN AttachModerationSummaries(named, resolved)
                  ELSE named
    IN  IF CollectContentIdentities(titles) = {} THEN titles
        ELSE IF view = "browse" THEN {t \in judged : t.dennId # 0}
        ELSE judged
=============================================================================
