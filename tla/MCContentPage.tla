----------------------------- MODULE MCContentPage -----------------------------
\* Two films, the first with a rating of somebody else.
EXTENDS ContentPage

MCItems == {"m", "n"}
MCTypeOf == [i \in MCItems |-> "MOVIE"]
MCReviewers == [i \in MCItems |-> IF i = "m" THEN <<"other">> ELSE <<>>]
=============================================================================
