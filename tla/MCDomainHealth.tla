--------------------------- MODULE MCDomainHealth ---------------------------
(* DomainHealth for domains that do not exist, are set up, or are set up badly. *)
EXTENDS DomainHealth

\* A zone with these records at every name, as far as they can be there.
Published(records) ==
    [c \in Checks |-> IF c = NoSelector \/ records = <<>> THEN <<>>
                      ELSE IF c = "mx" THEN <<"match">> ELSE records]

MCZones ==
    {Published(records) : records \in {<<>>, <<"match">>, <<"other">>, <<"match", "match">>, <<"match", "other">>}}
        \cup {[Published(<<"match">>) EXCEPT !["dmarc"] = <<>>, !["spf"] = <<"other", "match">>]}
=============================================================================
