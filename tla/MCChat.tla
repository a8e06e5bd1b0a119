------------------------------- MODULE MCChat -------------------------------
(* An instance of Chat for TLC.                                             *)
EXTENDS Chat

\* A hosted model without native tool calling, one whose key is missing, a
\* local model, and one that cannot stream.
ModelEntries ==
    {[name |-> "openai", id |-> "small", ref |-> "found", native |-> FALSE],
     [name |-> "openai", id |-> "large", ref |-> "dangling", native |-> TRUE],
     [name |-> "ollama", id |-> "local", ref |-> "none", native |-> TRUE],
     [name |-> "anthropic", id |-> "large", ref |-> "found", native |-> TRUE]}

\* Six urls: a site with two hosts, one page of which is disallowed, another
\* domain, and one the guard refuses, to which the third redirects.
Web == 1..6
WebHosts == <<"docs", "docs", "docs", "blog", "other", "docs">>
WebDomains == [h \in {"docs", "blog", "other"} |-> IF h = "other" THEN "other" ELSE "wazuh"]
WebLinks == {<<>>, <<2, 3>>, <<5, 1, 4>>, <<6>>}
WebRedirects == <<1, 2, 6, 4, 5, 6>>
WebSitemaps == [h \in {"docs", "blog", "other"} |-> <<2, 5>>]
WebRelevance == <<0, 0, 1, 1, 0, 0>>
CrawlCaps == [depth : 0..2, pages : {2, 4}]
=============================================================================
