------------------------------ MODULE MCApiClient ------------------------------
EXTENDS ApiClientProps

MCTerraformName ==
    [d \in {"key", "apiKey", "api_key", "query1", "query2", "bearer", "fresh",
            "bearerQuery", "oauth"} |->
        IF d \in {"apiKey", "api_key"} THEN "api_key" ELSE d]

Definition(type, in, kind, param) ==
    [type |-> type, in |-> in, kind |-> kind, param |-> param]
Definitions ==
    [key |-> Definition("apiKey", "header", "plain", "X-Key"),
     query1 |-> Definition("apiKey", "query", "plain", "q1"),
     query2 |-> Definition("apiKey", "query", "plain", "q2"),
     bearer |-> Definition("apiKey", "header", "bearer", ""),
     bearerQuery |-> Definition("apiKey", "query", "bearer", ""),
     fresh |-> Definition("apiKey", "header", "refresh", ""),
     oauth |-> Definition("oauth2", "header", "plain", "")]
Colliding ==
    [apiKey |-> Definition("apiKey", "header", "plain", "X-Key"),
     api_key |-> Definition("apiKey", "query", "plain", "q1")]

Open == [security |-> Null, headers |-> {}]
Secured(security, headers) == [security |-> security, headers |-> headers]
Header(name, property, required) ==
    [name |-> name, property |-> property, required |-> required]

Cdns == [path |-> <<"v1", "cdns">>, parents |-> <<>>, override |-> "",
         templated |-> FALSE, region |-> "",
         calls |-> [POST |-> Open, GET |-> Open]]
Rules == [Cdns EXCEPT !.path = <<"v1", "cdns", "{id}", "rules">>,
                      !.parents = <<"cdns_v1_id">>]
Hits == [Cdns EXCEPT !.path = <<"v1", "cdns", "{id}", "rules", "{id}", "hits">>,
                     !.parents = <<"cdns_v1_id", "rules_id">>,
                     !.calls = [DELETE |-> Open]]
Monitors(region) ==
    [Cdns EXCEPT !.path = <<"monitors">>, !.override = "monitors.api",
                 !.templated = TRUE, !.region = region,
                 !.calls = IF region = "" THEN [LIST |-> Open]
                           ELSE [PUT |-> Open, POST |-> Open]]
Fixed == [Cdns EXCEPT !.path = <<"fixed">>, !.override = "fixed.api",
                      !.calls = [POST |-> Open, LIST |-> Open]]

Document == [multi |-> Null, regions |-> <<>>, host |-> "api", served |-> "docs",
             schemes |-> {"https"}, base |-> <<>>, defs |-> Definitions,
             global |-> <<>>, resources |-> [cdns_v1 |-> Cdns]]
Configuration ==
    [values |-> [p \in {"key", "api_key", "query1", "query2", "bearer", "fresh",
                        "bearerQuery", "region", "x_tag"} |-> Null],
     endpoints |-> {}]
Setup(d, c) == [doc |-> d, conf |-> c]
Configured(property, value) ==
    [Configuration EXCEPT !.values[property] = value]

-----------------------------------------------------------------------------
(* Subresources two levels deep, whose parameters have the same name.      *)
Nested ==
    [name \in {"nested"} \X {<<"api">>} |->
        Setup([Document EXCEPT !.base = name[2],
                               !.resources = [rules |-> Rules, hits |-> Hits]],
              Configuration)]

(* Hosts: one, none, per region; endpoints in one block or two, that meet  *)
(* or not; a header that takes the name of the region's property.          *)
Blocks == {[cdns_v1 |-> "staging"], [fixed |-> "canary"],
           [cdns_v1 |-> "other", monitors_r1 |-> "probe"]}
Hosts ==
    [name \in {"hosts"} \X {"api", ""} \X {"docs", ""} \X {"http", "ws"}
                 \X {bs \in SUBSET Blocks : Cardinality(bs) <= 2} |->
        Setup([Document EXCEPT !.host = name[2], !.served = name[3],
                               !.schemes = {name[4]},
                               !.resources = [cdns_v1 |-> Cdns, fixed |-> Fixed,
                                              monitors_r1 |-> Monitors("r1"),
                                              monitors |-> Monitors("")]],
              [Configuration EXCEPT !.endpoints = name[5]])]
Tagged(property) ==
    [Cdns EXCEPT !.calls = [POST |-> Secured(Null, {Header("X-Tag", property, FALSE)})]]
Regions ==
    [name \in {"regions"} \X {"api", "malformed"} \X {<<>>, <<"r1", "r2">>}
                 \X {"x_tag", "region"} \X {Null, "r2", "r9"} |->
        Setup([Document EXCEPT !.multi = name[2], !.regions = name[3],
                               !.resources = [cdns_v1 |-> Tagged(name[4]),
                                              monitors_r2 |-> Monitors("r2")]],
              Configured("region", name[5]))]

(* Credentials: every scheme alone and in pairs, asked for by the document *)
(* or by the operation, configured or not, and next to headers.            *)
Schemes == {"key", "query1", "query2", "bearer", "bearerQuery", "fresh"}
Security == {<<s>> : s \in {x \in SUBSET Schemes : Cardinality(x) \in 1..2}}
                \cup {<<{"key"}, {"bearer"}>>, <<{}>>, <<>>, <<{"oauth"}>>}
Credentials(alternatives) ==
    [name \in {"credentials"} \X {<<>>, <<{"key"}>>, <<{"oauth"}>>}
                 \X alternatives
                 \X {{}, {Header("X-Tag", "x_tag", TRUE)},
                     {Header(Authorization, "x_tag", FALSE)}}
                 \X {{}, {"query1"}, {"bearer", "fresh"}, {"x_tag", "region"}} |->
        Setup([Document EXCEPT
                  !.global = name[2],
                  !.resources = [cdns_v1 |-> [Cdns EXCEPT !.calls =
                      [POST |-> Secured(name[3], name[4])]]]],
              [Configuration EXCEPT !.values =
                  [p \in DOMAIN Configuration.values |->
                      IF p \in name[5] THEN Null ELSE "my " \o p]])]
Mistaken ==
    [name \in {"mistaken"} \X {"query", "body"} \X {Null, "secret"} |->
        Setup([Document EXCEPT
                  !.defs = [Colliding EXCEPT !["api_key"].in = name[2]],
                  !.resources = [cdns_v1 |-> [Cdns EXCEPT !.calls =
                      [POST |-> Secured(<<{"api_key"}>>, {})]]]],
              Configured("api_key", name[3]))]

AllSetups ==
    Range(Nested) \cup Range(Hosts) \cup Range(Regions) \cup Range(Mistaken)
        \cup Range(Credentials(Security \cup {Null}))

\* Their paths are such as the proof about paths is for.
ASSUME PathsAssumption == PlainPaths
=============================================================================
