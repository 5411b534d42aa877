--------------------------- MODULE MCProviderFactory ---------------------------
EXTENDS ProviderFactoryProps, TLC

MCVersions == {"v1", "v2"}
MCParams == {"{id}", "{rule}"}
MCUnderscored == [w \in {"my-cdns"} |-> "my_cdns"]
MCPartsOf == "my_cdns" :> <<"my", "cdns">> @@ "abc_v1" :> <<"abc", "v1">>
                 @@ "abc_instance" :> <<"abc", "instance">>
MCBeginnings == {<<"cdn", "cdns">>}

Nothing == [get |-> FALSE, lists |-> FALSE, post |-> "none", schemas |-> {},
            ignored |-> FALSE, preferred |-> "", regional |-> FALSE,
            sound |-> TRUE]
Collection == [Nothing EXCEPT !.post = "body", !.schemas = {"identified"}]
Instance == [Nothing EXCEPT !.get = TRUE]

InRegions(regions, paths) == [paths |-> paths, regions |-> regions]
Api(paths) == InRegions(<<"r1", "r2">>, paths)
Pair(segs, item) ==
    At(segs, FALSE) :> item @@ At(Append(segs, "{id}"), FALSE) :> Instance

\* Collections that can get one another's names; the schema of one of them may
\* be refused.
Abc(preferred, ignored) ==
    [Collection EXCEPT !.preferred = preferred, !.ignored = ignored]
Colliding ==
    {Api(Pair(<<"v1", "abc">>, Abc(a, i))
         @@ Pair(<<"v1", "xyz">>, Abc(b, j))
         @@ Pair(<<"abc_v1">>, [Abc(c, FALSE) EXCEPT !.sound = sound])) :
        a \in {"", "same"}, b \in {"", "abc", "same"}, c \in {"", "same"},
        i \in BOOLEAN, j \in BOOLEAN, sound \in BOOLEAN}

\* A collection below another, two levels deep, with and without a slash at
\* the end, a parent that is ignored, incomplete, or not compliant.
Nested ==
    {InRegions(regions,
         At(<<"v1", "cdns">>, slash) :> parent
         @@ At(<<"v1", "cdns", "{id}">>, FALSE) :> Instance
         @@ Pair(<<"v1", "cdns", "{id}", "v2", "cdn">>, child)
         @@ At(<<"v1", "cdns", param, "v2", "cdn", "{id}", "rules">>, FALSE)
              :> Collection
         @@ At(<<"v1", "cdns", param, "v2", "cdn", "{id}", "rules", "{rule}">>,
               TRUE) :> Instance) :
        regions \in {<<"r1", "r2">>, <<"r1", "">>},
        slash \in BOOLEAN, param \in MCParams,
        parent \in {Collection, Abc("parent", FALSE), Abc("", TRUE)},
        child \in {Collection, [Collection EXCEPT !.regional = TRUE]}}

\* A resource without a body, with several successful responses, next to data
\* sources that share its name or that of its instances.
Listing == [Nothing EXCEPT !.get = TRUE, !.lists = TRUE]
Sources ==
    {Api(At(<<"abc">>, FALSE) :> [Listing EXCEPT !.post = post,
                                                !.schemas = schemas,
                                                !.sound = sound]
         @@ At(<<"abc">>, TRUE) :> Listing
         @@ At(<<"abc", "{id}">>, FALSE) :> Instance
         @@ At(<<"abc_instance">>, FALSE) :> Listing
         @@ At(root, TRUE) :> Collection
         @@ At(Append(root, "{id}"), TRUE) :> Instance) :
        post \in {"body", "nobody", "unusable"}, sound \in BOOLEAN,
        schemas \in {{"readonly"}, {"identified"}, {"anonymous"},
                     {"readonly", "missing"}},
        root \in {<<>>, <<"v2", "my-cdns">>, <<"{id}">>}}

\* Collections whose path ends in a parameter and a slash, or begins with a
\* parameter: at the top, of a region, below another one.
Bare ==
    {Api(Pair(<<"v1", "abc">>, Collection)
         @@ At(root, slash) :> [Collection EXCEPT !.regional = regional,
                                                  !.preferred = preferred]
         @@ At(Append(root, "{rule}"), FALSE) :> Instance) :
        root \in {<<"{id}">>, <<"{id}", "cdns">>, <<"v1", "abc", "{id}">>,
                  <<"abc", "{id}">>},
        slash \in BOOLEAN, regional \in BOOLEAN, preferred \in {"", "same"}}

AllDocuments == Colliding \cup Nested \cup Sources \cup Bare
=============================================================================
