---------------------------- MODULE MCPluginStartup ----------------------------
EXTENDS PluginStartupProps

\* The string properties of the provider's schema, the set `endpoints`, and a
\* name the schema does not have.
AllProperties == {"string", "set", "unknown"}

Plain(text) == [kind |-> "text", text |-> text, value |-> ""]
JsonOf(text, value) == [kind |-> "json", text |-> text, value |-> value]
JsonNumber == [kind |-> "number", text |-> "7", value |-> ""]
Absent == [kind |-> "absent", text |-> "", value |-> ""]

NoCmd == [given |-> FALSE, writes |-> "", final |-> Absent, forks |-> FALSE]
Cmd(writes, final, forks) ==
    [given |-> TRUE, writes |-> writes, final |-> final, forks |-> forks]
Entry(name, default, file, content, cmd) ==
    [name |-> name, default |-> default, file |-> file, content |-> content,
     command |-> cmd]

ServiceOf(telemetry, schema) ==
    [url |-> "api", plugin |-> "", insecure |-> FALSE, telemetry |-> telemetry,
     schema |-> schema]
File(svc) ==
    [state |-> "plain", version |-> "1", entry |-> "there", service |-> svc]

Start(url, file, securities, headers) ==
    [binary |-> "named", url |-> url, skipVerify |-> FALSE, file |-> file,
     securities |-> securities, headers |-> headers, environment |-> <<>>,
     files |-> [f \in {"token", "other"} |-> JsonOf("old", "oldkey")],
     partial |-> Plain("part")]

Sent == [graphite |-> "valid", http |-> "absent", names |-> {}]

\* Every telemetry section, next to nothing else.
TelemetryStarts ==
    {Start(url, File(ServiceOf(telemetry, <<>>)), {}, {}) :
        telemetry \in Config, url \in {"", "api"}}

\* Every source of a configuration, and every way for it to be unusable.
SourceStarts ==
    {[Start(url, [state |-> state, version |-> version, entry |-> entry,
                  service |-> [ServiceOf(Sent, <<Entry("key", "d", "", "", NoCmd)>>)
                                 EXCEPT !.url = fileUrl, !.plugin = plugin,
                                        !.insecure = TRUE]],
            {"key"}, {}) EXCEPT !.binary = binary, !.skipVerify = skip] :
        url \in {"", "api", "invalid"},
        state \in {"unlocatable", "unopenable", "missing", "garbled", "plain"},
        version \in {"1", "2"}, entry \in {"absent", "null", "there"},
        fileUrl \in {"", "invalid", "nowhere", "refused", "api"},
        plugin \in {"", "same", "other"},
        binary \in {"named", "unnamed", "uncompliant"}, skip \in BOOLEAN}
\* Of those, the ones in which at most two things are out of the ordinary.
Odd(s) ==
    {k \in 1..7 : \/ k = 1 /\ s.url # ""
                  \/ k = 2 /\ s.file.state # "plain"
                  \/ k = 3 /\ s.file.version # "1"
                  \/ k = 4 /\ s.file.entry # "there"
                  \/ k = 5 /\ s.file.service.url # "api"
                  \/ k = 6 /\ s.file.service.plugin # ""
                  \/ k = 7 /\ s.binary # "named"}
FewOdds == {s \in SourceStarts : \A i, j, k \in Odd(s) : i = j \/ j = k \/ i = k}

\* Properties with files of every kind, and commands that write them.
New == JsonOf("new", "newkey")
Entries(n) ==
    {Entry(n, default, file, content, cmd) :
        default \in {"d"}, file \in {"", "token"}, content \in {"raw", "json", "yaml"},
        cmd \in {NoCmd, Cmd("", Absent, FALSE), Cmd("token", New, TRUE),
                 Cmd("token", Plain("new"), FALSE)}}
SchemaStarts ==
    {[Start(url, File(ServiceOf(NoTelemetry, <<e, f, g>>)), {"key"}, {"region"})
        EXCEPT !.files.token = content, !.environment = environment] :
        url \in {""}, e \in Entries("key"),
        f \in {Entry("region", "e", "other", "json", NoCmd),
               Entry("region", "", "token", "raw", Cmd("other", New, FALSE))},
        g \in {Entry("key", "second", "", "", NoCmd)},
        content \in {Absent, Plain("old"), JsonOf("old", "oldkey"), JsonNumber},
        environment \in {<<>>, [n \in {"region"} |-> "env"]}}
    \cup
    {Start("api", File(ServiceOf(NoTelemetry, <<e>>)), {"key", "key2"}, {"key"}) :
        e \in Entries("key")}
    \cup
    {Start("", File(ServiceOf(NoTelemetry, <<e>>)), {"key", "key2"}, {"key"}) :
        e \in Entries("key")}

AllStarts == TelemetryStarts \cup FewOdds \cup SchemaStarts
ForkingStarts == {Start("", File(ServiceOf(NoTelemetry, <<e>>)), {"key"}, {}) :
                     e \in Entries("key")}
=============================================================================
