------------------------------- MODULE MCParts -------------------------------
(***************************************************************************)
(* Small instances of the parts of the programs that share nothing, in one *)
(* run: the constants of those of module Parts, and further ones, on the   *)
(* same variables.                                                         *)
(***************************************************************************)
EXTENDS Parts
LOCAL INSTANCE TLC
LOCAL INSTANCE SequencesExt

CONSTANT None  \* a model value

-----------------------------------------------------------------------------
(***************************************************************************)
(* What a behaviour of exoqms is about: one NC, created and moved by two   *)
(* threads at a time; one NC and one objective to reload; audits of two    *)
(* checks that look at earlier audits; up to five audits of one check;     *)
(* overlapping ones; the scans; and single audits of every check.          *)
(***************************************************************************)
QmsScenario(new, old, acts, program, k, n, m) ==
    [new |-> new, old |-> old, acts |-> acts, program |-> program,
     threads |-> k, troubles |-> n, requests |-> m]
Acts == {"analyse", "correct", "verify", "close"}
AllChecks ==
    {"component-tests", "doc-compliance", "dogfood", "ui-audit", "metrics",
     "code-safety", "asset-logic", "kit-fidelity", "agent-health",
     "memory-awareness", "docs-coverage", "debt", "hygiene", "secrets",
     "rework", "issue-tracking"}
MCScenarios ==
    {QmsScenario({"n1"}, {}, Acts, <<>>, 2, 2, 5),
     QmsScenario({"o1"}, {"n1"}, Acts, <<>>, 2, 2, 2),
     QmsScenario({"a1", "a2", "a3"}, {}, {}, <<"metrics", "rework">>, 1, 1, 3),
     QmsScenario({"a1", "a2", "a3", "a4", "a5"}, {}, {}, <<"metrics">>, 1, 0, 5),
     QmsScenario({"a1", "a2"}, {}, {}, <<"metrics">>, 2, 1, 2),
     QmsScenario({"a1", "a2"}, {}, {}, <<"debt", "secrets">>, 1, 0, 1)}
    \cup {QmsScenario({"a1"}, {}, {}, <<c>>, 1, 1, 1) : c \in AllChecks}

(* three threads of /fetch and /scrape, one of them with polite=0, and one host *)
MCHostOf == [f \in {"f1", "f2", "f3"} |-> "h"]

(* three commits, two of them of one version *)
MCVersions == <<1, 1, 2>>

(***************************************************************************)
(* robots.txt: files of up to three lines, a table of two rules.           *)
(***************************************************************************)
RobotsLines ==
    {[kind |-> "disallow", value |-> v] :
        v \in {<<>>, <<"*">>, <<"/">>, <<"a">>, <<"/", "a", "$">>, <<"/", "*", "b">>}}
    \cup {[kind |-> "delay", sec |-> n] : n \in 0..3} \cup {[kind |-> "other"]}
UrlOf(path, query) == [path |-> path, query |-> query]
RobotsPart == INSTANCE Robots WITH
    Files <- UNION {[1..n -> RobotsLines] : n \in 0..3},
    Targets <- {UrlOf(<<>>, <<>>), UrlOf(<<"/">>, <<>>), UrlOf(<<"/", "a">>, <<>>),
                UrlOf(<<"/", "b">>, <<"?", "a">>), UrlOf(<<>>, <<"?", "b">>),
                UrlOf(<<>>, <<"?", "/", "a">>)},
    MaxRules <- 2, MaxDelay <- 3,
    file <- v1, at <- v2, rules <- v3, delay <- v4

KitPart == INSTANCE Kit WITH
    Fns <- {"f1", "f2"}, Results <- {"r"}, Cap <- 1, MaxLedger <- 2,
    software <- v1, present <- v2, contract <- v3, ledger <- v4, runner <- v5,
    said <- v6, fresh <- v7

(***************************************************************************)
(* exodoc: the README of component a is one that meets the standard, with  *)
(* up to two lines left out, or one added; it is audited once while the    *)
(* daemon may go down and come back as the next version.  And two audits   *)
(* of a manifest with odd lines are recorded at the same time.             *)
(***************************************************************************)
DocLine(kind, level, words, tokens) ==
    [kind |-> kind, level |-> level, words |-> words, tokens |-> tokens]
DocHeading(level, words) == DocLine("heading", level, words, <<>>)
DocText(kind, tokens) == DocLine(kind, 0, {}, tokens)
DocToken(kind, of, form) == [kind |-> kind, of |-> of, form |-> form]
DocCommand(of) == [kind |-> "command", of |-> of]
DocEndpoint(of) == DocToken("ep", of, "coded")
DocVersion(of) == DocToken("version", of, "v")
ModelDoc ==
    <<DocHeading(1, {"a"}), DocText("text", <<DocVersion("1")>>),
      DocHeading(2, {"build"}), DocText("code", <<DocCommand("build")>>),
      DocHeading(2, {"usage"}), DocText("text", <<>>),
      DocHeading(2, {"api"}), DocText("text", <<DocEndpoint("x")>>),
      DocHeading(3, {}), DocText("text", <<DocToken("ep", "y", "query")>>),
      DocHeading(2, {"state"}), DocText("text", <<>>),
      DocHeading(2, {"test"}), DocText("code", <<DocCommand("tests")>>),
      DocHeading(2, {"limitation"}), DocText("text", <<>>)>>
Additions ==
    {DocLine("comment", 1, {"a"}, <<>>), DocLine("comment", 2, {"build"}, <<>>),
     DocHeading(2, {"quickstart"}), DocText("blank", <<>>),
     DocText("text", <<DocToken("version", "9", "ip"), DocEndpoint("z"), DocToken("ep", "w", "long")>>)}
Drafts == {ModelDoc} \cup {RemoveAt(ModelDoc, i) : i \in DOMAIN ModelDoc}
Documents ==
    {None} \cup Drafts \cup {[ModelDoc EXCEPT ![i].level = 3] : i \in {3, 7, 11, 13}}
    \cup UNION {{RemoveAt(d, i) : i \in DOMAIN d} : d \in Drafts}
    \cup {InsertAt(ModelDoc, i, l) : i \in DOMAIN ModelDoc, l \in Additions}
Component(fields, name, port) ==
    [kind |-> "entry", fields |-> fields, name |-> name, port |-> port,
     build |-> TRUE, tests |-> fields > 4]
SpecOne == <<DocVersion("1"), DocEndpoint("x"), DocEndpoint("y")>>
SpecTwo == <<DocVersion("2"), DocEndpoint("x"), DocEndpoint("z")>>
DocsScenarios ==
    {[manifest |-> <<Component(5, "a", "p")>>, documents |-> [{"a"} -> Documents],
      daemons |-> {SpecOne}, next |-> SpecTwo, binaries |-> {None, "2"},
      auditors |-> {"p1"}, troubles |-> 1],
     [manifest |-> <<[kind |-> "comment"], Component(2, "a", "p"), Component(3, "b", ""),
                     Component(3, "b", "bad"), Component(4, "a", "p"), Component(4, "c", "q")>>,
      documents |-> [{"a", "b"} -> {ModelDoc}], daemons |-> {SpecOne},
      next |-> SpecTwo, binaries |-> {"1"}, auditors |-> {"p1", "p2"}, troubles |-> 1],
     [manifest |-> <<Component(3, "a", ""), Component(3, "a", "p")>>,
      documents |-> [{"a"} -> {ModelDoc}], daemons |-> {SpecOne},
      next |-> SpecTwo, binaries |-> {"1"}, auditors |-> {"p1"}, troubles |-> 1]}
DocsPart == INSTANCE Docs WITH
    None <- None, Auditors <- {"p1", "p2"}, Scenarios <- DocsScenarios,
    MaxComps <- 2, MaxHeadings <- 8, MaxEps <- 3, MaxTime <- 2,
    manifest <- v1, document <- v2, daemon <- v3, next <- v4, binary <- v5,
    troubles <- v6, th <- v7, stored <- v8, clock <- v9

(***************************************************************************)
(* exogit: one repository of two files of one name, and three commits; it is *)
(* named in every way, and one attempt to reach it may fail or two.        *)
(***************************************************************************)
GitRequest(op, form, ref, branch, path) ==
    [op |-> op, form |-> form, ref |-> ref, branch |-> branch, path |-> path,
     token |-> form = "repo", max |-> 17, linenos |-> form = "repo"]
GitRefs ==
    {<<"r">>, <<"o", "r">>, <<"github.com", "o", "r">>, <<"gitlab.com", "o", "r">>,
     <<"github.com", "o", "r", "blob", "dev", "b", "m">>,
     <<"gitlab.com", "o", "r", "-", "blob", "dev", "b", "m">>}
GitPart == INSTANCE Git WITH
    Requests <-
        {GitRequest(op, form, r, b, q) :
            op \in {"file", "repo", "tree", "commits", "search"}, form \in {"url", "repo"},
            r \in GitRefs, b \in {"", "dev"}, q \in {<<>>, <<"b", "m">>}},
    Dotted <- {"github.com", "gitlab.com"}, Project <- <<"o", "r">>,
    Branches <- {"dev"}, DefaultBranch <- "dev",
    Lines <- (<<"a", "m">> :> <<1, 1>>) @@ (<<"b", "m">> :> <<3, 5, 0, 9>>),
    Commits <- (<<"b", "m">> :> <<"c3", "c2", "c1">>),
    FilesOf <-
        ("c1" :> <<[name |-> <<"a", "m">>, patch |-> TRUE],
                   [name |-> <<"b", "m">>, patch |-> TRUE]>>) @@
        ("c2" :> <<[name |-> <<"x">>, patch |-> TRUE],
                   [name |-> <<"b", "m">>, patch |-> FALSE]>>) @@
        ("c3" :> <<[name |-> <<"x">>, patch |-> FALSE],
                   [name |-> <<"b", "m">>, patch |-> TRUE]>>),
    MaxTroubles <- 2,
    request <- v1, left <- v2, at <- v3, ref <- v4, tries <- v5, answer <- v6,
    file <- v7, patch <- v8, entries <- v9, shown <- v10, outcome <- v11,
    troubles <- v12

(***************************************************************************)
(* JSON: an object of two members, the first with awkward values, the      *)
(* second with awkward keys as well; and arrays of two.                    *)
(***************************************************************************)
JString(s) == [t |-> "string", s |-> s]
JRaw == [t |-> "raw", s |-> <<"1">>]
JArray(e) == [t |-> "array", e |-> e]
JObject(m) == [t |-> "object", m |-> m]
JKeys == {<<"k">>, <<"\"", "k">>}
JStrings ==
    {<<>>, <<"\"", "k", "\"", ":">>, <<"}", ",">>, <<"\\">>, <<"]", "\"">>,
     <<"newline", "backspace">>, <<"accent">>}
JScalars == {JString(s) : s \in JStrings} \cup {JRaw}
JValues ==
    JScalars \cup {JArray(<<>>), JArray(<<JRaw, JArray(<<JRaw>>)>>)}
    \cup {JArray(<<v>>) : v \in JScalars} \cup {JObject(<< <<<<"k">>, v>> >>) : v \in JScalars}
JsonPart == INSTANCE Json WITH
    None <- None,
    Documents <-
        {[program |-> p, doc |-> JObject(m), key |-> <<"k">>, blanks |-> b] :
            p \in {"exo", "core", "qms"}, b \in BOOLEAN,
            m \in {<<>>} \cup {<< <<j, v>> >> : j \in JKeys, v \in JValues}
                  \cup {<< <<<<"m">>, v>>, <<j, w>> >> : j \in JKeys, v, w \in JValues}}
        \cup {[program |-> "array", doc |-> JArray(e), key |-> <<>>, blanks |-> b] :
                 b \in BOOLEAN, e \in {<<>>} \cup {<<v, w>> : v, w \in JValues}},
    asked <- v1, text <- v2, at <- v3, got <- v4

KeysPart == INSTANCE Keys WITH
    Names <- {"k1", "k2"}, Procs <- {"p1", "p2", "p3"}, NoFile <- None,
    lines <- v1, path <- v2, temp <- v3, run <- v4, granted <- v5, doubtful <- v6

BackupPart == INSTANCE Backup WITH
    Keys <- {"a", "b"}, Threads <- {"t"}, Keep <- 1, MaxChanges <- 3,
    MaxBackups <- 1, MaxFiles <- 2,
    files <- v1, size <- v2, past <- v3, th <- v4, dir <- v5, made <- v6

(* three entries of an agent's log, the last as long as the first two *)
EntryOf(l, s) == [line |-> l, size |-> s]
ContextPart == INSTANCE Context WITH
    Entry <- <<EntryOf("a", 1), EntryOf("b", 1), EntryOf("none", 2)>>,
    NoLine <- "none", Threads <- {"t1", "t2"}, Budget <- 1, MaxLines <- 3,
    Lines <- 4, MaxAsks <- 2,
    next <- v1, log <- v2, summary <- v3, th <- v4, asks <- v5, excused <- v6

RequestPart == INSTANCE Request WITH
    Eols <- {<<"r", "n">>, <<"n">>},
    Headers <- {<<>>, <<"c">>, <<"h", "c">>, <<"c", "h">>, <<"h", "h", "c">>},
    Lengths <- {0, 1, 2, 4}, Sent <- 0..3, MaxHeaders <- 12, MaxBody <- 3,
    daemon <- v1, request <- v2, arrived <- v3, open <- v4, n <- v5,
    hdrEnd <- v6, result <- v7

PagesPart == INSTANCE Pages WITH
    Keys <- 1..5, InProject <- {1, 4}, Score <- <<1, 0, 2, 2, 1>>,
    Limits <- 1..3, MaxLimit <- 2, DefaultLimit <- 1, MaxQuery <- 4,
    MaxWrites <- 3,
    ts <- v1, writes <- v2, mode <- v3, limit <- v4, offset <- v5, got <- v6,
    whole <- v7, changes <- v8, done <- v9
-----------------------------------------------------------------------------
MCInit ==
    \/ Init
    \/ part = "robots" /\ RobotsPart!Init /\ None4
    \/ part = "git" /\ GitPart!Init /\ None12
    \/ part = "json" /\ JsonPart!Init /\ None4
    \/ part = "kit" /\ KitPart!Init /\ None7
    \/ part = "docs" /\ DocsPart!Init /\ None9
    \/ part = "keys" /\ KeysPart!Init /\ None6
    \/ part = "backup" /\ BackupPart!Init /\ None6
    \/ part = "context" /\ ContextPart!Init /\ None6
    \/ part = "request" /\ RequestPart!Init /\ None7
    \/ part = "pages" /\ PagesPart!Init /\ None9

MCNext ==
    \/ Next
    \/ /\ UNCHANGED part
       /\ \/ part = "robots" /\ RobotsPart!Next /\ Same4
          \/ part = "git" /\ GitPart!Next /\ Same12
          \/ part = "json" /\ JsonPart!Next /\ Same4
          \/ part = "kit" /\ KitPart!Next /\ Same7
          \/ part = "docs" /\ DocsPart!Next /\ Same9
          \/ part = "keys" /\ KeysPart!Next /\ Same6
          \/ part = "backup" /\ BackupPart!Next /\ Same6
          \/ part = "context" /\ ContextPart!Next /\ Same6
          \/ part = "request" /\ RequestPart!Next /\ Same7
          \/ part = "pages" /\ PagesPart!Next /\ Same9

MCSpec == MCInit /\ [][MCNext]_vars

-----------------------------------------------------------------------------
(***************************************************************************)
(* Answers: requests are read the same however they arrive (Request); what *)
(* is taken out of one in JSON is what it says (Json); long answers can be *)
(* had page by page (Pages); the rules of a robots.txt are those it says   *)
(* (Robots); and what a host of repositories says is told (Git).           *)
(***************************************************************************)
AnswersRight ==
    /\ part = "request" =>
        RequestPart!CutsDoNotMatter /\ RequestPart!BodyIsComplete
    /\ part = "pages" => PagesPart!PagesExact /\ PagesPart!PagesComplete
    /\ part = "json" => JsonPart!FindsMeant /\ JsonPart!StringsInOrder
    /\ part = "robots" => RobotsPart!DeniedAsWritten /\ RobotsPart!DelayHeard
    /\ part = "git" =>
        GitPart!EntriesTrue /\ GitPart!WithinMax /\ GitPart!NamedFileFound

(***************************************************************************)
(* What is kept is what was said to be: the keys in the keys file (Keys),  *)
(* a backup, which loads as a state the store was in (Backup), and what an *)
(* agent decided, which its digest shows (Context).                        *)
(***************************************************************************)
KeptAsSaid ==
    /\ part = "keys" => KeysPart!KeysAsSaid
    /\ part = "backup" => BackupPart!BackupIsState
    /\ part = "context" =>
        /\ ContextPart!NothingForgotten
        /\ ContextPart!NewestKept
        /\ ContextPart!DigestComplete

(***************************************************************************)
(* Git: what README.md of exogit promises and its code does not do.        *)
(***************************************************************************)
GitOwnChanges == part = "git" => GitPart!OwnChanges
GitFoundByUrl == part = "git" => GitPart!FoundByUrl

(***************************************************************************)
(* Qms: what README.md and standard.md of exoqms promise of the audit      *)
(* trail and its code does not do: a note has the status before and the    *)
(* one after, and no change is answered without its note.                  *)
(***************************************************************************)
QmsTrailExact == part = "qms" => QmsPart!TrailExact
QmsNoted == [][part = "qms" => QmsPart!NotedStep]_vars

(***************************************************************************)
(* Audits: what a passed audit of a kit (Kit) or of a component's README   *)
(* (Docs) vouches for.                                                     *)
(***************************************************************************)
AuditsVouch ==
    /\ part = "kit" => KitPart!AuditVouches
    /\ part = "docs" => DocsPart!AuditVouches
=============================================================================
