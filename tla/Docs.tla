-------------------------------- MODULE Docs --------------------------------
(***************************************************************************)
(* exodoc (src/exodoc/src): audits of the components' README files against *)
(* the rules of standard.md and against the running daemons, and what they *)
(* leave in exomind.                                                       *)
(*                                                                         *)
(* A document is a sequence of lines; a line has a kind, for headings a    *)
(* level and the stems its words begin with, and the tokens in it an audit *)
(* looks for: commands, endpoints and version numbers, each in one of the  *)
(* forms in which people write it.                                         *)
(***************************************************************************)
EXTENDS Integers, Sequences, FiniteSets, SequencesExt

CONSTANTS
    None,         \* no document, answer or version
    Auditors,     \* processes
    Scenarios,    \* what a behaviour is about, see Init
    MaxComps,     \* NCOMP_MAX
    MaxHeadings,  \* headings of a document that are looked at
    MaxEps,       \* NEP_MAX
    MaxTime       \* bound: the clock, in seconds

VARIABLES
    manifest,     \* the lines of docs/stack.tsv
    document,     \* the document of each component, or None
    daemon,       \* what GET / answers, as tokens, or None when it is down
    next,         \* what it answers after its next restart
    binary,       \* what build/<name> --version prints, or None
    troubles,     \* how many more calls may go wrong
    th,           \* the state of each auditor
    stored,       \* exomind: the keys exodoc:audit:<ts>:<component>
    clock

vars == <<manifest, document, daemon, next, binary, troubles, th, stored, clock>>

Idle == [at |-> "idle", live |-> FALSE, todo |-> <<>>, spec |-> None,
         whole |-> TRUE, served |-> <<>>, results |-> <<>>, ts |-> 0,
         saved |-> 0, warned |-> FALSE]

Init ==
    /\ \E s \in Scenarios :
        /\ manifest = s.manifest /\ document \in s.documents
        /\ daemon \in s.daemons /\ next = s.next /\ binary \in s.binaries
        /\ troubles = s.troubles
        /\ th \in {[a \in Auditors |->
                      [Idle EXCEPT !.at = IF a \in s.auditors THEN "idle" ELSE "off"]]}
    /\ stored = [k \in {} |-> 0]
    /\ clock = 1

-----------------------------------------------------------------------------
(***************************************************************************)
(* manifest_parse: comments are left out, lines with too few fields or a   *)
(* bad port too, and so is, without a word, what comes behind the last     *)
(* component there is room for.  A component without a port has no daemon. *)
(***************************************************************************)
IsComponent(line) == line.kind = "entry" /\ line.fields >= 3 /\ line.port # "bad"

Components ==
    LET valid == SelectSeq(manifest, IsComponent)
    IN  SubSeq(valid, 1, IF Len(valid) < MaxComps THEN Len(valid) ELSE MaxComps)

-----------------------------------------------------------------------------
(* Reading a document *)

(***************************************************************************)
(* count_headings does not know of code blocks: a shell comment in one is  *)
(* a heading of the first level.                                           *)
(***************************************************************************)
LooksLikeHeading(line) == line.kind \in {"heading", "comment"}

Headings(d) ==
    {h \in DOMAIN d :
        /\ LooksLikeHeading(d[h])
        /\ Cardinality({k \in 1..h : LooksLikeHeading(d[k])}) <= MaxHeadings}

(* section_range: up to the next heading of the same or a higher level *)
Section(d, h) ==
    LET above == {k \in Headings(d) : k > h /\ d[k].level <= d[h].level}
    IN  (h + 1)..(IF above = {} THEN Len(d) ELSE Min(above) - 1)

Synonyms ==
    [build |-> {"build", "quickstart"},
     run |-> {"run", "usage", "quickstart"},
     api |-> {"api", "endpoint"},
     state |-> {"internals", "architecture", "design", "durability",
                "storage", "state", "data model"},
     tests |-> {"test"},
     honesty |-> {"limitation", "roadmap"}]
SectionIds == DOMAIN Synonyms

(* heading_matches, on headings of the second and third level *)
Matching(d, s) ==
    {h \in Headings(d) : d[h].level \in {2, 3} /\ d[h].words \cap Synonyms[s] # {}}

TokensOf(d, lines) ==
    FlattenSeq([i \in 1..Cardinality(lines) |-> d[Min(lines) + i - 1].tokens])

(***************************************************************************)
(* collect_endpoints: tables, inline code, queries and punctuation do not  *)
(* matter, long paths are left out, an endpoint is taken once, and there   *)
(* is room for the first MaxEps.                                           *)
(***************************************************************************)
IsEp(token) == token.kind = "ep" /\ token.form # "long"

EpsUpTo(tokens, n) == {tokens[i].of : i \in {j \in 1..n : IsEp(tokens[j])}}
Eps(tokens) ==
    {tokens[i].of : i \in {j \in DOMAIN tokens :
        IsEp(tokens[j]) /\ Cardinality(EpsUpTo(tokens, j - 1)) < MaxEps}}

DocEps(d) ==
    IF Matching(d, "api") = {} THEN {}
    ELSE Eps(TokensOf(d, Section(d, Min(Matching(d, "api")))))

(* scan_version: the first token that is no address, date or part of a word *)
IsVersion(token) == token.kind = "version" /\ token.form \in {"v", "plain"}

VersionIn(tokens) ==
    IF ~\E i \in DOMAIN tokens : IsVersion(tokens[i]) THEN None
    ELSE tokens[Min({i \in DOMAIN tokens : IsVersion(tokens[i])})].of

DocVersion(d) == VersionIn(TokensOf(d, DOMAIN d))

-----------------------------------------------------------------------------
(* do_doc_checks *)

Verdict(ok) == IF ok THEN "pass" ELSE "fail"

(***************************************************************************)
(* Purpose: the first heading of the first level names the component, and  *)
(* the first line behind it that begins with text, a heading among them,   *)
(* comes before the second heading of the document.  The line that opens a *)
(* code block is passed over, what is in the block is not.                 *)
(***************************************************************************)
Begins(line) == line.kind \in {"heading", "comment", "text", "code"}

Purpose(d, c) ==
    LET titles == {h \in Headings(d) : d[h].level = 1}
        intro == {i \in DOMAIN d : i > Min(titles) /\ Begins(d[i])}
        second == Headings(d) \ {Min(Headings(d))}
    IN  /\ titles # {}
        /\ c.name \in d[Min(titles)].words
        /\ intro # {}
        /\ second # {} => Min(intro) < Min(second)

Commands(c) == {k \in {"build", "tests"} : c[k]}

(* the first section with such a heading is the one that counts *)
SectionMet(d, s, c) ==
    /\ Matching(d, s) # {}
    /\ LET lines == Section(d, Min(Matching(d, s)))
       IN  /\ \E i \in lines : d[i].kind # "blank"
           /\ s \in Commands(c) =>
                \E i \in lines : [kind |-> "command", of |-> s] \in ToSet(d[i].tokens)

DocChecks(d, c) ==
    [k \in SectionIds \cup {"purpose", "version"} |->
        IF k = "purpose" THEN Verdict(Purpose(d, c))
        ELSE IF k = "version" THEN Verdict(DocVersion(d) # None)
        ELSE Verdict(SectionMet(d, k, c))]

With(checks, id, verdict) ==
    [k \in DOMAIN checks \cup {id} |-> IF k = id THEN verdict ELSE checks[k]]

Absent == With([k \in SectionIds \cup {"version"} |-> "fail"],
               "api-conformance", "skip")

-----------------------------------------------------------------------------
(* do_live_checks *)

(* without a daemon's answer there is nothing to compare with *)
Conformance(d, spec) ==
    IF spec = None THEN "skip" ELSE Verdict(Eps(spec) = DocEps(d))

(***************************************************************************)
(* The version of the binary, or when there is none or it did not answer,  *)
(* of the daemon.                                                          *)
(***************************************************************************)
VersionCheck(d, printed, spec) ==
    LET authority == IF printed # None THEN printed
                     ELSE IF spec # None THEN VersionIn(spec) ELSE None
    IN  IF DocVersion(d) = None THEN "fail"
        ELSE IF authority = None THEN "skip"
        ELSE Verdict(DocVersion(d) = authority)

-----------------------------------------------------------------------------
(* One audit_run *)

Component(a) == Head(th[a].todo)
Doc(a) == document[Component(a).name]

(* the component is done: the next one, or what --exomind asks for *)
Concluded(t, checks, printed) ==
    LET result == [of |-> Head(t.todo), checks |-> checks, live |-> t.live,
                   whole |-> t.whole, served |-> t.served, printed |-> printed]
    IN  [t EXCEPT !.results = Append(@, result), !.todo = Tail(@),
                  !.at = IF Len(t.todo) = 1 THEN "save" ELSE "read",
                  !.spec = None, !.whole = TRUE, !.served = <<>>]

Start(a, live) ==
    /\ th[a].at = "idle"
    /\ th' = [th EXCEPT ![a].live = live, ![a].todo = Components,
                        ![a].at = IF Components = <<>> THEN "save" ELSE "read"]
    /\ UNCHANGED <<manifest, document, daemon, next, binary, troubles, stored, clock>>

ReadDoc(a) ==
    /\ th[a].at = "read"
    /\ th' = [th EXCEPT ![a] =
        IF Doc(a) = None THEN Concluded(@, Absent, None)
        ELSE IF th[a].live /\ Component(a).port # "" THEN [@ EXCEPT !.at = "fetch"]
        ELSE Concluded(@, With(DocChecks(Doc(a), Component(a)),
                               "api-conformance", "skip"), None)]
    /\ UNCHANGED <<manifest, document, daemon, next, binary, troubles, stored, clock>>

(***************************************************************************)
(* fetch_spec: what there is of the body when the connection closes or is  *)
(* silent for five seconds is taken for all of it.                         *)
(***************************************************************************)
Fetch(a, n) ==
    /\ th[a].at = "fetch" /\ daemon # None /\ n \in 0..Len(daemon)
    /\ n < Len(daemon) => troubles > 0
    /\ troubles' = IF n < Len(daemon) THEN troubles - 1 ELSE troubles
    /\ th' = [th EXCEPT ![a].at = "binary", ![a].spec = SubSeq(daemon, 1, n),
                        ![a].whole = n = Len(daemon), ![a].served = daemon]
    /\ UNCHANGED <<manifest, document, daemon, next, binary, stored, clock>>

FetchFails(a) ==
    /\ th[a].at = "fetch"
    /\ \/ daemon = None /\ UNCHANGED troubles
       \/ daemon # None /\ troubles > 0 /\ troubles' = troubles - 1
    /\ th' = [th EXCEPT ![a].at = "binary"]
    /\ UNCHANGED <<manifest, document, daemon, next, binary, stored, clock>>

(***************************************************************************)
(* run_cmd_out: it gives nothing when the binary prints no version or      *)
(* takes too long; and when it has closed its output but is not gone at    *)
(* the one moment waitpid looks, it is killed and what it printed is lost. *)
(***************************************************************************)
RunBinary(a, printed) ==
    /\ th[a].at = "binary"
    /\ printed \in {None} \cup (IF DocVersion(Doc(a)) = None THEN {} ELSE {binary})
    /\ th' = [th EXCEPT ![a] =
        Concluded(@,
            With(With(DocChecks(Doc(a), Component(a)),
                      "api-conformance", Conformance(Doc(a), th[a].spec)),
                 "version", VersionCheck(Doc(a), printed, th[a].spec)),
            printed)]
    /\ UNCHANGED <<manifest, document, daemon, next, binary, troubles, stored, clock>>

-----------------------------------------------------------------------------
(***************************************************************************)
(* --exomind: one key for each component and second, then a note.  A call  *)
(* that fails is a warning and the next one is made.                       *)
(***************************************************************************)
CountOf(checks, verdict) == Cardinality({k \in DOMAIN checks : checks[k] = verdict})
Counts(checks) == [v \in {"pass", "fail", "skip"} |-> CountOf(checks, v)]

Stamp(a) ==
    /\ th[a].at = "save" /\ th[a].ts = 0
    /\ th' = [th EXCEPT ![a].ts = clock]
    /\ UNCHANGED <<manifest, document, daemon, next, binary, troubles, stored, clock>>

Result(a) == th[a].results[th[a].saved + 1]
Key(a) == <<th[a].ts, Result(a).of.name>>

Persist(a, ok, reaches) ==
    /\ th[a].at = "save" /\ th[a].ts > 0 /\ th[a].saved < Len(th[a].results)
    /\ ok => reaches
    /\ ~ok => troubles > 0
    /\ troubles' = IF ok THEN troubles ELSE troubles - 1
    /\ stored' = IF reaches THEN With(stored, Key(a), Counts(Result(a).checks))
                 ELSE stored
    /\ th' = [th EXCEPT ![a].saved = @ + 1, ![a].warned = @ \/ ~ok]
    /\ UNCHANGED <<manifest, document, daemon, next, binary, clock>>

(* the note with the totals, which may fail too *)
Finish(a) ==
    /\ th[a].at = "save" /\ th[a].ts > 0 /\ th[a].saved = Len(th[a].results)
    /\ th' = [th EXCEPT ![a].at = "done"]
    /\ UNCHANGED <<manifest, document, daemon, next, binary, troubles, stored, clock>>

-----------------------------------------------------------------------------
(* The rest of the world: the daemon goes down and comes up as the next one *)

Restart ==
    /\ troubles > 0 /\ troubles' = troubles - 1
    /\ daemon' = IF daemon = None THEN next ELSE None
    /\ UNCHANGED <<manifest, document, next, binary, th, stored, clock>>

Tick ==
    /\ clock < MaxTime /\ clock' = clock + 1
    /\ UNCHANGED <<manifest, document, daemon, next, binary, troubles, th, stored>>

Next ==
    \/ \E a \in Auditors :
        \/ \E live \in BOOLEAN : Start(a, live)
        \/ ReadDoc(a) \/ FetchFails(a) \/ Stamp(a) \/ Finish(a)
        \/ \E n \in 0..(IF daemon = None THEN 0 ELSE Len(daemon)) : Fetch(a, n)
        \/ \E printed \in {None, binary} : RunBinary(a, printed)
        \/ \E ok, reaches \in BOOLEAN : Persist(a, ok, reaches)
    \/ Restart \/ Tick

Spec == Init /\ [][Next]_vars

-----------------------------------------------------------------------------
(***************************************************************************)
(* What standard.md asks for, said without the auditor's way of looking:   *)
(* line i is in the section of heading h when no heading between them is   *)
(* as high as h, and headings are those an author wrote.                   *)
(***************************************************************************)
Real(d) == {h \in DOMAIN d : d[h].kind = "heading"}
Under(d, h, i) == h < i /\ ~\E k \in Real(d) : h < k /\ k <= i /\ d[k].level <= d[h].level

Candidates(d, s) ==
    {h \in Real(d) : d[h].level \in {2, 3} /\ d[h].words \cap Synonyms[s] # {}}

Sections(d, s, c) ==
    {h \in Candidates(d, s) :
        /\ \E i \in DOMAIN d : Under(d, h, i) /\ d[i].kind # "blank"
        /\ s \in Commands(c) =>
            \E i \in DOMAIN d :
                Under(d, h, i) /\ [kind |-> "command", of |-> s] \in ToSet(d[i].tokens)}

Served(tokens) == EpsUpTo(tokens, Len(tokens))
Documented(d, h) ==
    UNION {EpsUpTo(d[i].tokens, Len(d[i].tokens)) :
            i \in {j \in DOMAIN d : Under(d, h, j)}}

(* what the auditor takes for headings is what the author wrote *)
AllSeen(d) == Cardinality({i \in DOMAIN d : LooksLikeHeading(d[i])}) <= MaxHeadings
NoComment(d, levels) ==
    \A i \in DOMAIN d : d[i].kind = "comment" => d[i].level \notin levels
Plain(d) == AllSeen(d) /\ NoComment(d, 1..6)

Titled(d, c) ==
    \E t, i \in DOMAIN d :
        /\ d[t].kind = "heading" /\ d[t].level = 1 /\ c.name \in d[t].words
        /\ d[i].kind \in {"text", "code"} /\ t < i
        /\ \A k \in Real(d) : k >= t /\ (k > t => k > i)

Results == UNION {ToSet(th[a].results) : a \in Auditors}

(***************************************************************************)
(* Sections (src/exodoc/standard.md:20-51): a check that passed vouches    *)
(* for a section with the content asked for, whatever else is in the       *)
(* document, but for comments in code that look like a section; and in a   *)
(* plain document with one heading of the kind, one that failed says that  *)
(* there is none.  So does the check of the title.                         *)
(***************************************************************************)
SectionsVouched ==
    \A r \in Results :
        LET d == document[r.of.name]
        IN  d # None =>
            /\ \A s \in SectionIds :
                /\ r.checks[s] = "pass" /\ AllSeen(d) /\ NoComment(d, {2, 3}) =>
                    Sections(d, s, r.of) # {}
                /\ r.checks[s] = "fail" /\ Plain(d) /\ Cardinality(Candidates(d, s)) = 1 =>
                    Sections(d, s, r.of) = {}
            /\ Plain(d) => (r.checks["purpose"] = "pass" <=> Titled(d, r.of))

(***************************************************************************)
(* Endpoints and version (src/exodoc/standard.md:53-81): a live audit that *)
(* heard the daemon out and passes vouches that document and daemon have   *)
(* the same endpoints, as far as there is room to note them; the version   *)
(* is the binary's when the binary answered.                               *)
(***************************************************************************)
LiveVouched ==
    \A r \in Results :
        LET d == document[r.of.name]
        IN  /\ r.checks["api-conformance"] = "pass" =>
                /\ r.live /\ r.of.port # ""
                /\ r.whole /\ Plain(d) /\ Cardinality(Served(r.served)) <= MaxEps =>
                    IF Candidates(d, "api") = {} THEN Served(r.served) = {}
                    ELSE LET told == Documented(d, Min(Candidates(d, "api")))
                         IN  Cardinality(told) <= MaxEps => told = Served(r.served)
            /\ r.checks["version"] = "pass" /\ r.printed # None =>
                DocVersion(d) = r.printed

(***************************************************************************)
(* "each component's score is stored as exodoc:audit:<ts>:<component>"     *)
(* (src/exodoc/README.md:105-107): after an audit without a warning they   *)
(* are there as it printed them, unless another component or audit has the *)
(* same name in the same second.                                           *)
(***************************************************************************)
Owners(key) ==
    {<<a, i>> \in Auditors \X (1..MaxComps) :
        /\ th[a].ts = key[1]
        /\ i <= Len(th[a].results) /\ th[a].results[i].of.name = key[2]}

Recorded ==
    \A a \in Auditors : th[a].at = "done" /\ ~th[a].warned =>
        \A i \in DOMAIN th[a].results :
            LET key == <<th[a].ts, th[a].results[i].of.name>>
            IN  key \in DOMAIN stored
                /\ (Owners(key) = {<<a, i>>}
                    => stored[key] = Counts(th[a].results[i].checks))

AuditVouches == SectionsVouched /\ LiveVouched /\ Recorded
=============================================================================
