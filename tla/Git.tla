--------------------------------- MODULE Git ---------------------------------
(***************************************************************************)
(* One request of exogit (src/exogit/src): it finds out which repository   *)
(* is meant, asks GitHub or GitLab, through curl and with up to two more   *)
(* attempts, and for /commits asks again for each commit.                  *)
(*                                                                         *)
(* Buffers the code does not initialise hold what was there before: in the *)
(* handlers whatever the stack held (left), and in the loop over the files *)
(* of a commit, where they are declared anew for each file, either nothing *)
(* or what the file before left there.                                     *)
(***************************************************************************)
EXTENDS Integers, Sequences
LOCAL INSTANCE SequencesExt
LOCAL INSTANCE FiniteSetsExt

CONSTANTS
    Requests,       \* [op, form, ref, branch, path, token, max, linenos]
    Dotted,         \* the segments of a reference with a dot in them
    Project,        \* the repository there is: <<owner, name>>
    Branches, DefaultBranch,
    Lines,          \* the lengths of the lines of each of its files
    Commits,        \* the commits that touch a file, newest first
    FilesOf,        \* the files of a commit, in the order the host tells
                    \* them: [name, patch]
    MaxTroubles     \* attempts that fail although they need not

VARIABLES
    request,
    left,      \* what a buffer nobody wrote holds
    at,        \* parse, branch, main, next, detail, files, done
    ref,       \* [owner, repo, branch, path, gitlab]
    tries, answer,   \* of the call that is made
    file,      \* which file of the commit is looked at
    patch,     \* the buffer for its patch
    entries,   \* what the reply shows of each commit
    shown,     \* lines of the file
    outcome,   \* the status of the reply
    troubles

vars == <<request, left, at, ref, tries, answer, file, patch, entries, shown,
          outcome, troubles>>

NoPatch == <<"binary">>
NoRef == [owner |-> "", repo |-> <<>>, branch |-> "", path |-> <<>>, gitlab |-> FALSE]

Init ==
    /\ request \in Requests /\ left \in {"", "junk"}
    /\ at = "parse" /\ ref = NoRef
    /\ tries = 0 /\ answer = 0 /\ file = 0 /\ patch = NoPatch
    /\ entries = <<>> /\ shown = 0 /\ outcome = 0 /\ troubles = 0

-----------------------------------------------------------------------------
(* Which repository *)

Verbs == {"blob", "tree", "raw"}

(* [host/]owner/name[/[-/]verb]/branch/path *)
parse_repo_ref(segs) ==
    LET rest  == IF Head(segs) \in Dotted THEN Tail(segs) ELSE segs
        more  == SubSeq(rest, 3, Len(rest))
        verb  == CASE Len(more) > 1 /\ more[1] \in Verbs -> 1
                   [] Len(more) > 2 /\ more[1] = "-" /\ more[2] \in Verbs -> 2
                   [] OTHER -> 0
        where == SubSeq(more, verb + 1, Len(more))
    IN  [owner |-> rest[1], repo |-> SubSeq(rest, 2, 2),
         branch |-> IF where = <<>> THEN "" ELSE where[1],
         path |-> IF where = <<>> THEN <<>> ELSE Tail(where),
         gitlab |-> Head(segs) = "gitlab.com"]

(* as it is given; what is not given stays as it was *)
Named(segs) ==
    [owner |-> left, repo |-> segs, branch |-> left,
     path |-> IF left = "" THEN <<>> ELSE <<left>>, gitlab |-> FALSE]

LooksLikeUrl(segs) == Len(segs) > 1 /\ \E i \in DOMAIN segs : segs[i] \in Dotted

Given(old, new, none) == IF new = none THEN old ELSE new

(* /file, with url= and with repo= *)
FileRef(r) ==
    LET p == IF r.form = "url" THEN parse_repo_ref(r.ref)
             ELSE IF Len(r.ref) > 1
                  THEN [Named(Tail(r.ref)) EXCEPT !.owner = Head(r.ref)]
                  ELSE Named(r.ref)
    IN  [p EXCEPT !.branch = Given(@, r.branch, ""), !.path = Given(@, r.path, <<>>)]

(* /repo and /tree: path= is not read *)
ListRef(r) ==
    LET p == IF LooksLikeUrl(r.ref) THEN parse_repo_ref(r.ref) ELSE Named(r.ref)
    IN  [p EXCEPT !.branch = Given(@, r.branch, "")]

(* /commits: without resolve_default_branch *)
CommitsRef(r) ==
    LET p == ListRef(r)
    IN  [p EXCEPT !.path = r.path, !.branch = IF @ = "" THEN "main" ELSE @]

Refused(r) ==
    \/ r.op = "file" /\ r.form = "url" /\ Len(r.ref) < 2
    \/ r.op = "file" /\ r.form = "repo" /\ r.path = <<>>
    \/ r.op = "commits" /\ r.path = <<>>

Parse ==
    /\ at = "parse"
    /\ IF Refused(request) THEN at' = "done" /\ outcome' = 400 /\ UNCHANGED ref
       ELSE /\ UNCHANGED outcome
            /\ ref' = CASE request.op = "file" -> FileRef(request)
                        [] request.op \in {"repo", "tree"} -> ListRef(request)
                        [] request.op = "commits" -> CommitsRef(request)
                        [] OTHER -> NoRef
            /\ at' = IF request.op \in {"file", "repo", "tree"} /\ ref'.branch = ""
                     THEN "branch" ELSE "main"
    /\ UNCHANGED <<request, left, tries, answer, file, patch, entries, shown, troubles>>

-----------------------------------------------------------------------------
(* net_fetch *)

Whole == <<ref.owner>> \o ref.repo

(* the repository a call names *)
Asked ==
    IF ref.gitlab \/ (at = "main" /\ request.op = "file") THEN Whole ELSE ref.repo

(* for GitHub's list of commits the branch is left out *)
SendsBranch == request.op # "commits" \/ ref.gitlab

Exists ==
    \/ request.op = "search"
    \/ /\ Asked = Project
       /\ at = "main" /\ SendsBranch => ref.branch \in Branches
       /\ at = "main" /\ request.op = "file" => ref.path \in DOMAIN Lines
       /\ at = "main" /\ request.op = "repo" =>
             ref.path = <<>> \/ \E p \in DOMAIN Lines : IsStrictPrefix(ref.path, p)

Calling == at \in {"branch", "main", "detail"}

(* 0: curl fails and there is no body *)
Again ==
    \/ tries = 0
    \/ tries = 1 /\ answer = 429
    \/ tries = 2 /\ answer \notin {200, 404}

Attempt ==
    /\ Calling /\ Again
    /\ \E a \in {IF Exists THEN 200 ELSE 404, 403, 429, 0} :
        /\ troubles' = troubles + (IF a \in {403, 429, 0} THEN 1 ELSE 0)
        /\ troubles' <= MaxTroubles
        /\ IF a = 0 /\ tries > 0 THEN tries' = 3 /\ UNCHANGED answer
           ELSE /\ answer' = a
                /\ tries' = IF a = 0 THEN 3 ELSE tries + 1
    /\ UNCHANGED <<request, left, at, ref, file, patch, entries, shown, outcome>>

Answered == Calling /\ ~Again
Freed == tries' = 0 /\ answer' = 0   \* resp_free

-----------------------------------------------------------------------------
(* What is done with the answers *)

resolve_default_branch ==
    /\ Answered /\ at = "branch"
    /\ ref' = [ref EXCEPT !.branch = IF answer = 200 THEN DefaultBranch ELSE "main"]
    /\ at' = "main" /\ Freed
    /\ UNCHANGED <<request, left, file, patch, entries, shown, outcome, troubles>>

(* the lines that fit, each with its number and its end *)
Cost(lens, n, numbers) ==
    FoldLeft(+, 0, SubSeq(lens, 1, n)) + n * (1 + IF numbers THEN 7 ELSE 0)
Fitting(lens, r) ==
    Max({n \in 0..Len(lens) : Cost(lens, n, r.linenos) <= r.max})

(* a page of the web search is read whatever its status is *)
Usable ==
    \/ answer = 200
    \/ request.op = "search" /\ ~request.token /\ answer # 0

MainAnswered ==
    /\ Answered /\ at = "main"
    /\ at' = IF Usable /\ request.op = "commits" THEN "next" ELSE "done"
    /\ outcome' = IF Usable THEN 200 ELSE 502
    /\ shown' = IF Usable /\ request.op = "file"
                THEN Fitting(Lines[ref.path], request) ELSE 0
    /\ Freed
    /\ UNCHANGED <<request, left, ref, file, patch, entries, troubles>>

Listed == IF ref.path \in DOMAIN Commits THEN Commits[ref.path] ELSE <<>>
This == Listed[Len(entries) + 1]
Entry(what) == entries' = Append(entries, what)

NextCommit ==
    /\ at = "next"
    /\ at' = IF Len(entries) < Len(Listed) THEN "detail" ELSE "done"
    /\ UNCHANGED <<request, left, ref, tries, answer, file, patch, entries, shown, outcome,
                   troubles>>

(* GitLab's answer is an array, without "files" or "diffs" *)
DetailAnswered ==
    /\ Answered /\ at = "detail"
    /\ IF answer = 200 /\ ~ref.gitlab
       THEN at' = "files" /\ file' = 1 /\ UNCHANGED entries
       ELSE /\ at' = "next" /\ UNCHANGED file
            /\ Entry([sha |-> This, shows |-> <<IF answer = 200 THEN "nodiff" ELSE "failed">>])
    /\ Freed
    /\ UNCHANGED <<request, left, ref, patch, shown, outcome, troubles>>

Match(name) == name = ref.path \/ Last(name) = Last(ref.path)
Changes(sha, name) == <<sha, name>>

LookAtFile ==
    /\ at = "files" /\ file <= Len(FilesOf[This])
    /\ LET f == FilesOf[This][file]
       IN  /\ patch' \in IF f.patch THEN {Changes(This, f.name)} ELSE {patch, NoPatch}
           /\ IF Match(f.name)
              THEN at' = "next" /\ Entry([sha |-> This, shows |-> patch']) /\ UNCHANGED file
              ELSE file' = file + 1 /\ UNCHANGED <<at, entries>>
    /\ UNCHANGED <<request, left, ref, tries, answer, shown, outcome, troubles>>

NotAmongThem ==
    /\ at = "files" /\ file > Len(FilesOf[This])
    /\ at' = "next" /\ Entry([sha |-> This, shows |-> <<"absent">>])
    /\ UNCHANGED <<request, left, ref, tries, answer, file, patch, shown, outcome, troubles>>

Next ==
    \/ Parse \/ Attempt \/ resolve_default_branch \/ MainAnswered
    \/ NextCommit \/ DetailAnswered \/ LookAtFile \/ NotAmongThem

Spec == Init /\ [][Next]_vars

-----------------------------------------------------------------------------
(***************************************************************************)
(* /commits tells every commit once and in order; one that came is told    *)
(* with changes of its own, of the file that was asked for, if that is the *)
(* first of its name and has a patch; and nothing is "not in this commit"  *)
(* that is.                                                                *)
(***************************************************************************)
FilesNamed(sha) == SelectSeq(FilesOf[sha], LAMBDA f : Match(f.name))
EntriesTrue ==
    /\ Len(entries) <= Len(Listed)
    /\ at = "done" /\ outcome = 200 /\ request.op = "commits" => Len(entries) = Len(Listed)
    /\ \A i \in DOMAIN entries :
        LET sha == Listed[i]
            named == FilesNamed(sha)
        IN  /\ entries[i].sha = sha
            /\ entries[i].shows = <<"absent">> => named = <<>>
            /\ (/\ entries[i].shows \notin {<<"nodiff">>, <<"failed">>}
                /\ named # <<>> /\ Head(named) = [name |-> ref.path, patch |-> TRUE])
                   => entries[i].shows = Changes(sha, ref.path)

(***************************************************************************)
(* What an answer shows of a file stays below max=.                        *)
(***************************************************************************)
WithinMax ==
    shown > 0 => Cost(Lines[ref.path], shown, request.linenos) <= request.max

(***************************************************************************)
(* A file that is there is shown, however it is named, when its branch is  *)
(* named too and nothing goes wrong on the way.                            *)
(***************************************************************************)
NamedFileFound ==
    at = "done" /\ request.op = "file" /\ troubles = 0 /\ Whole = Project
        /\ ref.branch \in Branches /\ ref.path \in DOMAIN Lines
        => outcome = 200

(***************************************************************************)
(* What the README promises of /commits, the history of one file: changes  *)
(* that are shown are that file's.  The code also takes a file of the same *)
(* name in another directory, and a patch left by the file before.         *)
(***************************************************************************)
OwnChanges ==
    \A i \in DOMAIN entries :
        entries[i].shows \in {<<"nodiff">>, <<"failed">>, <<"absent">>, NoPatch,
                              Changes(entries[i].sha, ref.path)}

(***************************************************************************)
(* What it promises of references: a repository is found by its url as     *)
(* well as by its name.                                                    *)
(***************************************************************************)
FoundByUrl ==
    at = "done" /\ troubles = 0 /\ left = "" /\ Len(request.ref) > 1
        /\ request.op \in {"repo", "tree"} => outcome = 200
=============================================================================
