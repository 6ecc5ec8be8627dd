------------------------------- MODULE FsUtil -------------------------------
(***************************************************************************)
(* linux/fsutil.cpp: a thread calls the functions that list, create, touch *)
(* and remove, one call after another, while other threads and processes   *)
(* create and remove the same files.  Nothing locks a directory, so every  *)
(* call of the system is a step of its own.                                *)
(*                                                                         *)
(* The tree is one directory and its entries; a path is the sequence of    *)
(* characters of a name, or <<>> for the directory itself, whose own       *)
(* parent always exists.  An entry that is a directory stays empty.        *)
(***************************************************************************)
EXTENDS Naturals, Sequences, SequencesExt

CONSTANTS Name,       \* names an entry of the directory may have
          Above,      \* the path of an entry up to its name: the caller's and a /
          Pattern,    \* patterns and extensions that callers look for
          Lower,      \* Lower[c]: the lower case of each character c that has one
          Malformed,  \* the patterns of which std::regex cannot be made
          Matches,    \* Matches[p]: the names that a regular expression p matches
          Changes     \* bound on the changes that others make

Dir  == <<>>
Path == Name \cup {Dir}

\* Characters that wildcardToRegex passes on and std::regex takes for its own.  What
\* a pattern with one of them means is given by Malformed and Matches.
Special == {"+", "(", ")", "[", "]", "{", "}", "^", "$", "|", "\\"}

Literal(pattern) == ToSet(pattern) \cap Special = {}

ASSUME NameAssumption ==
    /\ Dir \notin Name /\ Changes \in Nat
    /\ \A s \in Name \cup Pattern \cup {Above} : s \in Seq(STRING)
    /\ Above # <<>> /\ Last(Above) = "/"
    /\ \A name \in Name : "/" \notin ToSet(name)
    /\ \A p \in Malformed : ~Literal(p)

VARIABLES
    node,       \* node[p] \in {"none", "file", "dir"}
    data,       \* the files that hold something
    stage, called, arg,
    must, may,  \* the directory stream: the <<name, kind>> it has to return, and may
    live,       \* the stream is one of the directory now at Dir
    todo,       \* the directories still to be made
    list,       \* what a listing has found
    outcome,     \* "ok" for 0 and for a list, "error", "throws" or "terminates"
    was,        \* history: the kinds each path has had during the call
    changes     \* history: how often others have changed the tree

treeVars   == <<node, data, was>>
streamVars == <<must, may, live>>
locals     == <<streamVars, todo>>
argVars   == <<called, arg>>
fsVars == <<treeVars, locals, argVars, stage, list, outcome, changes>>

Listing == {"getSubdirs", "getFiles", "getFilesMatching", "getFilesWithExtention"}
Changing == {"mkdir", "mkdir_p", "touch", "removeFile", "removeDir"}
Kinds   == {"none", "file", "dir"}

TreeInit ==
    /\ node = [p \in Path |-> "none"] /\ data = {}
    /\ stage = "idle" /\ called = "removeDir" /\ arg = Dir
    /\ must = {} /\ may = {} /\ live = FALSE
    /\ todo = <<>> /\ list = <<>> /\ outcome = "ok"
    /\ was = [p \in Path |-> {"none"}]
    /\ changes = 0

-----------------------------------------------------------------------------
(* The tree                                                                *)

HasParent(p) == p = Dir \/ node[Dir] = "dir"

Empty(p) == p = Dir => \A n \in Name : node[n] = "none"

\* p becomes of kind k.  A stream of the directory may return what comes and
\* need no longer return what goes; the stream of a removed directory is dead.
Change(p, k) ==
    /\ node' = [node EXCEPT ![p] = k]
    /\ was' = IF stage = "idle" THEN was ELSE [was EXCEPT ![p] = @ \cup {k}]
    /\ live' = (live /\ p # Dir)
    /\ must' = {e \in must : e[1] # p}
    /\ may' = may \cup {e \in must : e[1] = p}
                  \cup {e \in {<<p, k>>} : live /\ k # "none"}

Others ==
    /\ changes < Changes
    /\ changes' = changes + 1
    /\ UNCHANGED <<argVars, stage, todo, list, outcome>>

OthersCreate(p, k) ==
    /\ node[p] = "none" /\ HasParent(p)
    /\ Change(p, k)
    /\ data' = IF k = "file" THEN data \cup {p} ELSE data
    /\ Others

OthersRemove(p) ==
    /\ node[p] # "none" /\ Empty(p)
    /\ Change(p, "none")
    /\ data' = data \ {p}
    /\ Others

-----------------------------------------------------------------------------
(* The calls                                                               *)

Entry(f) ==
    CASE f \in Listing \cup {"touch"} -> "exists"
      [] f = "mkdir"                  -> "make"
      [] f = "mkdir_p"                -> "status"
      [] f = "removeFile"             -> "remove"
      [] f = "removeDir"              -> "opendir"

Invoke(f, a) ==
    /\ stage = "idle"
    /\ called' = f /\ arg' = a
    /\ stage' = Entry(f)
    /\ todo' = IF f = "mkdir" THEN <<a>> ELSE <<>>
    /\ list' = <<>>
    /\ was' = [p \in Path |-> {node[p]}]
    /\ UNCHANGED <<node, data, streamVars, outcome, changes>>

CallAny ==
    \/ \E f \in Listing, a \in Pattern : Invoke(f, a)
    \/ \E f \in Changing, p \in Path : (f = "removeDir" => p = Dir) /\ Invoke(f, p)

\* The call returns, and its locals are gone.
Leave(r) ==
    /\ stage' = "idle" /\ outcome' = r
    /\ must' = {} /\ may' = {} /\ live' = FALSE
    /\ todo' = <<>>

Goto(label) == stage' = label /\ UNCHANGED <<locals, outcome>>

Aside == UNCHANGED <<treeVars, argVars, list, changes>>

\* hasDirectory is fs::exists and then fs::is_directory, each a stat of its own.
HasDirectory ==
    /\ called \in Listing
    /\ \/ stage = "exists" /\ IF node[Dir] = "none" THEN Leave("ok") ELSE Goto("is_directory")
       \/ stage = "is_directory" /\ IF node[Dir] # "dir" THEN Leave("ok") ELSE Goto("opendir")
    /\ Aside

\* std::regex throws regex_error, before the directory is opened.
BadPattern ==
    /\ called = "getFilesMatching" /\ arg \in Malformed
    /\ stage = "opendir"
    /\ Leave("throws")
    /\ Aside

\* directory_iterator(path): every entry there is now must come.
OpenDir ==
    /\ stage = "opendir"
    /\ node[Dir] = "dir"
    /\ ~(called = "getFilesMatching" /\ arg \in Malformed)
    /\ must' = {<<n, node[n]>> : n \in {m \in Name : node[m] # "none"}}
    /\ live' = TRUE
    /\ stage' = "first"
    /\ UNCHANGED <<may, todo, outcome>>
    /\ Aside

\* The iterator cannot be made: the directory has gone, or the system refuses to
\* open it or to read its first entry.  Only getFiles(path, pattern) passes no
\* error_code; the others return an empty list.
OpenFails ==
    /\ called \in Listing
    /\ stage \in {"opendir", "first"}
    /\ Leave(IF called = "getFilesMatching" THEN "throws" ELSE "ok")
    /\ Aside

\* Mutant of IterateFails: the error ends the loop, as the end of the directory does.
IterateFailsQuietly ==
    /\ called \in Listing
    /\ stage = "next"
    /\ Leave("ok")
    /\ Aside

\* operator++ of a range-based for throws, whatever the constructor was given;
\* getFilesWithExtention is noexcept.
IterateFails ==
    /\ called \in Listing
    /\ stage = "next"
    /\ Leave(IF called = "getFilesWithExtention" THEN "terminates" ELSE "throws")
    /\ Aside

\* What . matches in std::regex: any character that does not end a line.
AnyChar(c) == c \notin {"\n", "\r"}

\* With std::regex::icase two characters are the same if their lower cases are.
LowerCase(c) == IF c \in DOMAIN Lower THEN Lower[c] ELSE c

\* Mutant of Atom: the point of a pattern is not escaped.
AtomUnescaped(ch, c) == IF ch \in {"?", "."} THEN AnyChar(c) ELSE LowerCase(ch) = LowerCase(c)

\* A character of the pattern other than *, as wildcardToRegex translates it,
\* matches the character c of a name.
Atom(ch, c) == IF ch = "?" THEN AnyChar(c) ELSE LowerCase(ch) = LowerCase(c)

\* std::regex_match(name, wildcardToRegex(pattern)) for a literal pattern; reach[i]
\* has the lengths of the beginnings of the name that the first i characters match.
RegexMatch(pattern, name) ==
    LET reach[i \in 0..Len(pattern)] ==
            IF i = 0 THEN {0}
            ELSE IF pattern[i] = "*"
                 THEN {j \in 0..Len(name) :
                         \E k \in reach[i - 1] : k <= j /\ \A l \in k + 1 .. j : AnyChar(name[l])}
            ELSE {j \in 1..Len(name) : j - 1 \in reach[i - 1] /\ Atom(pattern[i], name[j])}
    IN  Len(name) \in reach[Len(pattern)]

Wanted == IF called = "getSubdirs" THEN "dir" ELSE "file"

\* An extension is compared with the end of the whole path, in its own case.
Fits(name) ==
    CASE called = "getFilesMatching" ->
             IF Literal(arg) THEN RegexMatch(arg, name) ELSE name \in Matches[arg]
      [] called = "getFilesWithExtention" ->
             LET path == Above \o name
             IN  /\ Len(path) >= Len(arg)
                 /\ SubSeq(path, Len(path) - Len(arg) + 1, Len(path)) = arg
      [] OTHER -> TRUE

\* readdir, and the kind of the entry: the one that readdir gave, or on file
\* systems that give none, what a stat finds now.  (A change between the two is
\* a change before both.)
ListEntry ==
    /\ called \in Listing
    /\ stage \in {"first", "next"}
    /\ \E e \in must \cup may : \E kind \in {e[2], node[e[1]]} :
          /\ must' = must \ {e} /\ may' = may \ {e}
          /\ list' = IF kind = Wanted /\ Fits(e[1]) THEN Append(list, e[1]) ELSE list
    /\ stage' = "next"
    /\ UNCHANGED <<treeVars, argVars, live, todo, outcome, changes>>

\* readdir has no more entries.
ListReturn ==
    /\ called \in Listing
    /\ stage \in {"first", "next"} /\ must = {}
    /\ Leave("ok")
    /\ Aside

-----------------------------------------------------------------------------
(* mkdir and mkdir_p                                                       *)

\* fs::create_directories: the status of the path and, if there is nothing, of
\* its parent; todo is the stack of what is missing.
MkdirStatus ==
    /\ stage = "status"
    /\ CASE node[arg] = "dir"  -> Leave("ok")
         [] node[arg] = "file" -> Leave("error")
         [] OTHER -> /\ stage' = IF arg = Dir THEN "make" ELSE "parent"
                     /\ todo' = <<arg>>
                     /\ UNCHANGED <<streamVars, outcome>>
    /\ Aside

MkdirParent ==
    /\ stage = "parent"
    /\ CASE node[Dir] = "file" -> Leave("error")
         [] node[Dir] = "dir"  -> Goto("make")
         [] OTHER -> /\ stage' = "make"
                     /\ todo' = <<Dir, arg>>
                     /\ UNCHANGED <<streamVars, outcome>>
    /\ Aside

\* Head(todo) is a directory.
Made ==
    IF Len(todo) = 1 THEN Leave("ok")
    ELSE stage' = "make" /\ todo' = Tail(todo) /\ UNCHANGED <<streamVars, outcome>>

\* mkdir(2)
MakeDir ==
    /\ stage = "make"
    /\ node[Head(todo)] = "none" /\ HasParent(Head(todo))
    /\ Change(Head(todo), "dir")
    /\ Made
    /\ UNCHANGED <<data, argVars, list, changes>>

\* mkdir(2) finds something: a directory is as good as a new one.
MakeDirExists ==
    /\ \/ stage = "make" /\ node[Head(todo)] # "none" /\ Goto("is_made")
       \/ stage = "is_made" /\ node[Head(todo)] = "dir" /\ Made
    /\ Aside

\* There is no parent, no directory, or the system refuses.
MakeDirFails ==
    /\ stage = "make" \/ (stage = "is_made" /\ node[Head(todo)] # "dir")
    /\ Leave("error")
    /\ Aside

-----------------------------------------------------------------------------
(* touch                                                                   *)

\* Mutant of TouchExists: the file is always opened for writing.
TouchBlindly ==
    /\ called = "touch" /\ stage = "exists"
    /\ Goto("create")
    /\ Aside

TouchExists ==
    /\ called = "touch" /\ stage = "exists"
    /\ Goto(IF node[arg] = "none" THEN "create" ELSE "utime")
    /\ Aside

\* std::ofstream file(path) creates the file, or empties one made since the test.
TouchCreate ==
    /\ stage = "create"
    /\ node[arg] # "dir" /\ HasParent(arg)
    /\ IF node[arg] = "none" THEN Change(arg, "file") ELSE UNCHANGED <<node, was>>
    /\ data' = data \ {arg}
    /\ Leave("ok")
    /\ UNCHANGED <<argVars, list, changes>>

\* Mutant of OpenResult: the stream is not tested.
OpenUntested == "ok"

OpenResult == "error"

\* It cannot be opened for writing.
TouchCreateFails ==
    /\ stage = "create"
    /\ Leave(OpenResult)
    /\ Aside

\* fs::last_write_time fails when there is nothing, or on somebody else's file.
TouchTime ==
    /\ stage = "utime"
    /\ \/ node[arg] # "none" /\ Leave("ok")
       \/ Leave("error")
    /\ Aside

-----------------------------------------------------------------------------
(* removeFile and removeDir                                                *)

\* fs::remove removes a file or an empty directory; nothing there is no error.
RemovePath ==
    /\ stage = "remove"
    /\ Empty(arg)
    /\ IF node[arg] = "none" THEN UNCHANGED <<node, was>> ELSE Change(arg, "none")
    /\ data' = data \ {arg}
    /\ Leave("ok")
    /\ UNCHANGED <<argVars, list, changes>>

\* The directory is not empty, or the system refuses to open, read or remove.
RemoveFails ==
    /\ stage = "remove" \/ (called = "removeDir" /\ stage \in {"opendir", "first"})
    /\ Leave("error")
    /\ Aside

\* fs::remove_all of a directory removes what its stream returns, and nothing
\* when there is no such entry any more ...
RemoveEntry ==
    /\ called = "removeDir" /\ stage = "first"
    /\ \E e \in must \cup may :
          /\ must' = must \ {e} /\ may' = may \ {e}
          /\ node' = IF live THEN [node EXCEPT ![e[1]] = "none"] ELSE node
          /\ was' = IF live THEN [was EXCEPT ![e[1]] = @ \cup {"none"}] ELSE was
          /\ data' = IF live THEN data \ {e[1]} ELSE data
    /\ UNCHANGED <<argVars, stage, live, todo, list, outcome, changes>>

\* ... and then the directory itself, or at once what is not a directory.
RemoveLast ==
    /\ called = "removeDir"
    /\ \/ stage = "first" /\ must = {}
       \/ stage = "opendir" /\ node[Dir] # "dir"
    /\ stage' = "remove"
    /\ must' = {} /\ may' = {} /\ live' = FALSE
    /\ UNCHANGED <<todo, outcome>>
    /\ Aside

-----------------------------------------------------------------------------
FsStep ==
    \/ HasDirectory \/ BadPattern \/ OpenDir \/ OpenFails \/ ListEntry \/ IterateFails \/ ListReturn
    \/ MkdirStatus \/ MkdirParent \/ MakeDir \/ MakeDirExists \/ MakeDirFails
    \/ TouchExists \/ TouchCreate \/ TouchCreateFails \/ TouchTime
    \/ RemovePath \/ RemoveFails \/ RemoveEntry \/ RemoveLast

OthersStep ==
    \/ \E p \in Path, k \in {"file", "dir"} : OthersCreate(p, k)
    \/ \E p \in Path : OthersRemove(p)

\* (Where a call ended the program, the next call is by a new one.)
TreeNext ==
    \/ CallAny
    \/ FsStep
    \/ OthersStep

TreeSpec == TreeInit /\ [][TreeNext]_fsVars

-----------------------------------------------------------------------------
(* Properties                                                              *)

TreeTypeOK ==
    /\ node \in [Path -> Kinds]
    /\ \A n \in Name : node[n] # "none" => node[Dir] = "dir"
    /\ data \subseteq {p \in Path : node[p] = "file"}
    /\ stage \in {"idle", "exists", "is_directory", "opendir", "first", "next", "status",
               "parent", "make", "is_made", "create", "utime", "remove"}
    /\ called \in Listing \cup Changing
    /\ arg \in IF called \in Listing THEN Pattern ELSE Path
    /\ must \subseteq Name \X {"file", "dir"} /\ may \subseteq Name \X {"file", "dir"}
    /\ live \in BOOLEAN /\ (live => node[Dir] = "dir")
    /\ todo \in Seq(Path)
    /\ list \in Seq(Name)
    /\ outcome \in {"ok", "error", "throws", "terminates"}
    /\ was \in [Path -> SUBSET Kinds]
    /\ changes \in 0..Changes

\* What a wildcard means: the name can be cut so that each piece belongs to one
\* character of the pattern, * to any piece, ? to one character, others to
\* themselves in upper or lower case.
Glob(pattern, name) ==
    \E cut \in [0..Len(pattern) -> 0..Len(name)] :
        /\ cut[0] = 0 /\ cut[Len(pattern)] = Len(name)
        /\ \A i \in 1..Len(pattern) :
              IF pattern[i] = "*" THEN cut[i - 1] <= cut[i]
              ELSE /\ cut[i] = cut[i - 1] + 1
                   /\ pattern[i] # "?" => LowerCase(pattern[i]) = LowerCase(name[cut[i]])

\* Listings whose argument is a wildcard or an extension and nothing more: no
\* character of regular expressions in the one, no part of a path in the other.
Simple ==
    /\ called = "getFilesMatching" => Literal(arg)
    /\ called = "getFilesWithExtention" => "/" \notin ToSet(arg)

OneLine(name) == \A i \in 1..Len(name) : AnyChar(name[i])

Asked(name) ==
    CASE called = "getFilesMatching"      -> Glob(arg, name)
      [] called = "getFilesWithExtention" -> IsSuffix(arg, name)
      [] OTHER                        -> TRUE

Listed == stage = "idle" /\ called \in Listing /\ outcome = "ok"

\* The filter takes what a wildcard or an extension asks for, of names that are one
\* line.  (Patterns with characters of regular expressions, which the code does not
\* escape, are not wildcards: they throw or mean something else.)  For any pattern,
\* every name in a list passed the filter and was, during the call, an entry of the
\* kind wanted, whatever came and went in the meantime.
ListingSound ==
    Listed => /\ Simple => \A n \in Name : OneLine(n) => (Fits(n) <=> Asked(n))
              /\ \A n \in ToSet(list) : Fits(n) /\ Wanted \in was[n]

\* A list is everything or nothing: unless it is empty (an error on opening looks
\* like that) it has every entry asked for that was there during the whole call.
ListingComplete ==
    Listed => \/ list = <<>>
              \/ \A n \in Name : (Fits(n) /\ was[n] = {Wanted}) => n \in ToSet(list)

\* What the call was to bring about was so at some moment of it.
Achieved ==
    CASE called \in {"mkdir", "mkdir_p"}        -> "dir" \in was[arg]
      [] called = "touch"                       -> was[arg] \cap {"file", "dir"} # {}
      [] called \in {"removeFile", "removeDir"} -> "none" \in was[arg]

\* A call that returns 0 has done, or found done, what it was to do, though
\* others may have undone it since.
ZeroMeansDone == (stage = "idle" /\ called \notin Listing /\ outcome = "ok") => Achieved

\* touch empties a file only if there was none when the call began, or none for
\* a moment of it: one that others created between its two steps.
TouchKeepsData ==
    [][\A p \in Path : (p \in data \ data' /\ node'[p] = "file") => "none" \in was[p]]_fsVars

=============================================================================
