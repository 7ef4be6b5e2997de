-------------------------- MODULE DirectoryContent --------------------------
(***************************************************************************)
(* directory_content: contents by path, regex contents by prefix, the      *)
(* pointers they are and the shared pointers that keep them alive, and the *)
(* loading of a directory, whose entries come in any order and which can   *)
(* throw half way.                                                         *)
(*                                                                         *)
(* A path is a sequence of pieces, "/" or a name.  A file is a name and an *)
(* extension; a directory is the path it is loaded at.                     *)
(***************************************************************************)
EXTENDS Naturals, Sequences, FiniteSets, SequencesExt

CONSTANTS Shared,      \* contents the program adds, by shared_ptr
          SharedPaths, \* paths it gives them
          Regexes,     \* regex contents: records of a name and the rests their patterns match
          RegexPaths,  \* paths it gives them
          Requests,    \* paths that are asked for
          Trees,       \* sets of [dir, name, ext]: the files under the root
          Omits,       \* sets of extensions: directory_config::omit_extensions
          Public,      \* extensions of public_files
          IndexFiles,  \* a sequence of [name, ext]: index_files
          MaxAdds      \* bound on the contents added by the program

Root == <<"/">>

\* Separators and names by turns.
Directory(d) == d \in Seq(STRING) /\ Len(d) % 2 = 1 /\ \A i \in DOMAIN d : d[i] = "/" <=> i % 2 = 1

\* What the constants satisfy; assumed where they are given values.
DirectoryAssumption ==
  /\ MaxAdds \in Nat
  /\ RegexPaths \cup Requests \cup {Root} \subseteq Seq(STRING)
  /\ IndexFiles \in Seq([name : STRING, ext : STRING])
  /\ \A files \in Trees : \A f \in files :
       /\ f \in [dir : Seq(STRING), name : STRING, ext : STRING] /\ Directory(f.dir)
       /\ f \notin Shared /\ [moved |-> f.dir] \notin Shared

VARIABLES tree, omit,      \* what is loaded, and how
          contentMap,      \* content_map_: a function from paths
          regexMap,        \* regex_content_map_
          managed,         \* managed_contents_, a sequence
          frames,          \* load_directory() under way: [dir, files, dirs, index] per call
          state,           \* "adding", "loading", "loaded", "thrown"
          path, found      \* the last request, and the content called back

vars == <<tree, omit, contentMap, regexMap, managed, frames, state, path, found>>
None == [name |-> "none"]
NotFound == [content |-> None, at |-> <<>>]

Init == /\ tree \in Trees /\ omit \in Omits
        /\ contentMap = <<>> /\ regexMap = <<>> /\ managed = <<>> /\ frames = <<>>
        /\ state = "adding" /\ path = <<>> /\ found = NotFound

(***************************************************************************)
(* add.                                                                    *)
(***************************************************************************)
Valid(p) == p # <<>> /\ p[1] = "/"
Insert(map, p, c) == [q \in DOMAIN map \cup {p} |-> IF q = p THEN c ELSE map[q]]

\* Mutant of Erased: every pointer to the content is erased
ErasedAll(contents, c) == SelectSeq(contents, LAMBDA x : x # c)

\* The first pointer to the content.
Erased(contents, c) == LET i == CHOOSE i \in DOMAIN contents :
                                  contents[i] = c /\ \A j \in 1 .. i - 1 : contents[j] # c
                       IN RemoveAt(contents, i)

Taken(p) == p \in DOMAIN contentMap

\* The shared pointer is kept before the content is added, and erased if that throws.
Added(p, c) == IF Taken(p)
               THEN managed' = Erased(Append(managed, c), c) /\ UNCHANGED contentMap
               ELSE managed' = Append(managed, c) /\ contentMap' = Insert(contentMap, p, c)

Add == \E p \in SharedPaths, c \in Shared :
  /\ state = "adding" /\ Len(managed) < MaxAdds
  /\ IF Valid(p) THEN Added(p, c) ELSE UNCHANGED <<contentMap, managed>>
  /\ UNCHANGED <<tree, omit, regexMap, frames, state, path, found>>

AddRegex == \E p \in RegexPaths, r \in Regexes :
  /\ state \in {"loaded", "thrown"} /\ \A q \in DOMAIN regexMap : r \notin Range(regexMap[q])
  /\ Valid(p)
  /\ regexMap' = Insert(regexMap, p, (IF p \in DOMAIN regexMap THEN regexMap[p] ELSE <<>>) \o <<r>>)
  /\ UNCHANGED <<tree, omit, contentMap, managed, frames, state, path, found>>

(***************************************************************************)
(* load_directory.                                                         *)
(***************************************************************************)
Files(dir) == {f \in tree : f.dir = dir}
Subdirs(dir) == {SubSeq(f.dir, 1, Len(dir) + 2) :
                   f \in {g \in tree : Len(g.dir) > Len(dir) /\ IsPrefix(dir, g.dir)}}
Frame(dir) == [dir |-> dir, files |-> Files(dir), dirs |-> Subdirs(dir), index |-> None]
Top == Last(frames)

NodePath(f) == f.dir \o (IF f.ext \in omit THEN <<f.name>> ELSE <<f.name, f.ext>>)
Priorities(f) == {i \in DOMAIN IndexFiles : IndexFiles[i] = [name |-> f.name, ext |-> f.ext]}

\* find() gives the first place in index_files.
Better(f, index) == /\ Priorities(f) # {}
                    /\ index # None => \E i \in Priorities(f) : \A j \in Priorities(index) : i < j

LoadDirectory == /\ state = "adding"
                 /\ state' = "loading" /\ frames' = <<Frame(Root)>>
                 /\ UNCHANGED <<tree, omit, contentMap, regexMap, managed, path, found>>

LoadSubdirectory == state = "loading" /\ \E d \in Top.dirs :
  /\ frames' = Append([frames EXCEPT ![Len(frames)].dirs = @ \ {d}], Frame(d))
  /\ UNCHANGED <<tree, omit, contentMap, regexMap, managed, state, path, found>>

\* A duplicate path throws through every load_directory(): what was loaded stays.
Load(p, c, rest) == /\ Added(p, c)
                    /\ IF Taken(p) THEN frames' = <<>> /\ state' = "thrown"
                       ELSE frames' = rest /\ UNCHANGED state

LoadFile == state = "loading" /\ \E f \in Top.files :
  /\ LET left == [frames EXCEPT ![Len(frames)].files = @ \ {f}] IN
     IF f.ext \in Public
     THEN Load(NodePath(f), f, [left EXCEPT ![Len(frames)].index = IF Better(f, @) THEN f ELSE @])
     ELSE frames' = left /\ UNCHANGED <<contentMap, managed, state>>
  /\ UNCHANGED <<tree, omit, regexMap, path, found>>

Moved(p) == [moved |-> p]

Redirected(dir) == Len(dir) # 1

\* The index is added as a pointer only, then the redirection to it.
AddIndex(dir) ==
  /\ ~Taken(dir)
  /\ LET indexed == Insert(contentMap, dir, Top.index) IN
     IF ~Redirected(dir) \/ Taken(Front(dir)) THEN contentMap' = indexed /\ UNCHANGED managed
     ELSE /\ contentMap' = Insert(indexed, Front(dir), Moved(dir))
          /\ managed' = Append(managed, Moved(dir))

EndDirectory ==
  /\ state = "loading" /\ Top.files = {} /\ Top.dirs = {}
  /\ \/ Top.index = None /\ UNCHANGED <<contentMap, managed>>
     \/ Top.index # None /\ AddIndex(Top.dir)
     \/ Top.index # None /\ Taken(Top.dir) /\ UNCHANGED <<contentMap, managed>>
  /\ IF Top.index # None /\ (Taken(Top.dir) \/ (Redirected(Top.dir) /\ Taken(Front(Top.dir))))
     THEN frames' = <<>> /\ state' = "thrown"
     ELSE frames' = Front(frames) /\ state' = IF Len(frames) = 1 THEN "loaded" ELSE state
  /\ UNCHANGED <<tree, omit, regexMap, path, found>>

(***************************************************************************)
(* get_content.                                                            *)
(***************************************************************************)
Common(k, p) == Max({i \in 0 .. Len(k) : i <= Len(p) /\ SubSeq(k, 1, i) = SubSeq(p, 1, i)})
Closest(p) == {k \in DOMAIN regexMap : \A q \in DOMAIN regexMap : Common(q, p) <= Common(k, p)}

\* cb_map::longest_match: the first of the keys that share the most with the path.
LongestMatch(p) == {k \in Closest(p) : \A q \in Closest(p) : Len(k) <= Len(q)}

Suffix(p, k) == SubSeq(p, Len(k) + 1, Len(p))
Matching(p, k) == {i \in DOMAIN regexMap[k] : Suffix(p, k) \in regexMap[k][i].rests}

\* Mutant of RegexMatch: the last pattern that matches is taken
RegexMatchLast(p) == {[content |-> regexMap[k][Max(Matching(p, k))], at |-> k] :
                        k \in {q \in LongestMatch(p) : IsPrefix(q, p) /\ Matching(p, q) # {}}}

RegexMatch(p) == {[content |-> regexMap[k][Min(Matching(p, k))], at |-> k] :
                    k \in {q \in LongestMatch(p) : IsPrefix(q, p) /\ Matching(p, q) # {}}}

Get == \E p \in Requests :
  /\ state \in {"loaded", "thrown"}
  /\ path' = p
  /\ IF p \in DOMAIN contentMap THEN found' = [content |-> contentMap[p], at |-> p]
     ELSE found' \in RegexMatch(p) \cup (IF RegexMatch(p) = {} THEN {NotFound} ELSE {})
  /\ UNCHANGED <<tree, omit, contentMap, regexMap, managed, frames, state>>

Loads == LoadDirectory \/ LoadSubdirectory \/ LoadFile \/ EndDirectory
Asks == AddRegex \/ Get

Next == Add \/ Loads \/ Asks

Spec == Init /\ [][Next]_vars
-----------------------------------------------------------------------------
PublicFiles == {f \in tree : f.ext \in Public}
Dirs == {f.dir : f \in tree}
Indexes(dir) == {f \in PublicFiles : f.dir = dir /\ Priorities(f) # {}}
BestIndex(dir) == CHOOSE f \in Indexes(dir) :
  \A g \in Indexes(dir) : Min(Priorities(f)) <= Min(Priorities(g))

\* What a directory stands for: who asks for which path, however it is loaded.
Claims == {<<NodePath(f), f>> : f \in PublicFiles}
          \cup {<<d, BestIndex(d)>> : d \in {e \in Dirs : Indexes(e) # {}}}
          \cup {<<Front(d), [moved |-> d]>> : d \in {e \in Dirs : Len(e) > 1 /\ Indexes(e) # {}}}
Unclaimed == {p \in DOMAIN contentMap : contentMap[p] \in Shared}

TypeOK == /\ state \in {"adding", "loading", "loaded", "thrown"}
          /\ \A p \in DOMAIN contentMap : Valid(p)
          /\ \A i \in DOMAIN frames : frames[i].files \subseteq tree /\ Directory(frames[i].dir)
          /\ (frames # <<>>) = (state = "loading")

\* No pointer in the map outlives what keeps its content alive, whatever threw.
NoDangling == \A p \in DOMAIN contentMap : \E i \in DOMAIN managed : managed[i] = contentMap[p]

\* A directory that was loaded is in the map as it is, in whatever order its entries came: every
\* public file, the index of the highest priority at the directory, the redirection to it.
LoadedAsClaimed == state = "loaded" =>
  {<<p, contentMap[p]>> : p \in DOMAIN contentMap \ Unclaimed} = Claims

\* Loading throws if and only if two contents ask for one path.
ThrownForDuplicates == state \in {"loaded", "thrown"} =>
  (state = "thrown" <=> \/ \E c, d \in Claims : c # d /\ c[1] = d[1]
                        \/ \E c \in Claims : c[1] \in Unclaimed)

\* Every redirection leads to the index of its directory, also after a load that threw.
RedirectsLand == \A f \in tree : \A p \in DOMAIN contentMap :
  p = Front(f.dir) /\ contentMap[p] \notin tree \cup Shared =>
    /\ contentMap[p].moved \in DOMAIN contentMap
    /\ contentMap[contentMap[p].moved] \in Indexes(f.dir)

\* The content found for a path that is not in the map is the first whose pattern matches what
\* follows its key.
FirstRegexFound == path \notin DOMAIN contentMap /\ found # NotFound =>
  /\ IsPrefix(found.at, path) /\ Suffix(path, found.at) \in found.content.rests
  /\ \A i \in DOMAIN regexMap[found.at] : Suffix(path, found.at) \in regexMap[found.at][i].rests =>
       \E j \in 1 .. i : regexMap[found.at][j] = found.content

\* In every step: a path with a regex content that matches is not found only if a key shares more with it, be it
\* that the longer key is no prefix of the path.
HiddenByLonger == Get /\ found' = NotFound =>
  \A k \in DOMAIN regexMap : IsPrefix(k, path') /\ Matching(path', k) # {} =>
    \E q \in DOMAIN regexMap : Common(q, path') > Len(k)
=============================================================================
