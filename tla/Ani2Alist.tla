------------------------------ MODULE Ani2Alist ------------------------------
(***************************************************************************)
(* The Ani2Alist module: a run reads the storage of its mount path, parses *)
(* its address tree, merges the files of a season's site or of the RSS     *)
(* feed into it, and writes the whole back.  Several configurations may    *)
(* share a storage; the registry's lock keeps only the runs of one apart.  *)
(*                                                                         *)
(* A text is a sequence of lines; a line is its indentation and its parts, *)
(* what the colons separate.  A name is a sequence of parts too.  In       *)
(* memory a tree is a function from names to files and directories, which  *)
(* Go writes out in any order.                                             *)
(*                                                                         *)
(* Abstracted: the requests to the site are one step, which may fail; the  *)
(* other fields of a storage; blank lines, tabs, empty names; dates and    *)
(* sizes, and with them a file that changes at its source; the title of a  *)
(* feed's entry, which is the last name of its link here.                  *)
(***************************************************************************)
EXTENDS Naturals, Sequences, TLC

CONSTANTS
  Seasons,        \* configurations that follow a season's or keyword's site
  Feeds,          \* configurations that follow the RSS feed
  Key,            \* getKey: the directory of each season
  Items,          \* for each configuration: paths its source may have
  Texts,          \* address trees a user may have written
  MaxEvents       \* bound on the changes and faults of a behaviour

Configs == Seasons \cup Feeds

ASSUME ConfigAssumption == Seasons \cap Feeds = {} /\ MaxEvents \in Nat

VARIABLES
  created,  \* the storage exists
  text,     \* its address tree
  source,   \* what each configuration's source has
  budget,
  pc,
  dict,     \* each run's tree
  known,    \* the run has the storage's id
  read      \* history: the files of the text it read that it has to keep

runVars == <<pc, dict, known, read>>
vars    == <<created, text, source, budget, runVars>>

-----------------------------------------------------------------------------
(***************************************************************************)
(* Trees.                                                                  *)
(***************************************************************************)
NoTree    == <<>>
File(val) == [val |-> val]
Dir(tree) == [sub |-> tree]
IsDir(n)  == "sub" \in DOMAIN n
With(tree, name, node) == (name :> node) @@ tree

(* Size, time and a link with one colon.                                    *)
Link == <<"size", "time", "https", "link">>

(* updateDataRecursive for one file: the directories on its path are made;  *)
(* CanPut tells whether the assertions that they are directories hold.      *)
RECURSIVE CanPut(_, _)
CanPut(tree, path) ==
  Len(path) > 1 /\ Head(path) \in DOMAIN tree =>
    IsDir(tree[Head(path)]) /\ CanPut(tree[Head(path)].sub, Tail(path))

(* A mutant of Put: the directories on the path are always made anew.       *)
RECURSIVE PutAnew(_, _)
PutAnew(tree, path) ==
  With(tree, Head(path),
       IF Len(path) = 1 THEN File(Link) ELSE Dir(PutAnew(NoTree, Tail(path))))

RECURSIVE Put(_, _)
Put(tree, path) ==
  LET name == Head(path) IN
  IF Len(path) = 1 THEN With(tree, name, File(Link))
  ELSE With(tree, name, Dir(Put(IF name \in DOMAIN tree THEN tree[name].sub ELSE NoTree,
                                Tail(path))))

(* handleRSSRecursive: the directories of the link are made up to the first *)
(* name that is a file's; the file itself goes to the root.                 *)
RECURSIVE MakeDirs(_, _)
MakeDirs(tree, path) ==
  LET name == Head(path) IN
  CASE Len(path) = 1 -> tree
    [] name \notin DOMAIN tree -> With(tree, name, Dir(MakeDirs(NoTree, Tail(path))))
    [] IsDir(tree[name]) -> With(tree, name, Dir(MakeDirs(tree[name].sub, Tail(path))))
    [] OTHER -> tree

PutFeed(tree, path) ==
  IF CanPut(tree, path) THEN With(MakeDirs(tree, path), path[Len(path)], File(Link))
  ELSE MakeDirs(tree, path)

(* The files of a set, one after the other.                                 *)
RECURSIVE PutAll(_, _, _)
PutAll(c, tree, paths) ==
  IF paths = {} THEN tree
  ELSE LET p    == CHOOSE q \in paths : TRUE
           next == IF c \in Feeds THEN PutFeed(tree, p) ELSE Put(tree, p)
       IN PutAll(c, next, paths \ {p})

-----------------------------------------------------------------------------
(***************************************************************************)
(* structure2Dict and dict2Structure.                                      *)
(***************************************************************************)
IsFolder(line) == Len(line.parts) = 1 \/ (Len(line.parts) = 2 /\ line.parts[2] = "")

(* parseLines: the name is the first part.  The other parts, whether the    *)
(* code keeps them as a string or as a list, are written back as they were. *)
RECURSIVE ParseLines(_, _, _, _, _)
ParseLines(lines, i, indent, tree, folder) ==
  IF i > Len(lines) THEN [tree |-> tree, next |-> i]
  ELSE LET line == lines[i]
           name == <<line.parts[1]>>
       IN CASE line.indent > indent ->
                 LET inner == ParseLines(lines, i, line.indent, NoTree, <<"">>)
                 IN ParseLines(lines, inner.next, indent,
                               With(tree, folder, Dir(inner.tree)), folder)
            [] line.indent < indent -> [tree |-> tree, next |-> i]
            [] line.indent = indent /\ IsFolder(line) ->
                 ParseLines(lines, i + 1, indent, With(tree, name, Dir(NoTree)), name)
            [] OTHER ->
                 ParseLines(lines, i + 1, indent,
                            With(tree, name, File(Tail(line.parts))), folder)

Parse(lines) == ParseLines(lines, 1, 0, NoTree, <<"">>).tree

Line(indent, parts) == <<[indent |-> indent, parts |-> parts]>>

RECURSIVE PrintsOf(_, _, _)
PrintsOf(tree, names, indent) ==
  IF names = {} THEN {<<>>}
  ELSE UNION {
    LET first == IF IsDir(tree[name])
                 THEN {Line(indent, name \o <<"">>) \o s :
                       s \in PrintsOf(tree[name].sub, DOMAIN tree[name].sub, indent + 2)}
                 ELSE {Line(indent, name \o tree[name].val)}
    IN {f \o s : f \in first, s \in PrintsOf(tree, names \ {name}, indent)}
    : name \in names}

Prints(tree) == PrintsOf(tree, DOMAIN tree, 0)

-----------------------------------------------------------------------------
(***************************************************************************)
(* Runs.                                                                   *)
(***************************************************************************)
(* What a text says, without a parser: the name of a line, below the names  *)
(* of the nearest lines before it that are indented less.                   *)
NameOf(line) ==
  LET n == Len(line.parts) IN
  IF n > Len(Link) /\ SubSeq(line.parts, n - Len(Link) + 1, n) = Link
  THEN SubSeq(line.parts, 1, n - Len(Link)) ELSE <<line.parts[1]>>

Parent(lines, j) ==
  LET above == {i \in 1 .. j - 1 : lines[i].indent < lines[j].indent}
  IN IF above = {} THEN 0 ELSE CHOOSE i \in above : \A h \in above : h <= i

RECURSIVE PathOf(_, _)
PathOf(lines, j) ==
  LET parent == Parent(lines, j)
  IN IF parent = 0 THEN <<NameOf(lines[j])>>
     ELSE Append(PathOf(lines, parent), NameOf(lines[j]))

FilesOf(lines) ==
  {PathOf(lines, j) : j \in {i \in DOMAIN lines : ~IsFolder(lines[i])}}

(* A text that parseLines reads as it is meant: what is indented is in a    *)
(* directory, and what is in one directory has one indentation, of the      *)
(* user's choice, and different names.                                      *)
Regular(lines) ==
  \A j \in DOMAIN lines :
    /\ IF Parent(lines, j) = 0 THEN lines[j].indent = 0 ELSE IsFolder(lines[Parent(lines, j)])
    /\ \A i \in 1 .. j - 1 :
         Parent(lines, i) = Parent(lines, j) =>
           lines[i].indent = lines[j].indent /\ lines[i].parts[1] # lines[j].parts[1]

(* The files of a text that a run must not lose.                            *)
Kept(lines) == IF Regular(lines) THEN FilesOf(lines) ELSE {}

(* Where a file of its source is in the tree.                               *)
Place(c, path) == IF c \in Seasons THEN <<Key[c]>> \o path ELSE <<path[Len(path)]>>

Within(dir, path) == Len(dir) < Len(path) /\ SubSeq(path, 1, Len(dir)) = dir

Init ==
  /\ created \in BOOLEAN
  /\ text \in IF created THEN Texts ELSE {<<>>}
  /\ source \in [Configs -> SUBSET UNION {Items[c] : c \in Configs}]
  /\ \A c \in Configs : source[c] \subseteq Items[c]
  /\ budget = MaxEvents
  /\ pc = [c \in Configs |-> "idle"] /\ dict = [c \in Configs |-> NoTree]
  /\ known = [c \in Configs |-> FALSE] /\ read = [c \in Configs |-> {}]

Spend == budget > 0 /\ budget' = budget - 1

End(c) ==
  /\ pc' = [pc EXCEPT ![c] = "idle"] /\ dict' = [dict EXCEPT ![c] = NoTree]
  /\ known' = [known EXCEPT ![c] = FALSE] /\ read' = [read EXCEPT ![c] = {}]

StartRun(c) ==
  /\ pc[c] = "idle" /\ pc' = [pc EXCEPT ![c] = "find"]
  /\ UNCHANGED <<created, text, source, budget, dict, known, read>>

(* A mutant of Find: the storage is returned without its id.                *)
FindWithoutId(c) ==
  /\ pc[c] = "find"
  /\ IF created
     THEN /\ pc' = [pc EXCEPT ![c] = "merge"] /\ UNCHANGED known
          /\ dict' = [dict EXCEPT ![c] = Parse(text)]
          /\ read' = [read EXCEPT ![c] = Kept(text)]
     ELSE pc' = [pc EXCEPT ![c] = "create"] /\ UNCHANGED <<dict, known, read>>
  /\ UNCHANGED <<created, text, source, budget>>

(* GetStorageByMountPath: the storage as it is now, or none.                *)
Find(c) ==
  /\ pc[c] = "find"
  /\ IF created
     THEN /\ pc' = [pc EXCEPT ![c] = "merge"] /\ known' = [known EXCEPT ![c] = TRUE]
          /\ dict' = [dict EXCEPT ![c] = Parse(text)]
          /\ read' = [read EXCEPT ![c] = Kept(text)]
     ELSE pc' = [pc EXCEPT ![c] = "create"] /\ UNCHANGED <<dict, known, read>>
  /\ UNCHANGED <<created, text, source, budget>>

(* A storage made here is known without its id; a mount path is taken once. *)
Create(c) ==
  /\ pc[c] = "create"
  /\ IF created THEN End(c) /\ UNCHANGED <<created, text>>
     ELSE /\ created' = TRUE /\ text' = <<>>
          /\ pc' = [pc EXCEPT ![c] = "merge"] /\ UNCHANGED <<dict, known, read>>
  /\ UNCHANGED <<source, budget>>

Paths(c) == IF c \in Seasons THEN {<<Key[c]>> \o p : p \in source[c]} ELSE source[c]

(* updateURLDicts.  A season whose directory, or one below it, is a file in *)
(* the tree ends the run in a panic; a file replaces a directory that has   *)
(* its name, with all in it.                                                *)
Merge(c) ==
  /\ pc[c] = "merge"
  /\ IF c \in Seasons /\ \E p \in Paths(c) \cup {<<Key[c], Key[c]>>} : ~CanPut(dict[c], p)
     THEN End(c)
     ELSE /\ pc' = [pc EXCEPT ![c] = "save"]
          /\ dict' = [dict EXCEPT ![c] =
               PutAll(c, IF c \in Seasons /\ Key[c] \notin DOMAIN @
                         THEN With(@, Key[c], Dir(NoTree)) ELSE @, Paths(c))]
          /\ read' = [read EXCEPT ![c] =
               {f \in @ : \A p \in source[c] : ~Within(Place(c, p), f)}]
          /\ UNCHANGED known
  /\ UNCHANGED <<created, text, source, budget>>

(* AdminStorageUpdate, which the server refuses without an id.              *)
Save(c) ==
  /\ pc[c] = "save" /\ End(c)
  /\ IF known[c] THEN text' \in Prints(dict[c]) ELSE UNCHANGED text
  /\ UNCHANGED <<created, source, budget>>

(* Any request may fail and end the run; a storage may be created and only  *)
(* the answer be lost.                                                      *)
Fail(c) ==
  /\ pc[c] # "idle" /\ Spend /\ End(c)
  /\ \/ UNCHANGED <<created, text>>
     \/ pc[c] = "create" /\ ~created /\ created' = TRUE /\ text' = <<>>
  /\ UNCHANGED source

Publish(c, path) ==
  /\ Spend /\ path \in Items[c] \ source[c]
  /\ source' = [source EXCEPT ![c] = @ \cup {path}]
  /\ UNCHANGED <<created, text, runVars>>

Withdraw(c, path) ==
  /\ Spend /\ path \in source[c] /\ source' = [source EXCEPT ![c] = @ \ {path}]
  /\ UNCHANGED <<created, text, runVars>>

Edit ==
  /\ Spend /\ created /\ text' \in Texts
  /\ UNCHANGED <<created, source, runVars>>

Run(c) == StartRun(c) \/ Find(c) \/ Create(c) \/ Merge(c) \/ Save(c)

Next == \/ \E c \in Configs : \/ Run(c) \/ Fail(c)
                             \/ \E p \in Items[c] : Publish(c, p) \/ Withdraw(c, p)
        \/ Edit

Spec     == Init /\ [][Next]_vars

(* The schedule fires for ever and requests have timeouts.  Run(c) is       *)
(* always enabled: this is its weak fairness.                               *)
FairSpec == Spec /\ \A c \in Configs : []<><<Run(c)>>_vars

-----------------------------------------------------------------------------
(***************************************************************************)
(* Properties.                                                             *)
(***************************************************************************)
(* structure2Dict, dict2Structure: a run writes back every file of a       *)
(* regular text it read, in the directory it was in, whatever order Go     *)
(* writes a map in, however the user indented it and whatever was merged,  *)
(* but for a directory that a merged file replaces.  (Of a text that is    *)
(* not regular the parser does lose files.)                                *)
KeepsWhatItRead ==
  [][\A c \in Configs : pc[c] = "save" /\ text' # text => read[c] \subseteq FilesOf(text')
                       \/ pc'[c] = "save"]_vars

(* Run: a file that stays at its source is in the storage at some time,    *)
(* even if the first run had to create the storage, runs failed, or        *)
(* another configuration wrote the storage at the same time.               *)
Published ==
  \A c \in Configs : \A p \in Items[c] :
    [](p \in source[c]) ~> Place(c, p) \in FilesOf(text)
=============================================================================
