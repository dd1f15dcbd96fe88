-------------------------------- MODULE Paths --------------------------------
(***************************************************************************)
(* Paths and the current directory (src/kernel/fat.c).  The current        *)
(* directory is kept as a string; a path is appended to it, resolved       *)
(* without a look at the disk (getpath), and walked down from the root     *)
(* (find_path_directory).  The volume is a tree of directories; the slots  *)
(* of one are in Directory, and the clusters in FatChains.                 *)
(*                                                                         *)
(* A path is what lies between its separators.  A directory is named by    *)
(* its first cluster.                                                      *)
(***************************************************************************)
EXTENDS Naturals, Sequences, FiniteSets, SequencesExt

CONSTANTS
  Components,           \* the names a directory can hold
  Overlong,             \* a name of MAX_PATH_LENGTH characters or more
  NameLength,           \* the length of each name
  MAX_PATH_LENGTH,      \* what holds a component, and the current directory
  MAX_PATH_COMPONENTS,  \* the components getpath keeps
  MaxParts,             \* the parts of the paths programs use
  RootDir, DirClusters  \* the root directory, and the other clusters

VARIABLES
  tree,         \* what the entries of each directory lead to
  cwd,          \* fat_current_directory
  cwd_sector,   \* fat_current_directory_sector
  moved,        \* history: the current directory was renamed, removed or left
                \* for the root since a chdir set the sector
  looped        \* history: a directory was renamed into itself

pathVars == <<tree, cwd, cwd_sector, moved, looped>>

NoEntry == "none"
File == "file"
PathStrings == [absolute : BOOLEAN,
                parts : BoundedSeq(Components \cup {Overlong, ".", ".."}, MaxParts)]

Empty == [name \in Components |-> NoEntry]
Directories == DOMAIN tree

PathInit ==
  /\ \E files \in SUBSET Components :
       tree = (RootDir :> [name \in Components |-> IF name \in files THEN File ELSE NoEntry])
  /\ cwd = <<>> /\ cwd_sector = RootDir
  /\ moved = FALSE /\ looped = FALSE

(***************************************************************************)
(* Resolution.                                                             *)
(***************************************************************************)

\* Mutant: ".." goes back to the root.
ResolvedToRoot(path, part) ==
  CASE part = "." -> path [] part = ".." -> <<>> [] OTHER -> Append(path, part)

\* The components after one more part.
Resolved(path, part) ==
  CASE part = "." -> path
    [] part = ".." -> IF path = <<>> THEN path ELSE Front(path)
    [] OTHER -> Append(path, part)

\* The components of a path, from the root.  A component that is too long makes
\* the result the root's; what comes after the last component kept is ignored.
getpath(p) ==
  LET add(result, part) ==
        LET path == Resolved(result.path, part)
        IN IF result.end THEN result
           ELSE IF part = Overlong THEN [path |-> <<>>, end |-> TRUE]
           ELSE [path |-> path, end |-> Len(path) = MAX_PATH_COMPONENTS]
  IN FoldLeft(add, [path |-> <<>>, end |-> FALSE],
              IF p.absolute THEN p.parts ELSE cwd \o p.parts).path

\* The entry of a name, which may be none, and the directory it leads to.
Entry(d, name) == IF d \in Directories THEN tree[d][name] ELSE NoEntry
Below(d, name) == IF Entry(d, name) \in Directories THEN tree[d][name] ELSE NoEntry

find_path_directory(path) == FoldLeft(Below, RootDir, path)

\* fat_find_file and its like: the entry that is the last component.
fat_find_file(path) ==
  IF path = <<>> THEN NoEntry ELSE Entry(find_path_directory(Front(path)), Last(path))

\* fat_opendir: the root only as "/", or as nothing.
fat_directory_from_path(p) ==
  IF p.parts = <<>> THEN RootDir
  ELSE LET found == fat_find_file(getpath(p))
       IN IF found \in Directories THEN found ELSE NoEntry

\* The string of the current directory fits.
fat_build_path_from_components(path) ==
  FoldLeft(LAMBDA n, name : n + 1 + NameLength[name], 1, path) <= MAX_PATH_LENGTH

(***************************************************************************)
(* Operations.  path is what getpath makes of the argument.                *)
(***************************************************************************)

\* The root is not walked to, and its sector not set.
fat_chdir(path) ==
  /\ IF path = <<>>
       THEN moved' = (cwd_sector # RootDir) /\ UNCHANGED cwd_sector
       ELSE /\ find_path_directory(path) # NoEntry
            /\ fat_build_path_from_components(path)
            /\ cwd_sector' = find_path_directory(path) /\ moved' = FALSE
  /\ cwd' = path
  /\ UNCHANGED <<tree, looped>>

fat_mkdir(path) ==
  /\ path # <<>>
  /\ LET parent == find_path_directory(Front(path))
     IN /\ parent # NoEntry /\ fat_find_file(path) = NoEntry
        /\ \E new \in DirClusters \ Directories :
             tree' = [d \in Directories \cup {new} |->
                        IF d = new THEN Empty
                        ELSE IF d = parent THEN [tree[d] EXCEPT ![Last(path)] = new]
                        ELSE tree[d]]
  /\ UNCHANGED <<cwd, cwd_sector, moved, looped>>

fat_rmdir(path) ==
  /\ fat_find_file(path) \in Directories
  /\ LET old == fat_find_file(path)
     IN /\ tree[old] = Empty
        /\ tree' = [d \in Directories \ {old} |->
                      IF d = find_path_directory(Front(path))
                      THEN [tree[d] EXCEPT ![Last(path)] = NoEntry] ELSE tree[d]]
  /\ moved' = (moved \/ IsPrefix(path, cwd))
  /\ UNCHANGED <<cwd, cwd_sector, looped>>

fat_unlink(path) ==
  /\ fat_find_file(path) = File
  /\ tree' = [tree EXCEPT ![find_path_directory(Front(path))][Last(path)] = NoEntry]
  /\ UNCHANGED <<cwd, cwd_sector, moved, looped>>

\* Nothing is compared but the last components: a directory can become an entry
\* of its own, or of one below it.
fat_rename(old, new) ==
  /\ fat_find_file(old) # NoEntry
  /\ new # <<>> /\ find_path_directory(Front(new)) # NoEntry
  /\ fat_find_file(new) = NoEntry
  /\ tree' = [tree EXCEPT
                ![find_path_directory(Front(new))][Last(new)] = fat_find_file(old),
                ![find_path_directory(Front(old))][Last(old)] = NoEntry]
  /\ moved' = (moved \/ IsPrefix(old, cwd))
  /\ looped' = (looped \/ IsPrefix(old, new))
  /\ UNCHANGED <<cwd, cwd_sector>>

PathNext ==
  \E paths \in {{getpath(p) : p \in PathStrings}} : \E path \in paths :
    \/ fat_chdir(path) \/ fat_mkdir(path) \/ fat_rmdir(path) \/ fat_unlink(path)
    \/ \E new \in paths : fat_rename(path, new)

PathSpec == PathInit /\ [][PathNext]_pathVars

(***************************************************************************)
(* Properties.                                                             *)
(***************************************************************************)

\* Every directory is an entry of one directory, and can be reached unless some
\* directory was renamed into itself: none is lost by what happens to the others.
TreeIsSound ==
  \A d \in Directories \ {RootDir} :
    /\ Cardinality({e \in Directories \X Components : tree[e[1]][e[2]] = d}) = 1
    /\ looped \/ \E path \in BoundedSeq(Components, Cardinality(Directories)) :
                   find_path_directory(path) = d

\* The reference: a path is followed from the directory one is in, part by part,
\* ".." to the directory above.
Above(d) ==
  IF d = RootDir THEN RootDir
  ELSE CHOOSE e \in Directories : \E name \in Components : tree[e][name] = d
Followed(p) ==
  FoldLeft(LAMBDA d, part : IF d = NoEntry \/ part = Overlong THEN NoEntry
                            ELSE CASE part = "." -> d
                                   [] part = ".." -> Above(d)
                                   [] OTHER -> Below(d, part),
           IF p.absolute THEN RootDir ELSE find_path_directory(cwd), p.parts)

\* A path that can be followed is found where it leads, by the calls that look a
\* name up and, but for the root, by those that open a directory, although names
\* are resolved before anything is looked at.  (Paths with more components than
\* getpath keeps are cut, and lead to an ancestor; the empty path opens the root.)
LookupFollows ==
  \A p \in PathStrings :
    LET goal == Followed(p)
    IN Len(cwd) + Len(p.parts) <= MAX_PATH_COMPONENTS /\ goal # NoEntry =>
         /\ find_path_directory(getpath(p)) = goal
         /\ goal # RootDir => \/ p = [absolute |-> FALSE, parts |-> <<>>]
                             \/ fat_directory_from_path(p) = goal

\* The string and the sector of the current directory name the same directory
\* until it is renamed, removed, or left for the root, which sets the string only.
CwdLeads == ~moved => find_path_directory(cwd) = cwd_sector /\ cwd_sector # NoEntry

\* Paths lead where they say, whatever was created, renamed and removed.
PathsLead == TreeIsSound /\ LookupFollows /\ CwdLeads

=============================================================================
