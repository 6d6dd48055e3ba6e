-------------------------------- MODULE Paths --------------------------------
(***************************************************************************)
(* Path (lib/path.cc, lib/path.hh), a list of names, and the permission    *)
(* checks and system calls of User (src/user.cc) on a tree of files. What  *)
(* an FTP command is given is an argument: whether it begins with a slash, *)
(* and the components between its slashes.                                 *)
(***************************************************************************)
EXTENDS Naturals, FiniteSets, SequencesExt

\* An argument, as the text between its slashes.
Arg(absolute, parts) == [absolute |-> absolute, parts |-> parts]

\* Mutant of AppendOne: "." is taken for a name.
AppendOneKeepingDot(path, name) ==
  CASE name = ""   -> path
    [] name = ".." -> IF path = <<>> THEN path ELSE Front(path)
    [] OTHER       -> Append(path, name)

\* Path::append_one.
AppendOne(path, name) ==
  CASE name \in {"", "."} -> path
    [] name = ".."        -> IF path = <<>> THEN path ELSE Front(path)
    [] OTHER              -> Append(path, name)

\* Path::chdir, whose append takes one component after the other; and
\* Path(dir, then), which is a copy of dir that did chdir(then).
Chdir(path, arg) ==
  FoldLeft(AppendOne, IF arg.absolute THEN <<>> ELSE path, arg.parts)

Parent(path) == IF path = <<>> THEN path ELSE Front(path)

-----------------------------------------------------------------------------
(***************************************************************************)
(* A tree is a function from the paths that exist to nodes. "read" and     *)
(* "write" are what Stat::may_read and Stat::may_write say of the mode and *)
(* the owner of a node; "made" tells the nodes that were stored or made.   *)
(***************************************************************************)
Nodes == [kind : {"dir", "file"}, read : BOOLEAN, write : BOOLEAN,
          made : BOOLEAN]

\* What open(O_CREAT, 0664) and mkdir(0777) make under the umask of main().
NewNode(kind) == [kind |-> kind, read |-> TRUE, write |-> TRUE, made |-> TRUE]

\* User::exists, User::access_dir and User::access_file: check_access.
Exists(tree, path) == path \in DOMAIN tree

MayReadDir(tree, path) ==
  Exists(tree, path) /\ tree[path].kind = "dir" /\ tree[path].read

MayWriteDir(tree, path) ==
  Exists(tree, path) /\ tree[path].kind = "dir" /\ tree[path].write

\* Mutant of MayDelete: only the directory is looked at, as unlink(2) does.
MayDeleteFromDirectory(tree, path) ==
  Exists(tree, path) /\ MayWriteDir(tree, Parent(path))

\* User::may_delete. Of the root it is undefined: pop_back of an empty list.
MayDelete(tree, path) ==
  Exists(tree, path) /\ tree[path].write /\ MayWriteDir(tree, Parent(path))

DeleteUndefined(tree, path) ==
  path = <<>> /\ Exists(tree, path) /\ tree[path].write

\* A tree has the directories that its paths lead through.
MayHold(tree, path) == Exists(tree, path) /\ tree[path].kind = "dir"

Rooted(tree) ==
  \A p \in DOMAIN tree : \A n \in 0 .. Len(p) - 1 :
    MayHold(tree, SubSeq(p, 1, n))

\* User::may_create.
MayCreate(tree, path) == path # <<>> /\ MayWriteDir(tree, Parent(path))

\* What User::open_fd lets through.
MayRetrieve(tree, path) ==
  Exists(tree, path) /\ tree[path].kind = "file" /\ tree[path].read

MayStore(tree, path) ==
  IF Exists(tree, path)
  THEN tree[path].kind = "file" /\ tree[path].write
  ELSE MayCreate(tree, path)

\* User::stat in User::list, and User::listdir: whether LIST gets a lister.
MayList(tree, path) ==
  /\ MayReadDir(tree, Parent(path))
  /\ Exists(tree, path) => tree[path].kind = "file" \/ tree[path].read

-----------------------------------------------------------------------------
\* The system calls: whether each succeeds, and the tree it leaves.
Below(tree, path) == {p \in DOMAIN tree : IsStrictPrefix(path, p)}

CanUnlink(tree, path) == tree[path].kind = "file"
CanRmdir(tree, path) == tree[path].kind = "dir" /\ Below(tree, path) = {}
CanMkdir(tree, path) == ~ Exists(tree, path)

Without(tree, path) == [p \in DOMAIN tree \ {path} |-> tree[p]]
With(tree, path, node) ==
  [p \in DOMAIN tree \cup {path} |-> IF p = path THEN node ELSE tree[p]]

\* rename(2) replaces a file by a file and an empty directory by a directory,
\* and moves no directory below itself.
CanRename(tree, from, to) ==
  /\ ~ IsStrictPrefix(from, to)
  /\ Exists(tree, to) => /\ tree[from].kind = tree[to].kind
                         /\ Below(tree, to) = {} \/ from = to

\* Where a node that was under "from" is after the rename.
Moved(path, from, to) ==
  IF IsPrefix(from, path)
  THEN to \o SubSeq(path, Len(from) + 1, Len(path))
  ELSE path

Rename(tree, from, to) ==
  LET stay == IF from = to THEN DOMAIN tree ELSE DOMAIN tree \ {to}
  IN  [q \in {Moved(p, from, to) : p \in stay} |->
         tree[CHOOSE p \in stay : Moved(p, from, to) = q]]
=============================================================================
