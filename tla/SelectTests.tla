----------------------------- MODULE SelectTests -----------------------------
(***************************************************************************)
(* list_test_files and files_with_ext of tests/src/frontend/verify.py: the *)
(* recursive walk that selects the test files, over every small directory *)
(* tree, checked against the selection rule it implements and against the *)
(* rule of spec.md sections 4.5 and 8.                                     *)
(*                                                                         *)
(* A file name is a sequence of tokens, a stem followed by extensions:    *)
(* <<"a", ".sk">> is "a.sk", <<"a", ".sk", ".no_typecheck">> is            *)
(* "a.sk.no_typecheck"; os.path.splitext splits off the last extension.   *)
(* A path is a sequence of names.  An entry is a file, a directory, a      *)
(* broken symlink, or "vanished": listed by os.listdir and deleted before  *)
(* the walk stats it.  os.listdir's order is arbitrary; the walk is        *)
(* modelled by the set of paths it returns.                                *)
(***************************************************************************)
EXTENDS Naturals, Sequences, FiniteSets

CONSTANTS
  Names,        \* the file names a tree can use
  Roots,        \* names the test_path argument can have
  DisabledExt,  \* --disabled-extension
  SkExt,        \* ".sk"
  Pruned,       \* the names 'disabled', 'failing', 'todo'
  Raise,        \* the outcome of the walk raising an Exception
  MaxEntries,   \* how many entries a tree has at most
  MaxDepth      \* how deep a path is at most

ASSUME SelectTestsAssumption ==
  /\ Names \subseteq Seq(STRING) /\ Roots \subseteq Seq(STRING)
  /\ Pruned \subseteq Names
  /\ MaxEntries \in Nat \ {0} /\ MaxDepth \in Nat \ {0}

Kinds == {"file", "dir", "link", "vanished"}

VARIABLES
  root,   \* the test_path argument
  fs      \* the tree: path -> kind, for the paths that exist

vars == <<root, fs>>

-----------------------------------------------------------------------------
(* os.path.splitext on a name, and name.endswith('.sk').                  *)

\* The name without its last extension ("a.sk" -> "a"; "a" -> "a").
Stem(n) == IF Len(n) > 1 THEN SubSeq(n, 1, Len(n) - 1) ELSE n

\* The last extension, or "" when there is none.
Ext(n) == IF Len(n) > 1 THEN n[Len(n)] ELSE ""

\* The entries os.listdir(p) returns.
Children(p) == {n \in Names : Append(p, n) \in DOMAIN fs}

\* Mutant: the marker's full name is compared instead of its prefix.
FilesWithExtWhole(files, ext) == {n \in files : Ext(n) = ext}

\* files_with_ext(files, ext): the prefixes of the names ending in ext.
FilesWithExt(files, ext) == {Stem(n) : n \in {m \in files : Ext(m) = ext}}

\* A broken symlink (editors' lock files) is skipped.
SkipsLink(p) == fs[p] = "link"

\* list_test_files(p): a .sk file is a test, another file is not; a
\* directory contributes the walk of each child that is not pruned by name
\* and not named like the prefix of a marker; a broken link contributes
\* nothing; anything else raises, and the exception ends the whole walk.
RECURSIVE Walk(_)
Walk(p) ==
  IF fs[p] = "file" THEN IF Ext(p[Len(p)]) = SkExt THEN {p} ELSE {}
  ELSE IF fs[p] = "dir" THEN
    LET disabled == FilesWithExt(Children(p), DisabledExt)
        kept     == {n \in Children(p) : n \notin Pruned /\ n \notin disabled}
        subs     == {Walk(Append(p, n)) : n \in kept}
    IN IF Raise \in subs THEN Raise ELSE UNION subs
  ELSE IF SkipsLink(p) THEN {}
  ELSE Raise

-----------------------------------------------------------------------------
(* Building the trees: the walk runs on every tree these steps reach.     *)

Init ==
  /\ root \in {<<r>> : r \in Roots}
  /\ \E k \in Kinds : fs = [p \in {root} |-> k]

\* A new entry in an existing directory.
AddEntry ==
  /\ Cardinality(DOMAIN fs) < MaxEntries
  /\ \E p \in DOMAIN fs, n \in Names, k \in Kinds :
       /\ fs[p] = "dir" /\ Len(p) < MaxDepth
       /\ Append(p, n) \notin DOMAIN fs
       /\ fs' = [q \in DOMAIN fs \cup {Append(p, n)} |->
                   IF q = Append(p, n) THEN k ELSE fs[q]]
  /\ UNCHANGED root

Next == AddEntry

Spec == Init /\ [][Next]_vars

-----------------------------------------------------------------------------
(* Properties.                                                             *)

TypeOK ==
  /\ root \in {<<r>> : r \in Roots}
  /\ root \in DOMAIN fs
  /\ \A p \in DOMAIN fs : fs[p] \in Kinds /\ Len(p) \in 1..MaxDepth

\* The proper ancestors of path p below the root, and p itself.
Below(p) == {SubSeq(p, 1, k) : k \in Len(root) + 1 .. Len(p)}

\* The directory holding path q, and q's own name.
Parent(q) == SubSeq(q, 1, Len(q) - 1)
Last(q) == q[Len(q)]

\* A sibling of q is named q's name followed by the disabled extension.
HasMarker(q) == Append(Parent(q), Append(Last(q), DisabledExt)) \in DOMAIN fs

\* A path the walk visits: below the root, through directories only, and
\* no component pruned or with a marker named after it.
Visited(p) ==
  /\ SubSeq(p, 1, Len(root)) = root
  /\ \A q \in Below(p) :
       fs[Parent(q)] = "dir" /\ Last(q) \notin Pruned /\ ~HasMarker(q)

\* The selection as a rule rather than a recursion: the .sk files the walk
\* visits, unless it visits an entry that is neither file, directory nor
\* link, in which case the selection raises.
Selection ==
  LET visited == {p \in DOMAIN fs : Visited(p)}
  IN IF \E p \in visited : fs[p] = "vanished" THEN Raise
     ELSE {p \in visited : fs[p] = "file" /\ Ext(Last(p)) = SkExt}

\* The recursive walk selects exactly the tests of the rule: pruned
\* directories and marked names are skipped at every depth, broken links
\* are skipped without an error, and an entry deleted during the walk
\* aborts it.
WalkMatchesSelection == Walk(root) = Selection

\* spec.md sections 4.5 and 8: a file name.ext is excluded when a sibling
\* name<disabledExtension> exists (a.no_typecheck excludes a.sk), a
\* directory named disabled, failing or todo is pruned, broken links are
\* skipped.  Trees with an entry deleted during the walk are left out.
SpecSelection ==
  LET specVisited(p) ==
        /\ SubSeq(p, 1, Len(root)) = root
        /\ \A q \in Below(p) : fs[Parent(q)] = "dir" /\ Last(q) \notin Pruned
      marked(p) ==
        Append(Parent(p), Append(Stem(Last(p)), DisabledExt)) \in DOMAIN fs
  IN {p \in DOMAIN fs : specVisited(p) /\ fs[p] = "file"
                        /\ Ext(Last(p)) = SkExt /\ ~marked(p)}

MatchesSpecSelection ==
  (\A p \in DOMAIN fs : fs[p] # "vanished") => Walk(root) = SpecSelection

=============================================================================
